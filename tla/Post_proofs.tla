----------------------------- MODULE Post_proofs -----------------------------
(***************************************************************************)
(* Machine-checked proofs about Post, for any number of messages, alarms,  *)
(* strays and crashes.                                                     *)
(*                                                                         *)
(* No message is lost, for three reasons the invariant names: what the     *)
(* core has in hand lies in cur/ under that very name; nothing else that   *)
(* can be read lies there while the core is up; and the file in hand is    *)
(* only removed when its turn was closed or a copy of it is waiting.       *)
(*                                                                         *)
(* No alarm is lost, for those that are due are taken off the schedule all *)
(* at once, and nothing else is taken before the last of them is in the    *)
(* inbox; and none goes off twice for one time, for an id names one alarm, *)
(* which has not gone off more often than it counts.                       *)
(*                                                                         *)
(* Patience has an end, for what was tried and the chances that remain,    *)
(* pairs of a file and a try it has left, come to so much for each life of *)
(* the core, and a crash gives back one file's at most.  And a signal is   *)
(* put in the inbox but once, so that only its copies, each for a file     *)
(* that goes next, can make it many.                                       *)
(***************************************************************************)
EXTENDS Post, TLAPS, FiniteSetTheorems

HandIsHeld == hand # NoFile => hand \in cur

\* Which operation a handler is at says what it has in hand.
HandFits ==
    /\ ~up => at = "free" /\ hand = NoFile
    /\ at = "ring" => hand = NoFile
    /\ at \in {"read", "copy", "ack"} => hand # NoFile
    /\ at # "read" /\ hand # NoFile => hand.sig \in Signals

OnlyTheHand == up => \A f \in cur : f.sig \in Signals => f = hand

Covered == at = "ack" => hand.sig \in closed \/ \E g \in new : g.sig = hand.sig

Inv == TypeOK /\ HandIsHeld /\ HandFits /\ OnlyTheHand /\ Covered /\ NeverLost

-----------------------------------------------------------------------------
(* Arithmetic: the moments alarms are set to.                              *)

LEMMA DivNat == ASSUME NEW a \in Nat, NEW b \in Nat, b > 0 PROVE a \div b \in Nat
  BY SMT

LEMMA ProductNat == ASSUME NEW a \in Nat, NEW b \in Nat PROVE a * b \in Nat
  BY SMT

LEMMA WholeDays == ASSUME NEW a \in Nat, NEW b \in Nat, b > 0
                   PROVE  a - (a % b) \in Nat /\ a % b \in Nat
<1>1. a \div b \in Nat
  BY DivNat
<1>2. a = b * (a \div b) + (a % b) /\ a % b \in Nat
  BY SMT
<1>3. b * (a \div b) \in Nat
  BY <1>1, ProductNat
<1> QED  BY <1>2, <1>3

LEMMA NextDailyNat == ASSUME NEW hour \in Nat, NEW after \in Nat PROVE NextDaily(hour, after) \in Nat
  BY WholeDays, ScheduleAssumption DEF NextDaily

LEMMA LaterNat == ASSUME NEW when \in Nat, NEW every \in Nat, NEW now \in Nat, every > 0, when <= now
                  PROVE  Later(when, every, now) \in Nat
<1>1. (now - when) \div every \in Nat
  BY DivNat
<1> QED  BY <1>1, ProductNat DEF Later

\* Whatever is said of when, what is made of it is a moment, or nothing.
LEMMA ParsedMoments == ASSUME NEW w \in Word, NEW now \in Nat PROVE ParseWhen(w, now) \in SUBSET Nat
<1> SUFFICES ASSUME NEW t \in ParseWhen(w, now) PROVE t \in Nat
  OBVIOUS
<1>1. CASE \E d \in ParseDelay(w) : t = now + d
  BY <1>1 DEF ParseDelay, Word
<1>2. CASE \E h \in ParseHour("hour", w) : t = NextDaily(h, now)
  <2>1. PICK h \in ParseHour("hour", w) : t = NextDaily(h, now)
    BY <1>2
  <2>2. h \in Nat
    BY ScheduleAssumption DEF ParseHour
  <2> QED  BY <2>1, <2>2, NextDailyNat
<1>3. CASE t \in {u \in {w.n} : w.form = "stamp" /\ u >= 0}
  BY <1>3 DEF Word
<1> QED  BY <1>1, <1>2, <1>3 DEF ParseWhen

LEMMA ParsedRepeats == ASSUME NEW w \in Word PROVE ParseRepeat(w) \in Repeats
  BY ScheduleAssumption DEF ParseRepeat, ParseHour, ParseDelay, Word, Repeats, Kinds

LEMMA FirstNat == ASSUME NEW now \in Nat, NEW moment \in SUBSET Nat, NEW repeat \in Repeats
                  PROVE  First(now, moment, repeat) \in Nat
<1>1. repeat.of \in Nat
  BY DEF Repeats
<1>2. CASE moment # {}
  <2>1. (CHOOSE t \in moment : TRUE) \in moment
    BY <1>2
  <2>2. First(now, moment, repeat) = CHOOSE t \in moment : TRUE
    BY <1>2 DEF First
  <2> HIDE DEF First
  <2> QED  BY <2>1, <2>2, Zenon
<1>3. CASE moment = {}
  <2>1. First(now, moment, repeat) = IF repeat.kind = "daily" THEN NextDaily(repeat.of, now)
                                     ELSE now + repeat.of
    BY <1>3, Zenon DEF First
  <2>2. NextDaily(repeat.of, now) \in Nat
    BY <1>1, NextDailyNat, Zenon
  <2>3. now + repeat.of \in Nat
    BY <1>1
  <2> QED  BY <2>1, <2>2, <2>3
<1> QED  BY <1>2, <1>3

LEMMA KeptAlarms == ASSUME NEW all \in SUBSET Alarm, NEW now \in Nat PROVE Kept(all, now) \subseteq Alarm
<1> SUFFICES ASSUME NEW a \in Due(all, now), NEW b \in Again(a, now) PROVE b \in Alarm
  BY DEF Kept, Due
<1>1. a \in Alarm /\ a.when <= now
  BY DEF Due
<1>2. a.when \in Nat /\ a.repeat \in Repeats /\ a.repeat.of \in Nat /\ a.fires \in Nat
  BY <1>1 DEF Alarm, Repeats
<1>3. PICK t \in Nat : b = [a EXCEPT !.when = t, !.fires = @ + 1]
  <2>1. CASE a.repeat.kind = "every" /\ a.repeat.of > 0
    BY <1>1, <1>2, <2>1, LaterNat DEF Again
  <2>2. CASE a.repeat.kind = "daily"
    BY <1>2, <2>2, NextDailyNat DEF Again
  <2>3. CASE ~(a.repeat.kind = "every" /\ a.repeat.of > 0) /\ a.repeat.kind # "daily"
    BY <2>3 DEF Again
  <2> QED  BY <2>1, <2>2, <2>3
<1>4. b = [id |-> a.id, when |-> t, repeat |-> a.repeat, fires |-> a.fires + 1]
  BY <1>1, <1>3 DEF Alarm
<1> QED  BY <1>1, <1>2, <1>4 DEF Alarm

-----------------------------------------------------------------------------
(* What putting a file in the inbox does, whoever does it.                 *)

LEMMA PutAddsOne ==
    ASSUME TypeOK, NEW sig \in Signals \union Strays, NEW tries \in Nat, Put(sig, tries)
    PROVE  \E f \in File : /\ f.sig = sig
                           /\ new' = new \union {f}
                           /\ stamp' \in [Signals \union Strays -> Nat] /\ tick' \in Nat
                           /\ \A s \in (Signals \union Strays) \ {sig} : stamp'[s] = stamp[s]
<1>1. PICK n \in 0..MaxCopies : new' = new \union {[sig |-> sig, tries |-> tries, copy |-> n]}
  BY DEF Put
<1>2. [sig |-> sig, tries |-> tries, copy |-> n] \in File
  BY DEF File
<1>3. /\ stamp' \in [Signals \union Strays -> Nat] /\ tick' \in Nat
      /\ \A s \in (Signals \union Strays) \ {sig} : stamp'[s] = stamp[s]
  BY DEF Put, TypeOK
<1> QED  BY <1>1, <1>2, <1>3

LEMMA PeopleAreSignals == People \subseteq Signals
  BY DEF Signals

\* A step that puts a file of its signal in the inbox and touches nothing else there.
LEMMA PutIsSafe ==
    ASSUME Inv, NEW sig \in Signals \union Strays, NEW tries \in Nat, Put(sig, tries),
           UNCHANGED <<cur, bad, closed, tried, clock, restarts, owed, up, hand>>,
           alarms' \subseteq Alarm, ringing' \subseteq Rings,
           at' = at \/ (at = "copy" /\ at' = "ack" /\ sig = hand.sig)
    PROVE  Inv'
<1>1. PICK f \in File : /\ f.sig = sig
                        /\ new' = new \union {f}
                        /\ stamp' \in [Signals \union Strays -> Nat] /\ tick' \in Nat
                        /\ \A s \in (Signals \union Strays) \ {sig} : stamp'[s] = stamp[s]
  BY PutAddsOne DEF Inv
<1>2. TypeOK'
  BY <1>1 DEF Inv, TypeOK, Steps
<1>3. HandIsHeld' /\ HandFits' /\ OnlyTheHand'
  BY DEF Inv, HandIsHeld, HandFits, OnlyTheHand
<1>4. Covered'
  BY <1>1 DEF Inv, Covered
<1>5. NeverLost'
  BY <1>1, PeopleAreSignals DEF Inv, NeverLost, FilesOf
<1> QED  BY <1>2, <1>3, <1>4, <1>5 DEF Inv

LEMMA InvInit == Init => Inv
  BY PostAssumption DEF Init, Inv, TypeOK, HandIsHeld, HandFits, OnlyTheHand, Covered, NeverLost, Steps,
        FilesOf, Signals

-----------------------------------------------------------------------------
LEMMA InvWorld == ASSUME Inv, World PROVE Inv'
<1> USE DEF files, db, time, core
<1>1. CASE Tick
  BY <1>1 DEF Tick, FallsNow, Inv, TypeOK, HandIsHeld, HandFits, OnlyTheHand, Covered, NeverLost, FilesOf
<1>2. ASSUME NEW m \in People, Say(m) PROVE Inv'
  <2>1. m \in Signals \union Strays /\ 0 \in Nat /\ Put(m, 0)
    BY <1>2, PeopleAreSignals DEF Say
  <2>2. UNCHANGED <<cur, bad, closed, tried, clock, restarts, owed, up, hand>> /\ at' = at
    BY <1>2 DEF Say
  <2>3. alarms' \subseteq Alarm /\ ringing' \subseteq Rings
    BY <1>2 DEF Say, Inv, TypeOK
  <2> QED  BY <2>1, <2>2, <2>3, PutIsSafe
<1>3. ASSUME NEW s \in Strays, Drop(s) PROVE Inv'
  <2>1. s \in Signals \union Strays /\ 0 \in Nat /\ Put(s, 0)
    BY <1>3 DEF Drop
  <2>2. UNCHANGED <<cur, bad, closed, tried, clock, restarts, owed, up, hand>> /\ at' = at
    BY <1>3 DEF Drop
  <2>3. alarms' \subseteq Alarm /\ ringing' \subseteq Rings
    BY <1>3 DEF Drop, Inv, TypeOK
  <2> QED  BY <2>1, <2>2, <2>3, PutIsSafe
<1>4. ASSUME NEW id \in AlarmIds, NEW moment \in SUBSET Nat, NEW repeat \in Repeats,
             Add(id, moment, repeat)
      PROVE  Inv'
  <2>1. First(clock, moment, repeat) \in Nat
    BY FirstNat DEF Inv, TypeOK
  <2>2. alarms' \subseteq Alarm
    BY <1>4, <2>1 DEF Add, Alarm, Inv, TypeOK
  <2> QED
    BY <1>4, <2>2 DEF Add, FallsNow, Inv, TypeOK, HandIsHeld, HandFits, OnlyTheHand, Covered, NeverLost, FilesOf
<1>5. ASSUME NEW ids \in Prefixes, Cancel(ids) PROVE Inv'
  BY <1>5 DEF Cancel, Inv, TypeOK, HandIsHeld, HandFits, OnlyTheHand, Covered, NeverLost, FilesOf
<1>6. CASE AlarmAction
  <2>1. ASSUME NEW id \in AlarmIds, NEW when \in Words, NEW every \in Words,
               NEW moment, moment = ParseWhen(when, clock), NEW repeat, repeat = ParseRepeat(every),
               Add(id, moment, repeat)
        PROVE  Inv'
    <3>1. when \in Word /\ every \in Word /\ clock \in Nat
      BY PostAssumption DEF Inv, TypeOK
    <3>2. moment \in SUBSET Nat
      BY <2>1, <3>1, ParsedMoments
    <3>3. repeat \in Repeats
      BY <2>1, <3>1, ParsedRepeats
    <3> QED  BY <1>4, <2>1, <3>2, <3>3
  <2> QED  BY <1>5, <1>6, <2>1 DEF AlarmAction
<1> QED  BY <1>1, <1>2, <1>3, <1>6 DEF World

LEMMA InvHub == ASSUME Inv, Hub PROVE Inv'
<1> USE DEF files, db, time, core, Goes
<1>1. CASE TakeDue
  <2>1. alarms' \subseteq Alarm
    BY <1>1, KeptAlarms DEF TakeDue, Inv, TypeOK
  <2>2. ringing' \subseteq Rings
    <3> SUFFICES ASSUME NEW a \in Due(alarms, clock) PROVE <<a.id, a.fires + 1>> \in Rings
      BY <1>1 DEF TakeDue, Falls
    <3>1. a.id \in AlarmIds /\ a.fires \in Nat /\ a.fires < MaxFires
      BY <1>1 DEF TakeDue, Due, Alarm, Inv, TypeOK
    <3> QED  BY <3>1, PostAssumption DEF Rings
  <2> QED
    BY <1>1, <2>1, <2>2 DEF TakeDue, Inv, TypeOK, HandIsHeld, HandFits, OnlyTheHand, Covered,
       NeverLost, FilesOf, Steps
<1>2. CASE Ring
  <2>1. PICK r \in ringing : Put(r, 0) /\ ringing' = ringing \ {r}
    BY <1>2 DEF Ring
  <2>2. r \in Signals
    BY DEF Inv, TypeOK, Signals
  <2>3. UNCHANGED <<cur, bad, closed, tried, clock, restarts, owed, up, hand>> /\ at' = at
    BY <1>2 DEF Ring
  <2>4. alarms' \subseteq Alarm /\ ringing' \subseteq Rings
    BY <1>2, <2>1 DEF Ring, Inv, TypeOK
  <2> QED  BY <2>1, <2>2, <2>3, <2>4, PutIsSafe
<1>3. CASE Pop
  <2>1. PICK f \in new : new' = new \ {f} /\ cur' = cur \union {f} /\ hand' = f
    BY <1>3 DEF Pop
  <2>2. f \in File /\ f # NoFile
    BY PostAssumption DEF Inv, TypeOK
  <2>3. at = "ring" /\ up /\ at' = "read" /\ UNCHANGED <<bad, alarms, stamp, tick, db, time, up, ringing>>
    BY <1>3 DEF Pop
  <2>4. TypeOK'
    BY <2>1, <2>2, <2>3 DEF Inv, TypeOK, Steps
  <2>5. HandIsHeld' /\ HandFits' /\ Covered'
    BY <2>1, <2>2, <2>3 DEF HandIsHeld, HandFits, Covered
  <2>6. OnlyTheHand'
    <3>1. hand = NoFile /\ \A g \in cur : g # NoFile
      BY <2>3, PostAssumption DEF Inv, TypeOK, HandFits
    <3> QED  BY <3>1, <2>1, <2>3 DEF Inv, OnlyTheHand
  <2>7. NeverLost'
    BY <2>1, <2>3 DEF Inv, NeverLost, FilesOf
  <2> QED  BY <2>4, <2>5, <2>6, <2>7 DEF Inv
<1>4. CASE NothingWaits
  BY <1>4 DEF NothingWaits, Inv, TypeOK, HandIsHeld, HandFits, OnlyTheHand, Covered, NeverLost,
     FilesOf, Steps
<1>5. CASE ReadSignal
  BY <1>5 DEF ReadSignal, Inv, TypeOK, HandIsHeld, HandFits, OnlyTheHand, Covered, NeverLost,
     FilesOf, Steps
<1>6. CASE SkipStray
  <2>1. hand \in cur /\ hand.sig \in Strays /\ hand.sig \notin Signals
    BY <1>6, PostAssumption DEF SkipStray, Inv, HandIsHeld, HandFits, Signals
  <2>2. TypeOK' /\ HandIsHeld' /\ HandFits' /\ OnlyTheHand' /\ Covered'
    BY <1>6, <2>1 DEF SkipStray, Inv, TypeOK, HandIsHeld, HandFits, OnlyTheHand, Covered, Steps
  <2>3. NeverLost'
    BY <1>6, <2>1, PeopleAreSignals DEF SkipStray, Inv, NeverLost, FilesOf
  <2> QED  BY <2>2, <2>3 DEF Inv
<1>7. CASE Close
  BY <1>7 DEF Close, InHand, Inv, TypeOK, HandIsHeld, HandFits, OnlyTheHand, Covered, NeverLost,
     FilesOf, Steps
<1>8. CASE Abandon
  <2>1. hand.sig \in Signals
    BY <1>8 DEF Abandon, InHand, Inv, HandFits
  <2>2. TypeOK'
    BY <1>8, <2>1 DEF Abandon, InHand, Inv, TypeOK, Steps
  <2>3. HandIsHeld' /\ HandFits' /\ OnlyTheHand' /\ Covered' /\ NeverLost'
    BY <1>8, <2>1 DEF Abandon, InHand, Inv, HandIsHeld, HandFits, OnlyTheHand, Covered, NeverLost, FilesOf
  <2> QED  BY <2>2, <2>3 DEF Inv
<1>9. CASE Copy
  <2>1. hand \in File /\ hand.sig \in Signals /\ hand.tries + 1 \in Nat
    BY <1>9 DEF Copy, Inv, TypeOK, HandFits, File
  <2> QED  BY <1>9, <2>1, PutIsSafe DEF Copy, Inv, TypeOK
<1>10. CASE Ack
  <2>1. TypeOK' /\ HandIsHeld' /\ HandFits' /\ OnlyTheHand' /\ Covered'
    BY <1>10 DEF Ack, Inv, TypeOK, HandIsHeld, HandFits, OnlyTheHand, Covered, Steps
  <2>2. NeverLost'
    BY <1>10 DEF Ack, Inv, NeverLost, FilesOf, Covered
  <2> QED  BY <2>1, <2>2 DEF Inv
<1> QED  BY <1>1, <1>2, <1>3, <1>4, <1>5, <1>6, <1>7, <1>8, <1>9, <1>10 DEF Hub

LEMMA InvLifecycle == ASSUME Inv, Lifecycle PROVE Inv'
<1> USE DEF files, db, time, core
<1>1. CASE Crash
  BY <1>1 DEF Crash, Inv, TypeOK, HandIsHeld, HandFits, OnlyTheHand, Covered, NeverLost, FilesOf, Steps
<1>2. CASE GiveBack
  <2>1. TypeOK' /\ HandIsHeld' /\ HandFits' /\ OnlyTheHand' /\ Covered'
    BY <1>2 DEF GiveBack, Inv, TypeOK, HandIsHeld, HandFits, OnlyTheHand, Covered
  <2>2. NeverLost'
    BY <1>2 DEF GiveBack, Inv, NeverLost, FilesOf
  <2> QED  BY <2>1, <2>2 DEF Inv
<1>3. CASE Open
  BY <1>3 DEF Open, Inv, TypeOK, HandIsHeld, HandFits, OnlyTheHand, Covered, NeverLost, FilesOf
<1> QED  BY <1>1, <1>2, <1>3 DEF Lifecycle

LEMMA InvStep == Inv /\ [Next]_vars => Inv'
<1> SUFFICES ASSUME Inv, [Next]_vars PROVE Inv'
  OBVIOUS
<1>1. CASE UNCHANGED vars
  BY <1>1 DEF vars, files, db, time, core, Inv, TypeOK, HandIsHeld, HandFits, OnlyTheHand, Covered,
     NeverLost, FilesOf
<1> QED  BY <1>1, InvWorld, InvHub, InvLifecycle DEF Next

\* The inductive invariant holds of every state the program reaches.
THEOREM InvHolds == Spec => []Inv
  BY InvInit, InvStep, PTL DEF Spec

-----------------------------------------------------------------------------
\* The state keeps its types, the moments of repeating alarms among them.
THEOREM TypeCorrect == Spec => []TypeOK
<1>1. Inv => TypeOK
  BY DEF Inv
<1> QED  BY <1>1, InvHolds, PTL

\* inbox.rs:14: whatever the core is doing when it dies, a message that arrived and whose turn
\* was not closed is in some file of the inbox.
THEOREM NothingIsLost == Spec => []NeverLost
<1>1. Inv => NeverLost
  BY DEF Inv
<1> QED  BY <1>1, InvHolds, PTL

\* Between handlers, cur/ holds what the core has in hand and besides it only what cannot be read.
THEOREM HandIsAll == Spec => []NothingStranded
<1>1. Inv => NothingStranded
  <2> SUFFICES ASSUME Inv, up, at = "free"
               PROVE  {f \in cur : f.sig \in Signals} = {hand} \ {NoFile}
    BY DEF NothingStranded
  <2>1. \A f \in cur : f # NoFile
    BY PostAssumption DEF Inv, TypeOK
  <2> QED  BY <2>1 DEF Inv, HandIsHeld, HandFits, OnlyTheHand
<1> QED  BY <1>1, InvHolds, PTL

-----------------------------------------------------------------------------
(* Alarms: what was taken off the schedule is in the inbox or about to be. *)

\* Only next_duty, between taking alarms off the schedule and putting the last of them in the
\* inbox, has some that are in neither.
RingsOnlyThere == at # "ring" => ringing = {}

\* An id names one alarm.
OneOfAName == \A a \in alarms, b \in alarms : a.id = b.id => a = b

\* What fell due is somewhere: due on the schedule, in next_duty's hands, or with its signal in
\* the inbox.
Somewhere == \A r \in owed : r \in Falls(alarms, clock) \/ r \in ringing \/ stamp[r] > 0

AlarmInv == Inv /\ RingsOnlyThere /\ OneOfAName /\ Somewhere

LEMMA PutStamps ==
    ASSUME TypeOK, NEW sig \in Signals \union Strays, NEW tries \in Nat, Put(sig, tries)
    PROVE  stamp'[sig] > 0 /\ \A s \in (Signals \union Strays) \ {sig} : stamp'[s] = stamp[s]
  BY DEF Put, TypeOK

LEMMA DueIsMonotone ==
    ASSUME NEW all \in SUBSET Alarm, NEW more \in SUBSET Alarm, all \subseteq more,
           NEW now \in Nat, NEW later \in Nat, now <= later
    PROVE  Falls(all, now) \subseteq Falls(more, later)
<1>1. \A a \in Alarm : a.when \in Nat
  BY DEF Alarm
<1>2. Due(all, now) \subseteq Due(more, later)
  BY <1>1 DEF Due
<1> QED  BY <1>2 DEF Falls

\* A step that puts a file in the inbox and leaves the schedule alone.
LEMMA AlarmPut ==
    ASSUME AlarmInv, NEW sig \in Signals \union Strays, NEW tries \in Nat, Put(sig, tries),
           UNCHANGED <<alarms, clock, owed>>, ringing' \in {ringing, ringing \ {sig}},
           at' # at => at' = "ack" /\ at # "ring"
    PROVE  RingsOnlyThere' /\ OneOfAName' /\ Somewhere'
<1>1. stamp'[sig] > 0 /\ \A s \in (Signals \union Strays) \ {sig} : stamp'[s] = stamp[s]
  BY PutStamps DEF AlarmInv, Inv
<1>2. RingsOnlyThere' /\ OneOfAName'
  BY DEF AlarmInv, RingsOnlyThere, OneOfAName
<1>3. Somewhere'
  <2> SUFFICES ASSUME NEW r \in owed PROVE r \in Falls(alarms, clock) \/ r \in ringing' \/ stamp'[r] > 0
    BY DEF Somewhere
  <2>1. r \in Signals
    BY DEF AlarmInv, Inv, TypeOK, Signals
  <2>2. r \in Falls(alarms, clock) \/ r \in ringing \/ stamp[r] > 0
    BY DEF AlarmInv, Somewhere
  <2> QED  BY <1>1, <2>1, <2>2
<1> QED  BY <1>2, <1>3

\* What becomes of an alarm that is due: the same one, to go off at another moment.
LEMMA AgainIs ==
    ASSUME NEW a \in Alarm, NEW now, NEW b \in Again(a, now)
    PROVE  b.id = a.id /\ b.repeat = a.repeat /\ b.fires = a.fires + 1
           /\ \/ a.repeat.kind = "every" /\ a.repeat.of > 0 /\ b.when = Later(a.when, a.repeat.of, now)
              \/ a.repeat.kind = "daily" /\ b.when = NextDaily(a.repeat.of, now)
<1>1. PICK t : /\ b = [a EXCEPT !.when = t, !.fires = @ + 1]
               /\ \/ a.repeat.kind = "every" /\ a.repeat.of > 0 /\ t = Later(a.when, a.repeat.of, now)
                  \/ a.repeat.kind = "daily" /\ t = NextDaily(a.repeat.of, now)
  <2>1. CASE a.repeat.kind = "every" /\ a.repeat.of > 0
    BY <2>1 DEF Again
  <2>2. CASE a.repeat.kind = "daily"
    BY <2>2 DEF Again
  <2>3. CASE ~(a.repeat.kind = "every" /\ a.repeat.of > 0) /\ a.repeat.kind # "daily"
    BY <2>3 DEF Again
  <2> QED  BY <2>1, <2>2, <2>3
<1>2. b.when = t /\ b.id = a.id /\ b.repeat = a.repeat /\ b.fires = a.fires + 1
  BY <1>1 DEF Alarm
<1> QED  BY <1>1, <1>2

LEMMA AgainIsNamed == \A now : \A a \in Alarm : \A b \in Again(a, now) : b.id = a.id /\ b.fires = a.fires + 1
  BY AgainIs

\* An alarm that is left on the schedule, and an id, are each from one that was there.
LEMMA KeptIs ==
    ASSUME NEW all \in SUBSET Alarm, NEW now, NEW b \in Kept(all, now)
    PROVE  \E a \in all : \/ b = a /\ a \notin Due(all, now)
                          \/ a \in Due(all, now) /\ b \in Again(a, now)
<1>1. CASE b \in all \ Due(all, now)
  BY <1>1
<1>2. CASE b \in UNION {Again(a, now) : a \in Due(all, now)}
  <2>1. PICK a \in Due(all, now) : b \in Again(a, now)
    BY <1>2
  <2> QED  BY <2>1 DEF Due
<1> QED  BY <1>1, <1>2 DEF Kept

LEMMA AgainIsOne == ASSUME NEW a, NEW now, NEW b \in Again(a, now), NEW c \in Again(a, now) PROVE b = c
<1>1. CASE a.repeat.kind = "every" /\ a.repeat.of > 0
  BY <1>1 DEF Again
<1>2. CASE a.repeat.kind = "daily" /\ ~(a.repeat.kind = "every" /\ a.repeat.of > 0)
  BY <1>2 DEF Again
<1>3. CASE ~(a.repeat.kind = "every" /\ a.repeat.of > 0) /\ a.repeat.kind # "daily"
  BY <1>3 DEF Again
<1> QED  BY <1>1, <1>2, <1>3

LEMMA AlarmTaken == ASSUME AlarmInv, TakeDue PROVE RingsOnlyThere' /\ OneOfAName' /\ Somewhere'
<1>1. /\ alarms' = Kept(alarms, clock) /\ ringing' = Falls(alarms, clock)
      /\ at = "free" /\ at' = "ring" /\ UNCHANGED <<stamp, owed>>
  BY DEF TakeDue, Goes, time
<1>2. alarms \subseteq Alarm /\ ringing = {}
  BY <1>1 DEF AlarmInv, Inv, TypeOK, RingsOnlyThere
<1>3. OneOfAName'
  <2> SUFFICES ASSUME NEW b \in Kept(alarms, clock), NEW c \in Kept(alarms, clock), b.id = c.id
               PROVE  b = c
    BY <1>1 DEF OneOfAName
  <2>1. PICK a \in alarms : \/ b = a /\ a \notin Due(alarms, clock)
                            \/ a \in Due(alarms, clock) /\ b \in Again(a, clock)
    BY <1>2, KeptIs
  <2>2. PICK d \in alarms : \/ c = d /\ d \notin Due(alarms, clock)
                            \/ d \in Due(alarms, clock) /\ c \in Again(d, clock)
    BY <1>2, KeptIs
  <2>3. b.id = a.id /\ c.id = d.id
    <3>1. a \in Alarm /\ d \in Alarm
      BY <1>2
    <3>2. b \in Again(a, clock) => b.id = a.id
      BY <3>1, AgainIsNamed, Zenon
    <3>3. c \in Again(d, clock) => c.id = d.id
      BY <3>1, AgainIsNamed, Zenon
    <3> QED  BY <2>1, <2>2, <3>2, <3>3
  <2>4. a = d
    BY <2>3 DEF AlarmInv, OneOfAName
  <2> QED  BY <2>1, <2>2, <2>4, AgainIsOne
<1>4. Somewhere'
  BY <1>1, <1>2 DEF AlarmInv, Somewhere
<1>5. RingsOnlyThere'
  BY <1>1 DEF RingsOnlyThere
<1> QED  BY <1>3, <1>4, <1>5

LEMMA AlarmStep == ASSUME AlarmInv, [Next]_vars PROVE AlarmInv'
<1> USE DEF files, db, time, core, Goes
<1>1. Inv'
  BY InvStep DEF AlarmInv
<1> SUFFICES RingsOnlyThere' /\ OneOfAName' /\ Somewhere'
  BY <1>1 DEF AlarmInv
<1>a. Inv /\ RingsOnlyThere /\ OneOfAName /\ Somewhere
  BY DEF AlarmInv
<1>2. CASE \E m \in People : Say(m)
  <2>1. PICK m \in People : Say(m)
    BY <1>2
  <2>2. m \in Signals \union Strays /\ 0 \in Nat /\ Put(m, 0) /\ UNCHANGED <<alarms, clock, owed, at, ringing>>
    BY <2>1, PeopleAreSignals DEF Say
  <2> QED  BY <2>2, AlarmPut
<1>3. CASE \E s \in Strays : Drop(s)
  <2>1. PICK s \in Strays : Drop(s)
    BY <1>3
  <2>2. 0 \in Nat /\ Put(s, 0) /\ UNCHANGED <<alarms, clock, owed, at, ringing>>
    BY <2>1 DEF Drop
  <2> QED  BY <2>2, AlarmPut
<1>4. CASE AlarmAction
  <2>1. ASSUME NEW id, NEW moment, NEW repeat, Add(id, moment, repeat)
        PROVE  RingsOnlyThere' /\ OneOfAName' /\ Somewhere'
    <3> DEFINE b == [id |-> id, when |-> First(clock, moment, repeat), repeat |-> repeat, fires |-> 0]
    <3>1. /\ alarms' = alarms \union {b} /\ UNCHANGED <<clock, stamp, at, ringing>>
          /\ \A a \in alarms : a.id # id
          /\ owed' = owed \union FallsNow(alarms', clock)
      BY <2>1 DEF Add
    <3>2. b.id = id /\ b.fires = 0
      OBVIOUS
    <3> HIDE DEF b
    <3>3. OneOfAName'
      BY <1>a, <3>1, <3>2 DEF OneOfAName
    <3>4. Somewhere'
      <4>1. Due(alarms, clock) \subseteq Due(alarms', clock)
        BY <3>1 DEF Due
      <4>2. Falls(alarms, clock) \subseteq Falls(alarms', clock)
        BY <4>1 DEF Falls
      <4> QED  BY <1>a, <3>1, <4>2 DEF Somewhere, FallsNow
    <3> QED  BY <1>a, <3>1, <3>3, <3>4 DEF RingsOnlyThere
  <2>2. ASSUME NEW ids, Cancel(ids) PROVE RingsOnlyThere' /\ OneOfAName' /\ Somewhere'
    <3>1. /\ alarms' = {a \in alarms : a.id \notin ids} /\ UNCHANGED <<clock, stamp, at, ringing>>
          /\ owed' = owed \ {<<a.id, a.fires + 1>> : a \in alarms \ alarms'}
      BY <2>2 DEF Cancel
    <3>2. ASSUME NEW r \in owed', r \in Falls(alarms, clock) PROVE r \in Falls(alarms', clock)
      <4>1. PICK a \in Due(alarms, clock) : r = <<a.id, a.fires + 1>>
        BY <3>2 DEF Falls
      <4>2. a \in alarms' /\ a.when <= clock
        BY <3>1, <4>1 DEF Due
      <4> QED  BY <3>1, <4>1, <4>2 DEF Falls, Due
    <3>3. Somewhere'
      BY <1>a, <3>1, <3>2 DEF Somewhere
    <3> QED  BY <1>a, <3>1, <3>3 DEF RingsOnlyThere, OneOfAName
  <2> QED  BY <1>4, <2>1, <2>2 DEF AlarmAction
<1>5. CASE TakeDue
  BY <1>5, AlarmTaken
<1>6. CASE Ring
  <2>1. PICK r \in ringing : Put(r, 0) /\ ringing' = ringing \ {r}
    BY <1>6 DEF Ring
  <2>2. r \in Signals \union Strays /\ 0 \in Nat /\ UNCHANGED <<alarms, clock, owed, at>>
    BY <1>6, <1>a DEF Ring, Inv, TypeOK, Signals
  <2> QED  BY <2>1, <2>2, AlarmPut
<1>7. CASE Copy
  <2>1. hand \in File /\ hand.sig \in Signals /\ hand.tries + 1 \in Nat
    BY <1>7, <1>a DEF Copy, Inv, TypeOK, HandFits, File
  <2>2. Put(hand.sig, hand.tries + 1) /\ UNCHANGED <<alarms, clock, owed, ringing>> /\ at = "copy" /\ at' = "ack"
    BY <1>7 DEF Copy
  <2> QED  BY <2>1, <2>2, AlarmPut
<1>8. CASE Pop \/ NothingWaits \/ ReadSignal \/ SkipStray \/ Close \/ Abandon \/ Ack
  <2>1. UNCHANGED <<stamp, alarms, clock, owed, ringing>> /\ (ringing = {} \/ (at # "ring" /\ at' # "ring"))
    BY <1>8, <1>a DEF Pop, NothingWaits, ReadSignal, SkipStray, Close, Abandon, Ack, InHand, RingsOnlyThere
  <2> QED  BY <1>a, <2>1 DEF RingsOnlyThere, OneOfAName, Somewhere
<1>9. CASE Crash
  BY <1>a, <1>9 DEF Crash, RingsOnlyThere, OneOfAName, Somewhere
<1>10. CASE Tick
  <2>1. /\ clock' = clock + 1 /\ owed' = owed \union FallsNow(alarms, clock')
        /\ UNCHANGED <<alarms, stamp, at, ringing>>
    BY <1>10 DEF Tick
  <2>2. Falls(alarms, clock) \subseteq Falls(alarms, clock')
    <3>1. alarms \in SUBSET Alarm /\ clock \in Nat /\ clock' \in Nat /\ clock <= clock'
      BY <1>a, <2>1 DEF Inv, TypeOK
    <3> QED  BY <3>1, DueIsMonotone
  <2>3. Somewhere'
    BY <1>a, <2>1, <2>2 DEF Somewhere, FallsNow
  <2> QED  BY <1>a, <2>1, <2>3 DEF RingsOnlyThere, OneOfAName
<1>11. CASE GiveBack \/ Open \/ UNCHANGED vars
  BY <1>a, <1>11 DEF GiveBack, Open, vars, RingsOnlyThere, OneOfAName, Somewhere
<1> QED  BY <1>2, <1>3, <1>4, <1>5, <1>6, <1>7, <1>8, <1>9, <1>10, <1>11 DEF Next, World, Hub, Lifecycle

LEMMA AlarmInit == Init => AlarmInv
  BY InvInit DEF Init, AlarmInv, RingsOnlyThere, OneOfAName, Somewhere

-----------------------------------------------------------------------------
(* A backlog is skipped: where the next time of an alarm falls.            *)

LEMMA Remainder ==
    ASSUME NEW b \in Nat, b > 0, NEW q \in Nat, NEW r \in Nat, r < b
    PROVE  (b * q + r) % b = r
<1> DEFINE x == b * q + r
           d == x \div b
           m == x % b
<1>1. x \in Nat
  BY ProductNat
<1>2. d \in Nat /\ m \in Nat /\ m < b /\ x = b * d + m
  <2> HIDE DEF x
  <2>1. d \in Nat
    BY <1>1, DivNat
  <2> QED  BY <1>1, <2>1, SMT
<1> HIDE DEF d, m
<1>3. b * (q - d) = m - r /\ q - d \in Int
  BY <1>2, SMT
<1>4. ASSUME NEW e \in Int, b * e = m - r PROVE e = 0
  <2>1. CASE e >= 1
    <3>1. b * e >= b
      BY <2>1, SMT
    <3> QED  BY <1>2, <1>4, <3>1, SMT
  <2>2. CASE e <= -1
    <3>1. b * e <= -b
      BY <2>2, SMT
    <3> QED  BY <1>2, <1>4, <3>1, SMT
  <2> QED  BY <2>1, <2>2, SMT
<1>5. q = d
  BY <1>2, <1>3, <1>4, SMT
<1>6. m = r
  BY <1>2, <1>5, SMT
<1> QED  BY <1>6 DEF m

LEMMA LaterIsNext ==
    ASSUME NEW when \in Nat, NEW every \in Nat, NEW now \in Nat, every > 0, when <= now
    PROVE  Later(when, every, now) > now /\ (Later(when, every, now) - when) % every = 0
<1> DEFINE q == (now - when) \div every
           r == (now - when) % every
<1>1. q \in Nat /\ r \in Nat /\ r < every /\ now - when = every * q + r
  <2> DEFINE x == now - when
  <2>1. x \in Nat
    OBVIOUS
  <2> HIDE DEF x
  <2>2. x \div every \in Nat
    BY <2>1, DivNat
  <2>3. x % every \in Nat /\ x % every < every /\ x = every * (x \div every) + (x % every)
    BY <2>1, <2>2, SMT
  <2> QED  BY <2>2, <2>3 DEF x
<1>2. Later(when, every, now) = when + every * (1 + q)
  BY DEF Later
<1> HIDE DEF q, r
<1>3. every * (1 + q) = every * q + every /\ every * q \in Nat
  BY <1>1, ProductNat, SMT
<1>4. Later(when, every, now) > now
  BY <1>1, <1>2, <1>3, SMT
<1>5. Later(when, every, now) - when = every * (1 + q) + 0
  BY <1>1, <1>2, <1>3, SMT
<1>6. 1 + q \in Nat /\ 0 \in Nat /\ 0 < every
  BY <1>1
<1> QED  BY <1>4, <1>5, <1>6, Remainder

LEMMA NextDailyIsNext ==
    ASSUME NEW hour \in Nat, hour < Day, NEW after \in Nat
    PROVE  NextDaily(hour, after) > after /\ NextDaily(hour, after) % Day = hour
<1> DEFINE q == after \div Day
           r == after % Day
<1>1. Day \in Nat /\ Day > 0
  BY ScheduleAssumption
<1>2. q \in Nat /\ r \in Nat /\ r < Day /\ after = Day * q + r
  <2>1. q \in Nat
    BY <1>1, DivNat
  <2> QED  BY <1>1, <2>1, SMT
<1>3. NextDaily(hour, after) = IF after - r + hour <= after THEN after - r + hour + Day ELSE after - r + hour
  BY DEF NextDaily
<1> HIDE DEF q, r
<1>4. Day * (q + 1) = Day * q + Day /\ Day * q \in Nat /\ q + 1 \in Nat
  BY <1>1, <1>2, ProductNat, SMT
<1>5. NextDaily(hour, after) \in {Day * q + hour, Day * (q + 1) + hour} /\ NextDaily(hour, after) > after
  BY <1>1, <1>2, <1>3, <1>4, SMT
<1>6. (Day * q + hour) % Day = hour /\ (Day * (q + 1) + hour) % Day = hour
  BY <1>1, <1>2, <1>4, Remainder
<1> QED  BY <1>5, <1>6

\* What is set to go off at a time of day names one there is.
HoursExist == \A a \in alarms : a.repeat.kind = "daily" => a.repeat.of < Day

LEMMA ParsedHours == ASSUME NEW w \in Word PROVE ParseRepeat(w).kind = "daily" => ParseRepeat(w).of < Day
  BY ScheduleAssumption DEF ParseRepeat, ParseHour, ParseDelay, Word

LEMMA HoursStep == ASSUME Inv, HoursExist, [Next]_vars PROVE HoursExist'
<1> USE DEF files, db, time, core, HoursExist
<1>1. CASE UNCHANGED alarms
  BY <1>1
<1>2. CASE AlarmAction
  <2>1. ASSUME NEW id, NEW moment, NEW every \in Words, NEW repeat, repeat = ParseRepeat(every),
               Add(id, moment, repeat)
        PROVE  HoursExist'
    <3>1. PICK b : /\ b.repeat = ParseRepeat(every) /\ alarms' = alarms \union {b}
      BY <2>1 DEF Add
    <3>2. every \in Word
      BY PostAssumption
    <3>3. b.repeat.kind = "daily" => b.repeat.of < Day
      BY <3>1, <3>2, ParsedHours
    <3> QED  BY <3>1, <3>3
  <2> QED  BY <1>2, <2>1 DEF AlarmAction, Cancel
<1>3. CASE TakeDue
  <2>1. alarms' = Kept(alarms, clock) /\ alarms \subseteq Alarm
    BY <1>3 DEF TakeDue, Inv, TypeOK
  <2> SUFFICES ASSUME NEW b \in Kept(alarms, clock), b.repeat.kind = "daily" PROVE b.repeat.of < Day
    BY <2>1
  <2>2. PICK a \in alarms : \/ b = a /\ a \notin Due(alarms, clock)
                            \/ a \in Due(alarms, clock) /\ b \in Again(a, clock)
    BY <2>1, KeptIs
  <2>3. a \in Alarm
    BY <2>1
  <2>4. b \in Again(a, clock) => b.repeat = a.repeat
    BY <2>3, AgainIs
  <2> QED  BY <2>2, <2>4
<1>4. AlarmAction \/ TakeDue \/ UNCHANGED alarms
  BY DEF Next, World, Hub, Lifecycle, vars, Tick, Say, Drop, Ring, Pop, NothingWaits, ReadSignal, SkipStray,
     Close, Abandon, Copy, Ack, Crash, GiveBack, Open
<1> QED  BY <1>1, <1>2, <1>3, <1>4

LEMMA SkipStep ==
    ASSUME AlarmInv, HoursExist, Next, NEW a \in alarms, NEW b \in alarms', a.id = b.id, b.fires > a.fires
    PROVE  /\ b.when > clock
           /\ a.repeat.kind = "every" => (b.when - a.when) % a.repeat.of = 0
           /\ a.repeat.kind = "daily" => b.when % Day = a.repeat.of
<1> USE DEF files, db, time, core
<1>1. alarms \subseteq Alarm /\ clock \in Nat
  BY DEF AlarmInv, Inv, TypeOK
<1>2. ASSUME b \in alarms PROVE FALSE
  <2>1. a = b
    BY <1>2 DEF AlarmInv, OneOfAName
  <2>2. a.fires \in Nat
    BY <1>1 DEF Alarm
  <2> QED  BY <2>1, <2>2
<1>3. ~AlarmAction
  <2>1. ASSUME NEW id, NEW moment, NEW repeat, Add(id, moment, repeat) PROVE FALSE
    <3>1. PICK c : c.id = id /\ alarms' = alarms \union {c} /\ \A d \in alarms : d.id # id
      BY <2>1 DEF Add
    <3> QED  BY <1>2, <3>1
  <2>2. ASSUME NEW ids, Cancel(ids) PROVE FALSE
    BY <1>2, <2>2 DEF Cancel
  <2> QED  BY <2>1, <2>2 DEF AlarmAction
<1>4. TakeDue
  BY <1>2, <1>3 DEF Next, World, Hub, Lifecycle, Tick, Say, Drop, Ring, Pop, NothingWaits, ReadSignal, SkipStray,
     Close, Abandon, Copy, Ack, Crash, GiveBack, Open
<1>5. PICK c \in alarms : c \in Due(alarms, clock) /\ b \in Again(c, clock)
  <2>1. b \in Kept(alarms, clock)
    BY <1>4 DEF TakeDue
  <2>2. PICK c \in alarms : \/ b = c /\ c \notin Due(alarms, clock)
                            \/ c \in Due(alarms, clock) /\ b \in Again(c, clock)
    BY <1>1, <2>1, KeptIs
  <2> QED  BY <1>2, <2>2
<1>6. c = a
  <2>1. b.id = c.id
    BY <1>1, <1>5, AgainIsNamed, Zenon
  <2> QED  BY <2>1 DEF AlarmInv, OneOfAName
<1>7. a \in Alarm /\ a.when <= clock /\ a.when \in Nat /\ a.repeat.of \in Nat
  BY <1>1, <1>5, <1>6 DEF Due, Alarm, Repeats
<1>8. \/ a.repeat.kind = "every" /\ a.repeat.of > 0 /\ b.when = Later(a.when, a.repeat.of, clock)
      \/ a.repeat.kind = "daily" /\ b.when = NextDaily(a.repeat.of, clock)
  BY <1>5, <1>6, <1>7, AgainIs
<1>9. CASE a.repeat.kind = "every"
  BY <1>1, <1>7, <1>8, <1>9, LaterIsNext
<1>10. CASE a.repeat.kind = "daily"
  <2>1. a.repeat.of < Day
    BY <1>10 DEF HoursExist
  <2> QED  BY <1>1, <1>7, <1>8, <1>10, <2>1, NextDailyIsNext
<1> QED  BY <1>8, <1>9, <1>10

\* schedule.rs:119: an alarm that slept through its time is set to a moment that is still to
\* come, in the phase or at the hour it has always had.
THEOREM NothingRingsTwice == Spec => BacklogIsSkipped
<1>1. AlarmInv /\ HoursExist /\ [Next]_vars =>
        [\A a \in alarms, b \in alarms' :
            a.id = b.id /\ b.fires > a.fires =>
                /\ b.when > clock
                /\ a.repeat.kind = "every" => (b.when - a.when) % a.repeat.of = 0
                /\ a.repeat.kind = "daily" => b.when % Day = a.repeat.of]_vars
  BY SkipStep
<1>2. Init => HoursExist
  BY DEF Init, HoursExist
<1>3. AlarmInv /\ HoursExist /\ [Next]_vars => HoursExist'
  BY HoursStep DEF AlarmInv
<1> QED  BY <1>1, <1>2, <1>3, AlarmInit, AlarmStep, PTL DEF Spec, BacklogIsSkipped

-----------------------------------------------------------------------------
(* Patience: how often a message that kills every process is tried.        *)

\* The tries a file stands for: as many as its count leaves, less those of the file in hand
\* that were spent already, one on a turn that failed and all on one that is closed or copied.
Left(f) == IF f = hand /\ at = "ack" THEN {}
           ELSE IF f = hand /\ at = "copy" THEN (f.tries + 1)..(MaxAttempts - 1)
           ELSE f.tries..(MaxAttempts - 1)

\* A message's tries to come, one by one: a file, and which try of it.
Chances(m) == {c \in FilesOf(m) \X (0..(MaxAttempts - 1)) : c[2] \in Left(c[1])}

Deaths == IF up THEN restarts ELSE restarts + 1

\* A message: one that did not arrive is in no file, none of its files has failed too often,
\* and what was spent and what is left are no more than one life of the core gives; each death
\* at most gives the file in hand its tries back.
HasItsTries(m) ==
    /\ stamp[m] = 0 => tried[m] = 0 /\ FilesOf(m) = {}
    /\ \A f \in FilesOf(m) : f.tries < MaxAttempts
    /\ IsFiniteSet(Chances(m)) /\ tried[m] + Cardinality(Chances(m)) <= MaxAttempts * (1 + Deaths)

\* A file is in one place; and a copy is only owed to a message that may be tried again.
Apart == new \intersect cur = {}
CopyIsOwed == at = "copy" => hand.sig \in People /\ hand.tries + 1 < MaxAttempts

PatienceInv == Inv /\ Apart /\ CopyIsOwed /\ \A m \in People : HasItsTries(m)

\* What a number of lives comes to.
LEMMA LivesAdd ==
    ASSUME NEW a \in Nat, NEW x \in Nat, NEW y \in Nat, x <= y
    PROVE  /\ a * (1 + x) \in Nat /\ a * (1 + y) \in Nat /\ a * (1 + x) <= a * (1 + y)
           /\ a * (1 + (x + 1)) = a * (1 + x) + a
<1>1. a * (1 + y) = a * (1 + x) + a * (y - x)
  BY SMT
<1>2. y - x \in Nat /\ 1 + x \in Nat
  OBVIOUS
<1>3. a * (y - x) \in Nat /\ a * (1 + x) \in Nat
  BY <1>2, ProductNat
<1>4. a * (1 + (x + 1)) = a * (1 + x) + a
  BY SMT
<1> QED  BY <1>1, <1>3, <1>4

LEMMA LivesNat ==
    ASSUME NEW a \in Nat, NEW x \in Nat PROVE a * (1 + x) \in Nat /\ a <= a * (1 + x)
<1>1. a * (1 + x) = a + a * x
  BY SMT
<1> QED  BY <1>1, ProductNat

\* A message whose files are the same and stand for no more tries than they did.
LEMMA SameBudget ==
    ASSUME PatienceInv, TypeOK', NEW m \in People, Chances(m)' \subseteq Chances(m),
           tried'[m] = tried[m], Deaths' >= Deaths
    PROVE  IsFiniteSet(Chances(m)') /\ tried'[m] + Cardinality(Chances(m)') <= MaxAttempts * (1 + Deaths')
<1>1. /\ IsFiniteSet(Chances(m)) /\ tried[m] + Cardinality(Chances(m)) <= MaxAttempts * (1 + Deaths)
  BY DEF PatienceInv, HasItsTries
<1>2. /\ IsFiniteSet(Chances(m)') /\ Cardinality(Chances(m)') <= Cardinality(Chances(m))
  BY <1>1, FS_Subset
<1>3. Cardinality(Chances(m)) \in Nat /\ Cardinality(Chances(m)') \in Nat
  BY <1>1, <1>2, FS_CardinalityType
<1>4. tried[m] \in Nat /\ Deaths \in Nat /\ Deaths' \in Nat /\ MaxAttempts \in Nat
  <2>1. restarts \in Nat /\ restarts' \in Nat /\ MaxAttempts \in Nat
    BY PostAssumption DEF PatienceInv, Inv, TypeOK
  <2>2. m \in Signals /\ tried \in [Signals -> Nat]
    BY PeopleAreSignals DEF PatienceInv, Inv, TypeOK
  <2>3. Deaths \in Nat
    BY <2>1 DEF Deaths
  <2>4. Deaths' \in Nat
    <3>1. Deaths' = IF up' THEN restarts' ELSE restarts' + 1
      BY DEF Deaths
    <3>2. up' => Deaths' = restarts'
      BY <3>1, Zenon
    <3>3. ~up' => Deaths' = restarts' + 1
      BY <3>1, Zenon
    <3> QED  BY <2>1, <3>2, <3>3
  <2>5. tried[m] \in Nat
    BY <2>2, Zenon
  <2> QED  BY <2>1, <2>3, <2>4, <2>5
<1>5. /\ MaxAttempts * (1 + Deaths) \in Nat /\ MaxAttempts * (1 + Deaths') \in Nat
      /\ MaxAttempts * (1 + Deaths) <= MaxAttempts * (1 + Deaths')
  <2> HIDE DEF Deaths
  <2> QED  BY <1>4, LivesAdd
<1> HIDE DEF Chances, Deaths
<1> QED  BY <1>1, <1>2, <1>3, <1>4, <1>5

LEMMA DeathsNat == ASSUME TypeOK PROVE Deaths \in Nat
<1>1. restarts \in Nat
  BY DEF TypeOK
<1>2. up => Deaths = restarts
  BY Zenon DEF Deaths
<1>3. ~up => Deaths = restarts + 1
  BY Zenon DEF Deaths
<1> QED  BY <1>1, <1>2, <1>3

LEMMA TriedNat == ASSUME TypeOK, NEW m \in People PROVE tried[m] \in Nat
  BY PeopleAreSignals DEF TypeOK

\* Which is so when no file was given to it and none of its files was given tries back.
LEMMA LeftAlone ==
    ASSUME PatienceInv, TypeOK', NEW m \in People, FilesOf(m)' \subseteq FilesOf(m),
           \A f \in FilesOf(m)' : Left(f)' \subseteq Left(f),
           tried'[m] = tried[m], stamp'[m] = stamp[m], Deaths' >= Deaths
    PROVE  HasItsTries(m)'
<1>1. Chances(m)' \subseteq Chances(m)
  BY DEF Chances
<1>2. IsFiniteSet(Chances(m)') /\ tried'[m] + Cardinality(Chances(m)') <= MaxAttempts * (1 + Deaths')
  BY <1>1, SameBudget
<1>3. /\ stamp[m] = 0 => tried[m] = 0 /\ FilesOf(m) = {}
      /\ \A f \in FilesOf(m) : f.tries < MaxAttempts
  BY DEF PatienceInv, HasItsTries
<1> HIDE DEF Chances, Left, FilesOf, Deaths
<1> QED  BY <1>2, <1>3 DEF HasItsTries

\* The tries of one file: no more than there are.
LEMMA OneFile ==
    ASSUME NEW f
    PROVE  LET all == {f} \X (0..(MaxAttempts - 1)) IN IsFiniteSet(all) /\ Cardinality(all) = MaxAttempts
<1>1. MaxAttempts \in Nat /\ MaxAttempts > 0
  BY PostAssumption
<1>2. IsFiniteSet(0..(MaxAttempts - 1)) /\ Cardinality(0..(MaxAttempts - 1)) = MaxAttempts
  <2>1. 0 \in Int /\ MaxAttempts - 1 \in Int
    BY <1>1
  <2>2. IsFiniteSet(0..(MaxAttempts - 1)) /\ Cardinality(0..(MaxAttempts - 1)) =
            IF 0 > MaxAttempts - 1 THEN 0 ELSE (MaxAttempts - 1) - 0 + 1
    BY <2>1, FS_Interval
  <2> QED  BY <1>1, <2>2
<1>3. IsFiniteSet({f}) /\ Cardinality({f}) = 1
  BY FS_Singleton
<1>4. /\ IsFiniteSet({f} \X (0..(MaxAttempts - 1)))
      /\ Cardinality({f} \X (0..(MaxAttempts - 1))) = Cardinality({f}) * Cardinality(0..(MaxAttempts - 1))
  BY <1>2, <1>3, FS_Product
<1> QED  BY <1>1, <1>2, <1>3, <1>4

LEMMA BothAtMost ==
    ASSUME NEW S, NEW T, NEW U, IsFiniteSet(S), IsFiniteSet(T), U \subseteq S \union T
    PROVE  /\ IsFiniteSet(U) /\ {Cardinality(S), Cardinality(T), Cardinality(U)} \subseteq Nat
           /\ Cardinality(U) <= Cardinality(S) + Cardinality(T)
<1>1. /\ IsFiniteSet(S \union T) /\ IsFiniteSet(S \intersect T)
      /\ Cardinality(S \union T) = Cardinality(S) + Cardinality(T) - Cardinality(S \intersect T)
  BY FS_Union, FS_Subset
<1>2. IsFiniteSet(U) /\ Cardinality(U) <= Cardinality(S \union T)
  BY <1>1, FS_Subset
<1>3. {Cardinality(S), Cardinality(T), Cardinality(U), Cardinality(S \intersect T), Cardinality(S \union T)} \subseteq Nat
  BY <1>1, <1>2, FS_CardinalityType
<1> QED  BY <1>1, <1>2, <1>3

\* The file that is put in the inbox is not there under that name.
LEMMA PutIsNew ==
    ASSUME TypeOK, NEW sig \in Signals \union Strays, NEW tries \in Nat, Put(sig, tries)
    PROVE  \E f \in File : /\ f.sig = sig /\ f.tries = tries
                           /\ f \notin new \union cur /\ new' = new \union {f}
<1>1. PICK n \in 0..MaxCopies : /\ Unused(n, sig)
                                /\ new' = new \union {[sig |-> sig, tries |-> tries, copy |-> n]}
  BY DEF Put
<1> DEFINE f == [sig |-> sig, tries |-> tries, copy |-> n]
<1>2. f \in File /\ f.sig = sig /\ f.tries = tries /\ f.copy = n
  BY DEF File
<1>3. f \notin new \union cur
  BY <1>1, <1>2 DEF Unused
<1> QED  BY <1>1, <1>2, <1>3

\* A message arrives with all its tries.
LEMMA Arrives == ASSUME PatienceInv, TypeOK', NEW m \in People, Say(m) PROVE HasItsTries(m)'
<1>1. m \in Signals \union Strays /\ 0 \in Nat /\ Put(m, 0) /\ stamp[m] = 0 /\ TypeOK
  BY PeopleAreSignals DEF Say, PatienceInv, Inv
<1>2. PICK f \in File : /\ f.sig = m /\ f.tries = 0
                        /\ f \notin new \union cur /\ new' = new \union {f}
  BY <1>1, PutIsNew
<1>3. tried[m] = 0 /\ FilesOf(m) = {}
  BY <1>1 DEF PatienceInv, HasItsTries
<1>4. UNCHANGED <<cur, tried, hand, at, up, restarts>> /\ stamp'[m] > 0
  BY <1>1, PutStamps DEF Say, db, time, core
<1>5. FilesOf(m)' = {f}
  BY <1>2, <1>3, <1>4 DEF FilesOf
<1> DEFINE all == {f} \X (0..(MaxAttempts - 1))
<1>6. Chances(m)' \subseteq all
  BY <1>5 DEF Chances
<1>7. IsFiniteSet(all) /\ Cardinality(all) = MaxAttempts
  BY OneFile
<1>8. IsFiniteSet(Chances(m)') /\ Cardinality(Chances(m)') <= MaxAttempts
  BY <1>6, <1>7, FS_Subset
<1>9. Cardinality(Chances(m)') \in Nat
  BY <1>8, FS_CardinalityType
<1>10. MaxAttempts <= MaxAttempts * (1 + Deaths')
  <2>1. Deaths' \in Nat /\ MaxAttempts \in Nat
    <3>1. Deaths' = Deaths
      BY <1>4 DEF Deaths
    <3> QED  BY <1>1, <3>1, DeathsNat, PostAssumption
  <2> HIDE DEF Deaths
  <2> QED  BY <2>1, LivesNat
<1>11. tried'[m] = 0
  BY <1>3, <1>4
<1>12. \A g \in FilesOf(m)' : g.tries < MaxAttempts
  BY <1>2, <1>5, PostAssumption
<1>13. tried'[m] + Cardinality(Chances(m)') <= MaxAttempts * (1 + Deaths')
  <2>1. MaxAttempts \in Nat /\ MaxAttempts * (1 + Deaths') \in Nat
    <3>1. Deaths' = Deaths
      BY <1>4 DEF Deaths
    <3>2. Deaths' \in Nat
      BY <1>1, <3>1, DeathsNat
    <3> HIDE DEF Deaths
    <3> QED  BY <3>2, PostAssumption, LivesNat
  <2> HIDE DEF Chances, Deaths
  <2> QED  BY <1>8, <1>9, <1>10, <1>11, <2>1
<1> HIDE DEF Chances, Deaths, FilesOf
<1> QED  BY <1>4, <1>8, <1>12, <1>13 DEF HasItsTries

\* A turn that failed was one of its message's tries.
LEMMA Spent ==
    ASSUME PatienceInv, TypeOK', Abandon, NEW m \in People, m = hand.sig PROVE HasItsTries(m)'
<1> DEFINE spent == <<hand, hand.tries>>
<1>1. /\ hand \in cur /\ at = "free" /\ hand \in File /\ TypeOK
      /\ UNCHANGED <<new, cur, stamp, hand, up, restarts>> /\ at' \in {"copy", "ack"}
      /\ tried' = [tried EXCEPT ![m] = @ + 1]
  BY DEF Abandon, InHand, Goes, PatienceInv, Inv, HandIsHeld, TypeOK, files, time
<1>2. HasItsTries(m)
  BY DEF PatienceInv
<1>3. hand \in FilesOf(m) /\ FilesOf(m)' = FilesOf(m)
  BY <1>1 DEF FilesOf
<1>4. hand.tries \in 0..(MaxAttempts - 1)
  BY <1>1, <1>2, <1>3, PostAssumption DEF HasItsTries, File
<1>5. spent \in Chances(m)
  BY <1>1, <1>3, <1>4 DEF Chances, Left
<1>6. Chances(m)' \subseteq Chances(m) \ {spent}
  <2> SUFFICES ASSUME NEW c \in Chances(m)' PROVE c \in Chances(m) /\ c # spent
    OBVIOUS
  <2>1. c \in FilesOf(m) \X (0..(MaxAttempts - 1)) /\ c[2] \in Left(c[1])'
    BY <1>3 DEF Chances
  <2>2. CASE c[1] # hand
    <3>1. Left(c[1])' = Left(c[1])
      BY <1>1, <2>2 DEF Left
    <3> QED  BY <2>1, <2>2, <3>1 DEF Chances
  <2>3. CASE c[1] = hand
    <3>1. c[2] \in (hand.tries + 1)..(MaxAttempts - 1)
      BY <1>1, <2>1, <2>3 DEF Left
    <3>2. Left(hand) = hand.tries..(MaxAttempts - 1)
      BY <1>1 DEF Left
    <3> QED  BY <1>4, <2>1, <2>3, <3>1, <3>2, PostAssumption DEF Chances
  <2> QED  BY <2>2, <2>3
<1>7. /\ IsFiniteSet(Chances(m)) /\ Cardinality(Chances(m)) \in Nat
      /\ tried[m] + Cardinality(Chances(m)) <= MaxAttempts * (1 + Deaths)
  BY <1>2, FS_CardinalityType DEF HasItsTries
<1>8. IsFiniteSet(Chances(m) \ {spent}) /\ Cardinality(Chances(m) \ {spent}) = Cardinality(Chances(m)) - 1
  BY <1>5, <1>7, FS_RemoveElement
<1>9. /\ IsFiniteSet(Chances(m)') /\ Cardinality(Chances(m)') <= Cardinality(Chances(m) \ {spent})
      /\ Cardinality(Chances(m)') \in Nat
  BY <1>6, <1>8, FS_Subset, FS_CardinalityType
<1>10. tried'[m] = tried[m] + 1 /\ tried[m] \in Nat
  BY <1>1, TriedNat, PeopleAreSignals DEF TypeOK
<1>11. Deaths' = Deaths /\ Deaths \in Nat
  BY <1>1, DeathsNat DEF Deaths
<1>12. MaxAttempts * (1 + Deaths) \in Nat
  <2> HIDE DEF Deaths
  <2> QED  BY <1>11, PostAssumption, LivesNat
<1>13. tried'[m] + Cardinality(Chances(m)') <= MaxAttempts * (1 + Deaths')
  <2> HIDE DEF Chances, Deaths, spent
  <2> QED  BY <1>7, <1>8, <1>9, <1>10, <1>11, <1>12
<1>14. /\ stamp'[m] = 0 => tried'[m] = 0 /\ FilesOf(m)' = {}
       /\ \A f \in FilesOf(m)' : f.tries < MaxAttempts
  BY <1>1, <1>2, <1>3 DEF HasItsTries
<1> HIDE DEF Chances, Deaths, FilesOf
<1> QED  BY <1>9, <1>13, <1>14 DEF HasItsTries

\* The copy takes over the tries of the file it replaces, less the one that was spent.
LEMMA Copied == ASSUME PatienceInv, TypeOK', Copy, NEW m \in People, m = hand.sig PROVE HasItsTries(m)'
<1>1. /\ hand \in cur /\ at = "copy" /\ hand \in File /\ TypeOK /\ m \in People /\ hand.tries + 1 < MaxAttempts
      /\ UNCHANGED <<cur, tried, hand, up, restarts>> /\ at' = "ack" /\ Put(m, hand.tries + 1)
  BY DEF Copy, Goes, PatienceInv, CopyIsOwed, Inv, HandIsHeld, HandFits, TypeOK, db, time
<1>2. hand.tries \in Nat /\ hand.tries + 1 \in Nat /\ m \in Signals \union Strays
  BY <1>1, PeopleAreSignals DEF File
<1>3. PICK f \in File : /\ f.sig = m /\ f.tries = hand.tries + 1
                        /\ f \notin new \union cur /\ new' = new \union {f}
  BY <1>1, <1>2, PutIsNew
<1>4. HasItsTries(m)
  BY <1>1 DEF PatienceInv
<1>5. hand \in FilesOf(m) /\ FilesOf(m)' = FilesOf(m) \union {f} /\ f \notin FilesOf(m) /\ f # hand
  BY <1>1, <1>3 DEF FilesOf
<1> DEFINE over == [c \in Chances(m)' |-> IF c[1] = f THEN <<hand, c[2]>> ELSE c]
<1>6. \A c \in Chances(m)' : c[1] # hand
  BY <1>1 DEF Chances, Left
<1>7. \A c \in Chances(m)' : over[c] \in Chances(m)
  <2> SUFFICES ASSUME NEW c \in Chances(m)' PROVE over[c] \in Chances(m)
    OBVIOUS
  <2>1. c \in (FilesOf(m) \union {f}) \X (0..(MaxAttempts - 1)) /\ c[2] \in Left(c[1])'
    BY <1>5 DEF Chances
  <2>2. CASE c[1] = f
    <3>1. c[2] \in (hand.tries + 1)..(MaxAttempts - 1)
      BY <1>1, <1>3, <1>5, <2>1, <2>2 DEF Left
    <3>2. c[2] \in Left(hand)
      BY <1>1, <3>1 DEF Left
    <3>3. <<hand, c[2]>> \in Chances(m)
      BY <1>5, <2>1, <3>2 DEF Chances
    <3> QED  BY <2>2, <3>3
  <2>3. CASE c[1] # f
    <3>1. Left(c[1])' = Left(c[1])
      BY <1>1, <1>6 DEF Left
    <3>2. c \in Chances(m)
      BY <2>1, <2>3, <3>1 DEF Chances
    <3> QED  BY <2>3, <3>2
  <2> QED  BY <2>2, <2>3
<1>8. \A c \in Chances(m)', d \in Chances(m)' : over[c] = over[d] => c = d
  <2> SUFFICES ASSUME NEW c \in Chances(m)', NEW d \in Chances(m)', over[c] = over[d] PROVE c = d
    OBVIOUS
  <2>1. c = <<c[1], c[2]>> /\ d = <<d[1], d[2]>>
    BY DEF Chances
  <2>2. over[c] = (IF c[1] = f THEN <<hand, c[2]>> ELSE c) /\ over[d] = (IF d[1] = f THEN <<hand, d[2]>> ELSE d)
    OBVIOUS
  <2>3. c[1] # hand /\ d[1] # hand
    BY <1>6
  <2> HIDE DEF over, Chances
  <2>4. CASE c[1] = f /\ d[1] = f
    <3>1. <<hand, c[2]>> = <<hand, d[2]>>
      BY <2>2, <2>4
    <3>2. c[2] = d[2]
      BY <3>1
    <3> QED  BY <2>1, <2>4, <3>2
  <2>5. CASE c[1] # f /\ d[1] # f
    BY <2>2, <2>5
  <2>6. CASE c[1] = f /\ d[1] # f
    <3>1. d = <<hand, c[2]>>
      BY <2>2, <2>6
    <3> QED  BY <2>3, <3>1
  <2>7. CASE c[1] # f /\ d[1] = f
    <3>1. c = <<hand, d[2]>>
      BY <2>2, <2>7
    <3> QED  BY <2>3, <3>1
  <2> QED  BY <2>4, <2>5, <2>6, <2>7
<1>9. over \in Injection(Chances(m)', Chances(m))
  BY <1>7, <1>8 DEF Injection, IsInjective
<1>10. /\ IsFiniteSet(Chances(m))
       /\ tried[m] + Cardinality(Chances(m)) <= MaxAttempts * (1 + Deaths)
  BY <1>4 DEF HasItsTries
<1>11. IsFiniteSet(Chances(m)') /\ Cardinality(Chances(m)') <= Cardinality(Chances(m))
  BY <1>9, <1>10, FS_Injection
<1>12. Cardinality(Chances(m)) \in Nat /\ Cardinality(Chances(m)') \in Nat /\ tried[m] \in Nat
  BY <1>1, <1>10, <1>11, FS_CardinalityType, TriedNat
<1>13. tried' = tried /\ Deaths' = Deaths /\ Deaths \in Nat
  BY <1>1, DeathsNat DEF Deaths
<1>14. MaxAttempts * (1 + Deaths) \in Nat
  <2> HIDE DEF Deaths
  <2> QED  BY <1>13, PostAssumption, LivesNat
<1>15. tried'[m] + Cardinality(Chances(m)') <= MaxAttempts * (1 + Deaths')
  <2> HIDE DEF Chances, Deaths
  <2> QED  BY <1>10, <1>11, <1>12, <1>13, <1>14
<1>16. stamp'[m] > 0 /\ \A g \in FilesOf(m)' : g.tries < MaxAttempts
  <2>1. stamp'[m] > 0
    BY <1>1, <1>2, PutStamps
  <2> QED  BY <1>1, <1>3, <1>4, <1>5, <2>1 DEF HasItsTries
<1> HIDE DEF Chances, Deaths, FilesOf
<1> QED  BY <1>11, <1>15, <1>16 DEF HasItsTries

\* A death gives the file in hand all its tries back, which is no more than a life's.
LEMMA Died == ASSUME PatienceInv, TypeOK', Crash, NEW m \in People PROVE HasItsTries(m)'
<1>1. /\ UNCHANGED <<new, cur, stamp, tried, restarts>> /\ up /\ ~up' /\ at' = "free" /\ TypeOK
  BY DEF Crash, PatienceInv, Inv, files, db, time
<1>2. HasItsTries(m)
  BY DEF PatienceInv
<1>3. FilesOf(m)' = FilesOf(m)
  BY <1>1 DEF FilesOf
<1> DEFINE back == {hand} \X (0..(MaxAttempts - 1))
<1>4. Chances(m)' \subseteq Chances(m) \union back
  <2> SUFFICES ASSUME NEW c \in Chances(m)', c[1] # hand PROVE c \in Chances(m)
    BY <1>3 DEF Chances
  <2>1. c \in FilesOf(m) \X (0..(MaxAttempts - 1)) /\ c[2] \in Left(c[1])'
    BY <1>3 DEF Chances
  <2>2. Left(c[1])' = Left(c[1])
    BY <1>1 DEF Left
  <2> QED  BY <2>1, <2>2 DEF Chances
<1>5. IsFiniteSet(back) /\ Cardinality(back) = MaxAttempts
  BY OneFile
<1>6. /\ IsFiniteSet(Chances(m))
      /\ tried[m] + Cardinality(Chances(m)) <= MaxAttempts * (1 + Deaths)
  BY <1>2 DEF HasItsTries
<1>7. /\ IsFiniteSet(Chances(m)') /\ Cardinality(Chances(m)) \in Nat /\ Cardinality(Chances(m)') \in Nat
      /\ Cardinality(Chances(m)') <= Cardinality(Chances(m)) + MaxAttempts
  <2> HIDE DEF Chances, back
  <2>1. /\ IsFiniteSet(Chances(m)')
        /\ {Cardinality(Chances(m)), Cardinality(back), Cardinality(Chances(m)')} \subseteq Nat
        /\ Cardinality(Chances(m)') <= Cardinality(Chances(m)) + Cardinality(back)
    BY <1>4, <1>5, <1>6, BothAtMost
  <2> QED  BY <1>5, <2>1
<1>8. Deaths' = Deaths + 1 /\ Deaths \in Nat
  <2>1. restarts \in Nat /\ Deaths = restarts /\ Deaths' = restarts + 1
    BY <1>1 DEF Deaths, TypeOK
  <2> HIDE DEF Deaths
  <2> QED  BY <2>1
<1>9. /\ MaxAttempts * (1 + Deaths') = MaxAttempts * (1 + Deaths) + MaxAttempts
      /\ MaxAttempts * (1 + Deaths) \in Nat /\ MaxAttempts \in Nat
  <2> HIDE DEF Deaths
  <2>1. Deaths <= Deaths /\ MaxAttempts \in Nat
    BY <1>8, PostAssumption
  <2> QED  BY <1>8, <2>1, LivesAdd
<1>10. tried'[m] = tried[m] /\ tried[m] \in Nat
  BY <1>1, TriedNat
<1>11. tried'[m] + Cardinality(Chances(m)') <= MaxAttempts * (1 + Deaths')
  <2> HIDE DEF Chances, Deaths
  <2> QED  BY <1>6, <1>7, <1>9, <1>10
<1>12. /\ stamp'[m] = 0 => tried'[m] = 0 /\ FilesOf(m)' = {}
       /\ \A f \in FilesOf(m)' : f.tries < MaxAttempts
  BY <1>1, <1>2, <1>3 DEF HasItsTries
<1> HIDE DEF Chances, Deaths, FilesOf
<1> QED  BY <1>7, <1>11, <1>12 DEF HasItsTries

\* A step that leaves a message's files where they are.
LEMMA Untouched ==
    ASSUME PatienceInv, TypeOK', UNCHANGED <<stamp, tried>>, new' \union cur' \subseteq new \union cur,
           Deaths' >= Deaths, NEW m \in People, \A f \in FilesOf(m)' : Left(f)' \subseteq Left(f)
    PROVE  HasItsTries(m)'
<1>1. FilesOf(m)' \subseteq FilesOf(m)
  BY DEF FilesOf
<1> HIDE DEF Left, FilesOf, Deaths
<1> QED  BY <1>1, LeftAlone

\* A step that puts a file of another signal in the inbox.
LEMMA PutForAnother ==
    ASSUME PatienceInv, TypeOK', NEW sig \in Signals \union Strays, NEW tries \in Nat, Put(sig, tries),
           UNCHANGED <<cur, tried, hand, up, restarts>>, at' = at \/ (at = "copy" /\ at' = "ack"),
           NEW m \in People, m # sig
    PROVE  HasItsTries(m)'
<1>1. TypeOK /\ m \in Signals \union Strays
  BY PeopleAreSignals DEF PatienceInv, Inv
<1>2. PICK f \in File : f.sig = sig /\ new' = new \union {f}
  BY <1>1, PutIsNew
<1>3. FilesOf(m)' = FilesOf(m)
  BY <1>2 DEF FilesOf
<1>4. stamp'[m] = stamp[m]
  BY <1>1, PutStamps
<1>5. \A g \in FilesOf(m)' : Left(g)' \subseteq Left(g)
  <2> SUFFICES ASSUME NEW g PROVE Left(g)' \subseteq Left(g)
    OBVIOUS
  <2>1. CASE at' = at
    BY <2>1 DEF Left
  <2>2. CASE at = "copy" /\ at' = "ack"
    <3>1. CASE g = hand
      BY <2>2, <3>1 DEF Left
    <3>2. CASE g # hand
      BY <2>2, <3>2 DEF Left
    <3> QED  BY <3>1, <3>2
  <2> QED  BY <2>1, <2>2
<1>6. Deaths' = Deaths /\ Deaths \in Nat
  BY <1>1, DeathsNat DEF Deaths
<1>7. Deaths' >= Deaths
  BY <1>6
<1> HIDE DEF Left, FilesOf, Deaths
<1> QED  BY <1>3, <1>4, <1>5, <1>7, LeftAlone

LEMMA PatienceInit == Init => PatienceInv
<1> SUFFICES ASSUME Init PROVE PatienceInv
  OBVIOUS
<1>1. Apart /\ CopyIsOwed
  BY DEF Init, Apart, CopyIsOwed
<1>2. ASSUME NEW m \in People PROVE HasItsTries(m)
  <2>1. FilesOf(m) = {} /\ tried[m] = 0
    BY PeopleAreSignals DEF Init, FilesOf
  <2>2. Chances(m) = {}
    BY <2>1 DEF Chances
  <2>3. IsFiniteSet({}) /\ Cardinality({}) = 0
    BY FS_EmptySet
  <2>4. MaxAttempts * (1 + Deaths) \in Nat
    <3>1. Inv => TypeOK
      BY DEF Inv
    <3>2. Deaths \in Nat
      BY <3>1, InvInit, DeathsNat
    <3> HIDE DEF Deaths
    <3> QED  BY <3>2, PostAssumption, LivesNat
  <2> HIDE DEF Chances, FilesOf, Deaths
  <2> QED  BY <2>1, <2>2, <2>3, <2>4 DEF HasItsTries
<1> QED  BY <1>1, <1>2, InvInit DEF PatienceInv

LEMMA PatienceStep == ASSUME PatienceInv, [Next]_vars PROVE PatienceInv'
<1> USE DEF files, db, time, core, Goes
<1>1. Inv /\ Inv' /\ TypeOK /\ TypeOK' /\ Apart /\ CopyIsOwed
  BY InvStep DEF PatienceInv, Inv
<1>a. Deaths \in Nat
  BY <1>1, DeathsNat
<1> SUFFICES Apart' /\ CopyIsOwed' /\ \A m \in People : HasItsTries(m)'
  BY <1>1 DEF PatienceInv
<1>2. ASSUME NEW sig \in Signals \union Strays, NEW tries \in Nat, Put(sig, tries), UNCHANGED cur
      PROVE  Apart'
  <2>1. PICK f \in File : f \notin new \union cur /\ new' = new \union {f}
    BY <1>1, <1>2, PutIsNew
  <2> QED  BY <1>1, <1>2, <2>1 DEF Apart
<1>3. ASSUME NEW m \in People, Say(m) PROVE Apart' /\ CopyIsOwed' /\ \A n \in People : HasItsTries(n)'
  <2>1. m \in Signals \union Strays /\ 0 \in Nat /\ Put(m, 0) /\ UNCHANGED <<cur, tried, hand, up, restarts, at>>
    BY <1>3, PeopleAreSignals DEF Say
  <2>2. Apart'
    BY <1>2, <2>1
  <2>3. CopyIsOwed'
    BY <1>1, <2>1 DEF CopyIsOwed
  <2>4. HasItsTries(m)'
    BY <1>1, <1>3, Arrives
  <2>5. \A n \in People \ {m} : HasItsTries(n)'
    BY <1>1, <2>1, PutForAnother
  <2> QED  BY <2>2, <2>3, <2>4, <2>5
<1>4. ASSUME NEW s \in Strays, Drop(s) PROVE Apart' /\ CopyIsOwed' /\ \A n \in People : HasItsTries(n)'
  <2>1. s \in Signals \union Strays /\ 0 \in Nat /\ Put(s, 0) /\ UNCHANGED <<cur, tried, hand, up, restarts, at>>
    BY <1>4 DEF Drop
  <2>2. \A n \in People : n # s
    BY PostAssumption
  <2>3. Apart'
    BY <1>2, <2>1
  <2>4. CopyIsOwed'
    BY <1>1, <2>1 DEF CopyIsOwed
  <2> QED  BY <1>1, <2>1, <2>2, <2>3, <2>4, PutForAnother
<1>5. CASE Ring
  <2>1. PICK r \in ringing : Put(r, 0)
    BY <1>5 DEF Ring
  <2>2. r \in Signals \union Strays /\ 0 \in Nat /\ UNCHANGED <<cur, tried, hand, up, restarts, at>>
    BY <1>1, <1>5 DEF Ring, TypeOK, Signals
  <2>3. \A n \in People : n # r
    BY <1>1, PostAssumption DEF TypeOK
  <2>4. Apart'
    BY <1>2, <2>1, <2>2
  <2>5. CopyIsOwed'
    BY <1>1, <2>2 DEF CopyIsOwed
  <2> QED  BY <1>1, <2>1, <2>2, <2>3, <2>4, <2>5, PutForAnother
<1>6. CASE Copy
  <2>1. /\ hand.sig \in People /\ hand.tries + 1 \in Nat /\ hand.sig \in Signals \union Strays
        /\ Put(hand.sig, hand.tries + 1) /\ UNCHANGED <<cur, tried, hand, up, restarts>> /\ at = "copy" /\ at' = "ack"
    BY <1>1, <1>6, PeopleAreSignals DEF Copy, CopyIsOwed, Inv, HandFits, TypeOK, File
  <2>2. Apart'
    BY <1>2, <2>1
  <2>3. CopyIsOwed'
    BY <2>1 DEF CopyIsOwed
  <2>4. ASSUME NEW m \in People, m = hand.sig PROVE HasItsTries(m)'
    BY <1>1, <1>6, <2>4, Copied
  <2>5. ASSUME NEW m \in People, m # hand.sig PROVE HasItsTries(m)'
    BY <1>1, <2>1, <2>5, PutForAnother
  <2> QED  BY <2>2, <2>3, <2>4, <2>5
<1>7. CASE Abandon
  <2>1. /\ UNCHANGED <<new, cur, stamp, hand, up, restarts>> /\ at = "free" /\ at' \in {"copy", "ack"}
        /\ tried' = [tried EXCEPT ![hand.sig] = @ + 1] /\ (at' = "copy" => Retry)
    BY <1>7 DEF Abandon, InHand
  <2>2. Apart' /\ CopyIsOwed'
    BY <1>1, <2>1 DEF Apart, CopyIsOwed, Retry
  <2>3. ASSUME NEW m \in People, m = hand.sig PROVE HasItsTries(m)'
    BY <1>1, <1>7, <2>3, Spent
  <2>4. ASSUME NEW m \in People, m # hand.sig PROVE HasItsTries(m)'
    <3>1. FilesOf(m)' = FilesOf(m) /\ tried'[m] = tried[m] /\ stamp'[m] = stamp[m]
      BY <1>1, <2>1, <2>4, PeopleAreSignals DEF FilesOf, TypeOK
    <3>2. ASSUME NEW f \in FilesOf(m)' PROVE Left(f)' \subseteq Left(f)
      <4>1. f # hand
        BY <2>4, <3>1 DEF FilesOf
      <4> QED  BY <2>1, <4>1 DEF Left
    <3>3. Deaths' = Deaths
      BY <2>1 DEF Deaths
    <3> HIDE DEF FilesOf, Left, Deaths
    <3>4. Deaths' >= Deaths
      BY <1>a, <3>3
    <3> QED  BY <1>1, <3>1, <3>2, <3>4, LeftAlone
  <2> QED  BY <2>2, <2>3, <2>4
<1>8. CASE Crash
  <2>1. Apart' /\ CopyIsOwed'
    BY <1>1, <1>8 DEF Crash, Apart, CopyIsOwed
  <2> QED  BY <1>1, <1>8, <2>1, Died
<1>9. CASE Ack
  <2>1. /\ UNCHANGED <<new, stamp, tried, up, restarts>> /\ cur' = cur \ {hand} /\ hand \in cur
        /\ at = "ack" /\ at' = "free" /\ hand' = NoFile
    BY <1>1, <1>9 DEF Ack, Inv, HandFits, HandIsHeld
  <2>2. Apart' /\ CopyIsOwed'
    BY <1>1, <2>1 DEF Apart, CopyIsOwed
  <2>3. Deaths' = Deaths
    BY <2>1 DEF Deaths
  <2>4. Deaths' >= Deaths
    <3> HIDE DEF Deaths
    <3> QED  BY <1>a, <2>3
  <2>5. ASSUME NEW m \in People, NEW f \in FilesOf(m)' PROVE Left(f)' \subseteq Left(f)
    <3>1. f # hand
      BY <1>1, <2>1 DEF FilesOf, Apart
    <3> QED  BY <2>1, <3>1 DEF Left
  <2>6. new' \union cur' \subseteq new \union cur
    BY <2>1
  <2> HIDE DEF Left, FilesOf, Deaths
  <2> QED  BY <1>1, <2>1, <2>2, <2>4, <2>5, <2>6, Untouched
<1>10. CASE TakeDue \/ Pop \/ NothingWaits \/ ReadSignal \/ SkipStray \/ Close \/ GiveBack \/ Open
            \/ Tick \/ AlarmAction \/ UNCHANGED vars
  <2>1. /\ UNCHANGED <<stamp, tried>> /\ new' \union cur' \subseteq new \union cur /\ Apart'
        /\ \/ at' \notin {"copy", "ack"}
           \/ at' = "ack" /\ hand' = hand
           \/ at' = at /\ hand' = hand
        /\ (at \notin {"copy", "ack"} \/ (at' = at /\ hand' = hand))
    <3>1. CASE TakeDue \/ NothingWaits \/ ReadSignal \/ Close \/ Tick \/ UNCHANGED vars
      BY <1>1, <3>1 DEF TakeDue, NothingWaits, ReadSignal, Close, InHand, Tick, vars, Apart
    <3>2. CASE Pop \/ SkipStray
      BY <1>1, <3>2 DEF Pop, SkipStray, Apart
    <3>3. CASE GiveBack \/ Open
      BY <1>1, <3>3 DEF GiveBack, Open, Apart, Inv, HandFits
    <3>4. CASE AlarmAction
      BY <1>1, <3>4 DEF AlarmAction, Add, Cancel, Apart
    <3> QED  BY <1>10, <3>1, <3>2, <3>3, <3>4
  <2>2. CopyIsOwed'
    BY <1>1, <2>1 DEF CopyIsOwed
  <2>3. Deaths' = Deaths
    <3>1. CASE Open
      <4>1. restarts \in Nat /\ restarts' = restarts + 1 /\ ~up /\ up'
        BY <1>1, <3>1 DEF Open, TypeOK
      <4>2. Deaths = restarts + 1 /\ Deaths' = restarts'
        BY <4>1 DEF Deaths
      <4> HIDE DEF Deaths
      <4> QED  BY <4>1, <4>2
    <3>2. CASE UNCHANGED <<up, restarts>>
      BY <3>2 DEF Deaths
    <3>3. Open \/ UNCHANGED <<up, restarts>>
      BY <1>10 DEF TakeDue, NothingWaits, ReadSignal, Close, Tick, vars, Pop, SkipStray, GiveBack, AlarmAction, Add, Cancel
    <3> HIDE DEF Deaths
    <3> QED  BY <3>1, <3>2, <3>3
  <2>4. Deaths' >= Deaths
    <3> HIDE DEF Deaths
    <3> QED  BY <1>a, <2>3
  <2>5. ASSUME NEW f PROVE Left(f)' \subseteq Left(f)
    <3>1. CASE at \notin {"copy", "ack"} /\ at' \notin {"copy", "ack"}
      BY <3>1 DEF Left
    <3>2. CASE at \notin {"copy", "ack"} /\ at' = "ack" /\ hand' = hand
      BY <3>2 DEF Left
    <3>3. CASE at' = at /\ hand' = hand
      BY <3>3 DEF Left
    <3> QED  BY <2>1, <3>1, <3>2, <3>3
  <2> HIDE DEF Left, FilesOf, Deaths
  <2> QED  BY <1>1, <2>1, <2>2, <2>4, <2>5, Untouched
<1> QED  BY <1>3, <1>4, <1>5, <1>6, <1>7, <1>8, <1>9, <1>10 DEF Next, World, Hub, Lifecycle

\* Nobody tries anything while the core is dead, so its last death has not counted yet.
LEMMA TriesHold == ASSUME PatienceInv, PatienceInv', PatienceSurvives, [Next]_vars PROVE PatienceSurvives'
<1> SUFFICES ASSUME NEW m \in People PROVE tried'[m] <= MaxAttempts * (1 + restarts')
  BY DEF PatienceSurvives
<1>1. TypeOK /\ TypeOK'
  BY DEF PatienceInv, Inv
<1>2. CASE up'
  <2>0. Deaths' = restarts'
    BY <1>2, Zenon DEF Deaths
  <2>1. restarts' \in Nat /\ MaxAttempts \in Nat
    BY <1>1, PostAssumption DEF TypeOK
  <2>2. /\ IsFiniteSet(Chances(m)') /\ tried'[m] + Cardinality(Chances(m)') <= MaxAttempts * (1 + Deaths')
    BY DEF PatienceInv, HasItsTries
  <2>3. Cardinality(Chances(m)') \in Nat
    BY <2>2, FS_CardinalityType
  <2>4. tried'[m] \in Nat
    BY <1>1, PeopleAreSignals DEF TypeOK
  <2>5. MaxAttempts * (1 + restarts') \in Nat
    BY <2>1, LivesNat
  <2> HIDE DEF Deaths
  <2> QED  BY <2>0, <2>1, <2>2, <2>3, <2>4, <2>5
<1>3. CASE ~up'
  <2>1. tried' = tried /\ restarts' = restarts
    BY <1>3 DEF Next, World, Hub, Lifecycle, vars, files, db, time, core, Tick, Say, Drop, AlarmAction, Add, Cancel,
       TakeDue, Ring, Pop, NothingWaits, ReadSignal, SkipStray, Close, InHand, Abandon, Copy, Ack, Crash, GiveBack, Open
  <2> QED  BY <2>1 DEF PatienceSurvives
<1> QED  BY <1>2, <1>3

\* A message that kills every process is given up on in the end, even if the core dies between
\* writing the copy that counts the failure and removing the one that does not.
THEOREM PatienceHasAnEnd == Spec => []PatienceSurvives
<1>1. Init => PatienceSurvives
  <2> SUFFICES ASSUME Init, NEW m \in People PROVE tried[m] <= MaxAttempts * (1 + restarts)
    BY DEF PatienceSurvives
  <2>1. tried[m] = 0 /\ restarts \in Nat /\ MaxAttempts \in Nat
    BY PeopleAreSignals, PostAssumption DEF Init
  <2>2. MaxAttempts * (1 + restarts) \in Nat
    BY <2>1, LivesNat
  <2> QED  BY <2>1, <2>2
<1>2. PatienceInv /\ PatienceInv' /\ PatienceSurvives /\ [Next]_vars => PatienceSurvives'
  BY TriesHold
<1> QED  BY <1>1, <1>2, PatienceInit, PatienceStep, PTL DEF Spec
-----------------------------------------------------------------------------
(* Delivery: how often a signal may lie in the inbox.                      *)

\* An alarm has not gone off more often than the schedule counted, and what is about to be put
\* in the inbox was not there before.
Unrung ==
    /\ \A a \in alarms, n \in 1..MaxFires :
          n > a.fires => stamp[<<a.id, n>>] = 0 /\ <<a.id, n>> \notin ringing
    /\ \A r \in ringing : stamp[r] = 0

\* The file in hand is one too many while its copy, or the turn that closed, waits for it to go.
Extra(s) == IF at = "ack" /\ hand.sig = s THEN 1 ELSE 0

\* A signal that did not arrive is in no file, and each death leaves one too many behind at most.
Delivered(s) ==
    /\ stamp[s] = 0 => FilesOf(s) = {}
    /\ IsFiniteSet(FilesOf(s)) /\ Cardinality(FilesOf(s)) <= 1 + Deaths + Extra(s)

CopiesInv == AlarmInv /\ PatienceInv /\ Unrung /\ \A s \in Signals : Delivered(s)

\* The steps that touch neither the schedule, nor what rings, nor the times in a file's name.
LEMMA UnrungSame == ASSUME Unrung, UNCHANGED <<alarms, stamp>>, ringing' \subseteq ringing PROVE Unrung'
  BY DEF Unrung

LEMMA UnrungPut ==
    ASSUME CopiesInv, NEW sig \in Signals \union Strays, NEW tries \in Nat, Put(sig, tries),
           UNCHANGED alarms, \/ sig \notin Rings /\ ringing' = ringing
                             \/ sig \in ringing /\ ringing' = ringing \ {sig}
    PROVE  Unrung'
<1>1. TypeOK /\ Unrung
  BY DEF CopiesInv, AlarmInv, Inv
<1>2. \A s \in (Signals \union Strays) \ {sig} : stamp'[s] = stamp[s]
  BY <1>1, PutStamps
<1>3. \A r \in Rings : r # sig => stamp'[r] = stamp[r]
  BY <1>2 DEF Signals
<1>4. \A r \in ringing' : stamp'[r] = 0
  BY <1>1, <1>3 DEF Unrung, TypeOK
<1>5. ASSUME NEW a \in alarms, NEW n \in 1..MaxFires, n > a.fires
      PROVE  stamp'[<<a.id, n>>] = 0 /\ <<a.id, n>> \notin ringing'
  <2>1. <<a.id, n>> \in Rings
    BY <1>1 DEF TypeOK, Alarm, Rings
  <2>2. stamp[<<a.id, n>>] = 0 /\ <<a.id, n>> \notin ringing
    BY <1>1, <1>5 DEF Unrung
  <2>3. <<a.id, n>> # sig
    BY <2>1, <2>2
  <2> QED  BY <1>3, <2>1, <2>2, <2>3
<1> QED  BY <1>4, <1>5 DEF Unrung

\* What rings next is a number the alarm has not come to, and it comes to it by ringing.
LEMMA UnrungTaken == ASSUME CopiesInv, TakeDue PROVE Unrung'
<1>1. /\ alarms' = Kept(alarms, clock) /\ ringing' = Falls(alarms, clock)
      /\ at = "free" /\ UNCHANGED stamp /\ \A a \in Due(alarms, clock) : a.fires < MaxFires
  BY DEF TakeDue
<1>2. /\ alarms \subseteq Alarm /\ ringing = {} /\ OneOfAName /\ Unrung
      /\ Due(alarms, clock) \subseteq alarms
  BY <1>1 DEF CopiesInv, AlarmInv, Inv, TypeOK, RingsOnlyThere, Due
<1>3. \A r \in ringing' : stamp'[r] = 0
  <2> SUFFICES ASSUME NEW a \in Due(alarms, clock) PROVE stamp[<<a.id, a.fires + 1>>] = 0
    BY <1>1 DEF Falls
  <2>1. a \in alarms /\ a.fires \in Nat /\ a.fires < MaxFires
    BY <1>1, <1>2 DEF Alarm
  <2>2. a.fires + 1 \in 1..MaxFires /\ a.fires + 1 > a.fires
    BY <2>1, PostAssumption
  <2> QED  BY <1>2, <2>1, <2>2 DEF Unrung
<1>4. ASSUME NEW b \in Kept(alarms, clock), NEW n \in 1..MaxFires, n > b.fires
      PROVE  stamp[<<b.id, n>>] = 0 /\ <<b.id, n>> \notin ringing'
  <2>1. PICK a \in alarms : \/ b = a /\ a \notin Due(alarms, clock)
                            \/ a \in Due(alarms, clock) /\ b \in Again(a, clock)
    BY <1>2, KeptIs
  <2>2. a \in Alarm /\ a.fires \in Nat
    BY <1>2 DEF Alarm
  <2>3. b.id = a.id /\ n > a.fires /\ (a \in Due(alarms, clock) => n # a.fires + 1)
    <3>1. CASE b = a /\ a \notin Due(alarms, clock)
      BY <1>4, <3>1
    <3>2. CASE a \in Due(alarms, clock) /\ b \in Again(a, clock)
      <4>1. b.id = a.id /\ b.fires = a.fires + 1
        BY <2>2, <3>2, AgainIs
      <4> QED  BY <1>4, <2>2, <4>1
    <3> QED  BY <2>1, <3>1, <3>2
  <2>4. stamp[<<b.id, n>>] = 0
    BY <1>2, <2>3 DEF Unrung
  <2>5. ASSUME NEW d \in Due(alarms, clock), <<d.id, d.fires + 1>> = <<b.id, n>> PROVE FALSE
    <3>1. d.id = a.id /\ d.fires + 1 = n
      BY <2>3, <2>5
    <3>2. d = a
      BY <1>2, <3>1 DEF OneOfAName
    <3> QED  BY <2>3, <2>5, <3>1, <3>2
  <2> QED  BY <1>1, <2>4, <2>5 DEF Falls
<1> QED  BY <1>1, <1>3, <1>4 DEF Unrung

LEMMA UnrungStep == ASSUME CopiesInv, [Next]_vars PROVE Unrung'
<1> USE DEF files, db, time, core, Goes
<1>1. TypeOK /\ Unrung /\ HandFits /\ CopyIsOwed
  BY DEF CopiesInv, PatienceInv, Inv
<1>2. CASE \E m \in People : Say(m)
  <2>1. PICK m \in People : Say(m)
    BY <1>2
  <2>2. m \in Signals \union Strays /\ m \notin Rings /\ 0 \in Nat
    BY PostAssumption DEF Signals
  <2> QED  BY <2>1, <2>2, UnrungPut DEF Say
<1>3. CASE \E s \in Strays : Drop(s)
  <2>1. PICK s \in Strays : Drop(s)
    BY <1>3
  <2>2. s \in Signals \union Strays /\ s \notin Rings /\ 0 \in Nat
    BY PostAssumption
  <2> QED  BY <2>1, <2>2, UnrungPut DEF Drop
<1>4. CASE AlarmAction
  <2>1. ASSUME NEW id, NEW moment, NEW repeat, Add(id, moment, repeat) PROVE Unrung'
    <3> DEFINE b == [id |-> id, when |-> First(clock, moment, repeat), repeat |-> repeat, fires |-> 0]
    <3>1. /\ alarms' = alarms \union {b} /\ UNCHANGED <<stamp, ringing>>
          /\ \A n \in 1..MaxFires : stamp[<<id, n>>] = 0 /\ <<id, n>> \notin ringing
      BY <2>1 DEF Add
    <3>2. b.id = id
      OBVIOUS
    <3> HIDE DEF b
    <3> QED  BY <1>1, <3>1, <3>2 DEF Unrung
  <2>2. ASSUME NEW ids, Cancel(ids) PROVE Unrung'
    BY <1>1, <2>2 DEF Cancel, Unrung
  <2> QED  BY <1>4, <2>1, <2>2 DEF AlarmAction
<1>5. CASE TakeDue
  BY <1>5, UnrungTaken
<1>6. CASE Ring
  <2>1. PICK r \in ringing : Put(r, 0) /\ ringing' = ringing \ {r}
    BY <1>6 DEF Ring
  <2>2. r \in Signals \union Strays /\ 0 \in Nat /\ UNCHANGED alarms
    BY <1>1, <1>6 DEF Ring, TypeOK, Signals
  <2> QED  BY <2>1, <2>2, UnrungPut
<1>7. CASE Copy
  <2>1. hand \in File /\ hand.sig \in People /\ UNCHANGED <<alarms, ringing>> /\ Put(hand.sig, hand.tries + 1)
    BY <1>1, <1>7 DEF Copy, TypeOK, HandFits, CopyIsOwed
  <2>2. hand.tries + 1 \in Nat /\ hand.sig \in Signals \union Strays /\ hand.sig \notin Rings
    BY <2>1, PostAssumption DEF File, Signals
  <2> QED  BY <2>1, <2>2, UnrungPut
<1>8. CASE \/ Pop \/ NothingWaits \/ ReadSignal \/ SkipStray \/ Close \/ Abandon \/ Ack
           \/ Crash \/ GiveBack \/ Open \/ Tick \/ UNCHANGED vars
  <2>1. UNCHANGED <<alarms, stamp>> /\ ringing' \subseteq ringing
    BY <1>8 DEF Pop, NothingWaits, ReadSignal, SkipStray, Close, Abandon, Ack, InHand, Crash, GiveBack, Open, Tick, vars
  <2> QED  BY <1>1, <2>1, UnrungSame
<1> QED  BY <1>2, <1>3, <1>4, <1>5, <1>6, <1>7, <1>8 DEF Next, World, Hub, Lifecycle

-----------------------------------------------------------------------------
LEMMA DeathsStayNat == ASSUME TypeOK' PROVE Deaths' \in Nat
<1>1. restarts' \in Nat
  BY DEF TypeOK
<1>2. up' => Deaths' = restarts'
  BY Zenon DEF Deaths
<1>3. ~up' => Deaths' = restarts' + 1
  BY Zenon DEF Deaths
<1> QED  BY <1>1, <1>2, <1>3

\* A signal whose files are no more than they were, and neither are the excuses.
LEMMA NoMoreFiles ==
    ASSUME NEW s \in Signals, TypeOK, TypeOK', Delivered(s), FilesOf(s)' \subseteq FilesOf(s),
           stamp'[s] = stamp[s], Deaths + Extra(s) <= Deaths' + Extra(s)'
    PROVE  Delivered(s)'
<1>1. /\ stamp[s] = 0 => FilesOf(s) = {}
      /\ IsFiniteSet(FilesOf(s)) /\ Cardinality(FilesOf(s)) <= 1 + Deaths + Extra(s)
  BY DEF Delivered
<1>2. IsFiniteSet(FilesOf(s)') /\ Cardinality(FilesOf(s)') <= Cardinality(FilesOf(s))
  BY <1>1, FS_Subset
<1>3. Cardinality(FilesOf(s)) \in Nat /\ Cardinality(FilesOf(s)') \in Nat
  BY <1>1, <1>2, FS_CardinalityType
<1>4. {Deaths, Deaths', Extra(s), Extra(s)'} \subseteq Nat
  <2>1. Deaths \in Nat
    BY DeathsNat
  <2>2. Deaths' \in Nat
    BY DeathsStayNat
  <2>3. Extra(s) \in Nat /\ Extra(s)' \in Nat
    BY DEF Extra
  <2> QED  BY <2>1, <2>2, <2>3
<1>5. Cardinality(FilesOf(s)') <= 1 + Deaths' + Extra(s)'
  <2> HIDE DEF FilesOf, Deaths, Extra
  <2> QED  BY <1>1, <1>2, <1>3, <1>4
<1>6. stamp'[s] = 0 => FilesOf(s)' = {}
  <2> HIDE DEF FilesOf
  <2> QED  BY <1>1
<1> HIDE DEF FilesOf, Deaths, Extra
<1> QED  BY <1>2, <1>5, <1>6 DEF Delivered

\* A signal's first file.
LEMMA FirstFile ==
    ASSUME NEW s \in Signals, TypeOK, TypeOK', NEW tries \in Nat, Put(s, tries), Delivered(s), stamp[s] = 0,
           UNCHANGED cur
    PROVE  Delivered(s)'
<1>1. PICK f \in File : f.sig = s /\ new' = new \union {f}
  BY PutIsNew
<1>2. FilesOf(s)' = {f}
  BY <1>1 DEF Delivered, FilesOf
<1>3. IsFiniteSet({f}) /\ Cardinality({f}) = 1
  BY FS_Singleton
<1>4. stamp'[s] > 0
  BY PutStamps
<1>5. Deaths' \in Nat /\ Extra(s)' \in Nat
  <2>1. Deaths' \in Nat
    BY DeathsStayNat
  <2>2. Extra(s)' \in Nat
    BY DEF Extra
  <2> QED  BY <2>1, <2>2
<1> HIDE DEF FilesOf, Deaths, Extra
<1> QED  BY <1>2, <1>3, <1>4, <1>5 DEF Delivered

\* A file put in the inbox for another signal.
LEMMA OthersFile ==
    ASSUME NEW s \in Signals, TypeOK, TypeOK', NEW sig \in Signals \union Strays, NEW tries \in Nat, Put(sig, tries),
           s # sig, Delivered(s), UNCHANGED <<cur, up, restarts>>, Extra(s)' = Extra(s)
    PROVE  Delivered(s)'
<1>1. PICK f \in File : f.sig = sig /\ new' = new \union {f}
  BY PutIsNew
<1>2. FilesOf(s)' = FilesOf(s)
  BY <1>1 DEF FilesOf
<1>3. stamp'[s] = stamp[s]
  BY PutStamps
<1>4. Deaths' = Deaths /\ Deaths \in Nat
  BY DeathsNat DEF Deaths
<1>5. Extra(s) \in Nat
  BY DEF Extra
<1>6. Deaths + Extra(s) <= Deaths' + Extra(s)'
  <2> HIDE DEF Deaths, Extra
  <2> QED  BY <1>4, <1>5
<1> HIDE DEF FilesOf, Deaths, Extra
<1> QED  BY <1>2, <1>3, <1>6, NoMoreFiles

\* The copy of the file in hand, which goes when the copy is there.
LEMMA CopyIsOneMore ==
    ASSUME CopiesInv, TypeOK', Copy, NEW s \in Signals, s = hand.sig PROVE Delivered(s)'
<1>1. /\ TypeOK /\ hand \in File /\ s \in Signals /\ at = "copy" /\ at' = "ack" /\ Put(s, hand.tries + 1)
      /\ UNCHANGED <<cur, hand, up, restarts>> /\ hand.tries + 1 \in Nat
  BY DEF Copy, Goes, CopiesInv, AlarmInv, Inv, TypeOK, HandFits, File, db, time
<1>2. PICK f \in File : f.sig = s /\ f \notin new \union cur /\ new' = new \union {f}
  BY <1>1, PutIsNew
<1>3. FilesOf(s)' = FilesOf(s) \union {f}
  BY <1>1, <1>2 DEF FilesOf
<1>4. IsFiniteSet(FilesOf(s)) /\ Cardinality(FilesOf(s)) <= 1 + Deaths + Extra(s)
  BY <1>1 DEF CopiesInv, Delivered
<1>5. IsFiniteSet({f}) /\ Cardinality({f}) = 1
  BY FS_Singleton
<1>6. /\ IsFiniteSet(FilesOf(s)') /\ {Cardinality(FilesOf(s)), Cardinality(FilesOf(s)')} \subseteq Nat
      /\ Cardinality(FilesOf(s)') <= Cardinality(FilesOf(s)) + 1
  <2> HIDE DEF FilesOf
  <2>1. FilesOf(s)' \subseteq FilesOf(s) \union {f}
    BY <1>3
  <2>2. /\ IsFiniteSet(FilesOf(s)')
        /\ {Cardinality(FilesOf(s)), Cardinality({f}), Cardinality(FilesOf(s)')} \subseteq Nat
        /\ Cardinality(FilesOf(s)') <= Cardinality(FilesOf(s)) + Cardinality({f})
    BY <1>4, <1>5, <2>1, BothAtMost
  <2> QED  BY <1>5, <2>2
<1>7. Extra(s) = 0 /\ Extra(s)' = 1 /\ Deaths' = Deaths /\ Deaths \in Nat
  BY <1>1, DeathsNat DEF Extra, Deaths
<1>8. stamp'[s] > 0
  BY <1>1, PutStamps
<1> HIDE DEF FilesOf, Deaths, Extra
<1> QED  BY <1>4, <1>6, <1>7, <1>8 DEF Delivered

\* The file in hand goes, and with it the excuse.
LEMMA AckIsOneLess ==
    ASSUME CopiesInv, TypeOK', Ack, NEW s \in Signals, s = hand.sig PROVE Delivered(s)'
<1>1. /\ TypeOK /\ hand \in cur /\ hand \notin new /\ s \in Signals /\ at = "ack" /\ at' = "free"
      /\ UNCHANGED <<new, stamp, up, restarts>> /\ cur' = cur \ {hand}
  BY DEF Ack, Goes, CopiesInv, AlarmInv, PatienceInv, Inv, TypeOK, HandFits, HandIsHeld, Apart, time
<1>2. hand \in FilesOf(s) /\ FilesOf(s)' = FilesOf(s) \ {hand}
  BY <1>1 DEF FilesOf
<1>3. /\ stamp[s] = 0 => FilesOf(s) = {}
      /\ IsFiniteSet(FilesOf(s)) /\ Cardinality(FilesOf(s)) <= 1 + Deaths + Extra(s)
  BY <1>1 DEF CopiesInv, Delivered
<1>4. IsFiniteSet(FilesOf(s) \ {hand}) /\ Cardinality(FilesOf(s) \ {hand}) = Cardinality(FilesOf(s)) - 1
  BY <1>2, <1>3, FS_RemoveElement
<1>5. Cardinality(FilesOf(s)) \in Nat
  BY <1>3, FS_CardinalityType
<1>6. Extra(s) = 1 /\ Extra(s)' = 0 /\ Deaths' = Deaths /\ Deaths \in Nat
  BY <1>1, DeathsNat DEF Extra, Deaths
<1> HIDE DEF FilesOf, Deaths, Extra
<1> QED  BY <1>1, <1>2, <1>3, <1>4, <1>5, <1>6 DEF Delivered

LEMMA CopiesStep == ASSUME CopiesInv, [Next]_vars PROVE CopiesInv'
<1> USE DEF files, db, time, core, Goes
<1>1. AlarmInv' /\ PatienceInv' /\ Unrung'
  BY AlarmStep, PatienceStep, UnrungStep DEF CopiesInv
<1>2. /\ Inv /\ TypeOK /\ TypeOK' /\ Unrung /\ CopyIsOwed /\ HandFits /\ HandIsHeld
      /\ \A s \in Signals : Delivered(s)
  BY <1>1 DEF CopiesInv, PatienceInv, Inv
<1>3. Deaths \in Nat /\ Deaths' \in Nat
  BY <1>2, DeathsNat, DeathsStayNat
<1> SUFFICES ASSUME NEW s \in Signals PROVE Delivered(s)'
  BY <1>1 DEF CopiesInv
<1>4. Extra(s) \in {0, 1} /\ Extra(s)' \in {0, 1}
  BY DEF Extra
<1>5. CASE \E m \in People : Say(m)
  <2>1. PICK m \in People : Say(m)
    BY <1>5
  <2>2. m \in Signals \union Strays /\ 0 \in Nat /\ Put(m, 0) /\ stamp[m] = 0 /\ UNCHANGED <<cur, up, restarts, at, hand>>
    BY <2>1, PeopleAreSignals DEF Say
  <2>3. Extra(s)' = Extra(s)
    BY <2>2 DEF Extra
  <2> HIDE DEF Extra
  <2> QED  BY <1>2, <2>2, <2>3, FirstFile, OthersFile
<1>6. CASE \E x \in Strays : Drop(x)
  <2>1. PICK x \in Strays : Drop(x)
    BY <1>6
  <2>2. x \in Signals \union Strays /\ 0 \in Nat /\ Put(x, 0) /\ UNCHANGED <<cur, up, restarts, at, hand>> /\ x # s
    BY <2>1, PostAssumption DEF Drop, Signals
  <2>3. Extra(s)' = Extra(s)
    BY <2>2 DEF Extra
  <2> HIDE DEF Extra
  <2> QED  BY <1>2, <2>2, <2>3, OthersFile
<1>7. CASE Ring
  <2>1. PICK r \in ringing : Put(r, 0)
    BY <1>7 DEF Ring
  <2>2. r \in Signals /\ 0 \in Nat /\ stamp[r] = 0 /\ UNCHANGED <<cur, up, restarts, at, hand>>
    BY <1>2, <1>7 DEF Ring, TypeOK, Signals, Unrung
  <2>3. Extra(s)' = Extra(s)
    BY <2>2 DEF Extra
  <2> HIDE DEF Extra
  <2> QED  BY <1>2, <2>1, <2>2, <2>3, FirstFile, OthersFile
<1>8. CASE Copy
  <2>1. CASE s = hand.sig
    BY <1>2, <1>8, <2>1, CopyIsOneMore
  <2>2. CASE s # hand.sig
    <3>1. /\ hand \in File /\ hand.sig \in Signals \union Strays /\ hand.tries + 1 \in Nat
          /\ Put(hand.sig, hand.tries + 1) /\ UNCHANGED <<cur, up, restarts, hand>>
      BY <1>2, <1>8, PeopleAreSignals DEF Copy, CopyIsOwed, HandFits, TypeOK, File
    <3>2. Extra(s)' = Extra(s)
      BY <2>2, <3>1 DEF Extra
    <3> HIDE DEF Extra
    <3> QED  BY <1>2, <2>2, <3>1, <3>2, OthersFile
  <2> QED  BY <2>1, <2>2
<1>9. CASE Ack
  <2>1. CASE s = hand.sig
    BY <1>2, <1>9, <2>1, AckIsOneLess
  <2>2. CASE s # hand.sig
    <3>1. UNCHANGED <<new, stamp, up, restarts>> /\ cur' \subseteq cur
      BY <1>9 DEF Ack
    <3>2. FilesOf(s)' \subseteq FilesOf(s)
      BY <3>1 DEF FilesOf
    <3>3. Extra(s) = 0 /\ Deaths' = Deaths
      BY <2>2, <3>1 DEF Extra, Deaths
    <3> HIDE DEF FilesOf, Deaths, Extra
    <3>4. Deaths + Extra(s) <= Deaths' + Extra(s)'
      BY <1>3, <1>4, <3>3
    <3> QED  BY <1>2, <3>1, <3>2, <3>4, NoMoreFiles
  <2> QED  BY <2>1, <2>2
<1>10. CASE Crash
  <2>1. UNCHANGED <<new, cur, stamp, restarts>> /\ up /\ ~up'
    BY <1>10 DEF Crash
  <2>2. FilesOf(s)' \subseteq FilesOf(s)
    BY <2>1 DEF FilesOf
  <2>3. Deaths' = Deaths + 1
    BY <2>1 DEF Deaths
  <2> HIDE DEF FilesOf, Deaths, Extra
  <2>4. Deaths + Extra(s) <= Deaths' + Extra(s)'
    BY <1>3, <1>4, <2>3
  <2> QED  BY <1>2, <2>1, <2>2, <2>4, NoMoreFiles
<1>11. CASE \/ TakeDue \/ Pop \/ NothingWaits \/ ReadSignal \/ SkipStray \/ Close \/ Abandon
            \/ GiveBack \/ Open \/ Tick \/ AlarmAction \/ UNCHANGED vars
  <2>1. /\ UNCHANGED stamp /\ new' \union cur' \subseteq new \union cur
        /\ (at = "ack" => at' = "ack" /\ hand' = hand)
        /\ Open \/ UNCHANGED <<up, restarts>>
    <3>1. CASE TakeDue \/ NothingWaits \/ ReadSignal \/ Close \/ Abandon \/ Tick \/ UNCHANGED vars
      BY <3>1 DEF TakeDue, NothingWaits, ReadSignal, Close, Abandon, InHand, Tick, vars
    <3>2. CASE Pop \/ SkipStray
      BY <1>2, <3>2 DEF Pop, SkipStray
    <3>3. CASE GiveBack \/ Open
      BY <1>2, <3>3 DEF GiveBack, Open, HandFits
    <3>4. CASE AlarmAction
      BY <3>4 DEF AlarmAction, Add, Cancel
    <3> QED  BY <1>11, <3>1, <3>2, <3>3, <3>4
  <2>2. FilesOf(s)' \subseteq FilesOf(s)
    BY <2>1 DEF FilesOf
  <2>3. Extra(s) <= Extra(s)'
    BY <2>1 DEF Extra
  <2>4. Deaths' = Deaths
    <3>1. CASE Open
      <4>1. restarts \in Nat /\ restarts' = restarts + 1 /\ ~up /\ up'
        BY <1>2, <3>1 DEF Open, TypeOK
      <4> QED  BY <4>1 DEF Deaths
    <3>2. CASE UNCHANGED <<up, restarts>>
      BY <3>2 DEF Deaths
    <3> QED  BY <2>1, <3>1, <3>2
  <2> HIDE DEF FilesOf, Deaths, Extra
  <2>5. Deaths + Extra(s) <= Deaths' + Extra(s)'
    BY <1>3, <1>4, <2>3, <2>4
  <2> QED  BY <1>2, <2>1, <2>2, <2>5, NoMoreFiles
<1> QED  BY <1>5, <1>6, <1>7, <1>8, <1>9, <1>10, <1>11 DEF Next, World, Hub, Lifecycle

LEMMA CopiesInit == Init => CopiesInv
<1> SUFFICES ASSUME Init PROVE CopiesInv
  OBVIOUS
<1>1. Unrung
  BY DEF Init, Unrung
<1>2. TypeOK
  BY InvInit DEF Inv
<1>3. ASSUME NEW s \in Signals PROVE Delivered(s)
  <2>1. FilesOf(s) = {} /\ IsFiniteSet({}) /\ Cardinality({}) = 0
    BY FS_EmptySet DEF Init, FilesOf
  <2>2. Deaths \in Nat /\ Extra(s) \in Nat
    BY <1>2, DeathsNat DEF Extra
  <2> HIDE DEF FilesOf, Deaths, Extra
  <2> QED  BY <2>1, <2>2 DEF Delivered
<1> QED  BY <1>1, <1>3, AlarmInit, PatienceInit DEF CopiesInv

\* Delivery is at least once (inbox.rs:13), and more than once only by what the crashes leave
\* behind: whenever the core is in no handler a signal, an alarm's ringing too, is in at most one
\* file more than the core has died.
THEOREM FewCopies == Spec => []CopiesBounded
<1>1. CopiesInv => CopiesBounded
  <2> SUFFICES ASSUME CopiesInv, up, at = "free", NEW s \in Signals
               PROVE  Cardinality(FilesOf(s)) <= 1 + restarts
    BY DEF CopiesBounded
  <2>1. Deaths = restarts /\ Extra(s) = 0 /\ restarts \in Nat
    BY DEF Deaths, Extra, CopiesInv, AlarmInv, Inv, TypeOK
  <2>2. IsFiniteSet(FilesOf(s)) /\ Cardinality(FilesOf(s)) <= 1 + Deaths + Extra(s)
    BY DEF CopiesInv, Delivered
  <2> HIDE DEF FilesOf, Deaths, Extra
  <2> QED  BY <2>1, <2>2
<1> QED  BY <1>1, CopiesInit, CopiesStep, PTL DEF Spec

-----------------------------------------------------------------------------
(* Alarms: each time one fell due is in one place.                         *)

LEMMA DueIsUnrung == ASSUME CopiesInv, NEW r \in Rings, r \in Falls(alarms, clock)
                     PROVE  r \notin ringing /\ ~(stamp[r] > 0)
<1>1. PICK a \in alarms : r = <<a.id, a.fires + 1>>
  BY DEF Falls, Due
<1>2. a.fires \in Nat /\ a.fires + 1 \in 1..MaxFires
  BY <1>1 DEF Rings, CopiesInv, AlarmInv, Inv, TypeOK, Alarm
<1>3. stamp[r] = 0 /\ r \notin ringing
  BY <1>1, <1>2 DEF CopiesInv, Unrung
<1> QED  BY <1>3

\* Unless it is cancelled, each time an alarm falls due is due on the schedule, in the hands of
\* next_duty or with its signal in the inbox, and in one of them only; those in hand are in the
\* inbox before a signal is taken, or gone with the core that died (hub.rs next_duty).
THEOREM AlarmsReachTheInbox == Spec => []AlarmsArrive
<1>1. CopiesInv => AlarmsArrive
  <2> SUFFICES ASSUME CopiesInv PROVE AlarmsArrive
    OBVIOUS
  <2>1. /\ at # "ring" => ringing = {}
        /\ owed \subseteq Rings /\ Somewhere /\ Unrung
    BY DEF CopiesInv, AlarmInv, RingsOnlyThere, Inv, TypeOK
  <2>2. \A r \in owed : r \in Falls(alarms, clock) => r \notin ringing /\ ~(stamp[r] > 0)
    BY <2>1, DueIsUnrung
  <2>3. \A r \in ringing : ~(stamp[r] > 0)
    BY <2>1 DEF Unrung
  <2> QED  BY <2>1, <2>2, <2>3 DEF AlarmsArrive, Somewhere
<1> QED  BY <1>1, CopiesInit, CopiesStep, PTL DEF Spec

=============================================================================
