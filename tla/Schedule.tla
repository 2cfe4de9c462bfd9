------------------------------ MODULE Schedule ------------------------------
(***************************************************************************)
(* The alarms of core/src/store/schedule.rs: when a new one first goes     *)
(* off, which ones are due, and what becomes of them.  Post.tla keeps them *)
(* in a file and turns the due ones into signals.                          *)
(*                                                                         *)
(* A time of day is a moment modulo Day; the local offset is left out.  A  *)
(* text that says when is what it reads as: a form and a number.           *)
(***************************************************************************)
EXTENDS Integers

CONSTANTS AlarmIds,
          Day          \* how many moments a day has

ASSUME ScheduleAssumption == Day \in Nat \ {0}

\* An alarm goes off once, every so often, or at a time of day.
Kinds   == {"once", "every", "daily"}
Repeats == [kind : Kinds, of : Nat]

Alarm == [id : AlarmIds, when : Nat, repeat : Repeats, fires : Nat]

\* What can be asked for: nothing that can be read, a stretch of time, a time of day, every day
\* at one, or a moment; a number below nothing is there for what the parsers turn down.
Word == [form : {"none", "delay", "hour", "daily", "stamp"}, n : Int]

-----------------------------------------------------------------------------
\* The next such time of day strictly after a moment: today's, or tomorrow's if it is past.
NextDaily(hour, after) ==
    LET today == (after - (after % Day)) + hour
    IN  IF today <= after THEN today + Day ELSE today

(* What a parser makes of a word: a set of one, or none.                   *)

\* A delay of nothing is a real instruction, "now".
ParseDelay(w) == {d \in {w.n} : w.form = "delay" /\ d >= 0}

\* There is no 24:00.
ParseHour(form, w) == {h \in {w.n} : w.form = form /\ h \in 0..(Day - 1)}

\* An interval or a time of day, never both; what is neither does not repeat.
ParseRepeat(w) ==
    IF ParseHour("daily", w) # {} THEN [kind |-> "daily", of |-> w.n]
    ELSE IF ParseDelay(w) # {} THEN [kind |-> "every", of |-> w.n] ELSE [kind |-> "once", of |-> 0]

\* A plain number is a moment only if it is as large as one.
ParseWhen(w, now) ==
    {now + d : d \in ParseDelay(w)} \union {NextDaily(h, now) : h \in ParseHour("hour", w)}
        \union {t \in {w.n} : w.form = "stamp" /\ t >= 0}

-----------------------------------------------------------------------------
LaterSlip(when, every, now) == when + every      \* the whole backlog is fired

\* The first repeat after now: what was missed is skipped, the phase is kept.
Later(when, every, now) == when + every * (1 + (now - when) \div every)

\* When an alarm set now first goes off: `at` holds the moment asked for, if there was one.
First(now, at, repeat) ==
    IF at # {} THEN CHOOSE t \in at : TRUE
    ELSE IF repeat.kind = "daily" THEN NextDaily(repeat.of, now) ELSE now + repeat.of

\* Every alarm is enabled: it is made so, and nothing but a test or an edited file turns one off.
Due(all, now) == {a \in all : a.when <= now}

\* The alarm after it has fired, if it goes off again.
Again(a, now) ==
    LET at(t) == {[a EXCEPT !.when = t, !.fires = @ + 1]} IN
    CASE a.repeat.kind = "every" /\ a.repeat.of > 0 -> at(Later(a.when, a.repeat.of, now))
      [] a.repeat.kind = "daily"                    -> at(NextDaily(a.repeat.of, now))
      [] OTHER                                      -> {}

Kept(all, now) == (all \ Due(all, now)) \union UNION {Again(a, now) : a \in Due(all, now)}
=============================================================================
