------------------------------- MODULE MCPost -------------------------------
(***************************************************************************)
(* A small instance of Post for TLC.                                       *)
(***************************************************************************)
EXTENDS Post

CONSTANTS m1, a1, a2, s1

OneMessage == {m1}
TwoAlarms == {a1, a2}
OneStray == {s1}
WordsOfInterest ==
    [form : {"none"}, n : {0}] \union [form : {"delay"}, n : {-1, 0, 1, 2}]
        \union [form : {"hour", "daily"}, n : {1, 2}] \union [form : {"stamp"}, n : {-1, 0, 1}]
EachOrBoth == {{a1}, {a2}, {a1, a2}}

\* Whether the alarm is or was on the schedule.
Known(id) == \/ \E a \in alarms : a.id = id
             \/ \E n \in 1..MaxFires : <<id, n>> \in ringing \/ stamp[<<id, n>>] > 0

\* Bounds on what happens beside a second alarm: it comes after the first, with no unreadable
\* file, no failed turn, and no alarm that repeats every two moments.
SecondAlarmIsBounded == Known(a2) =>
    /\ Known(a1)
    /\ \A s \in Strays : stamp[s] = 0
    /\ \A s \in Signals : tried[s] = 0
    /\ \A a \in alarms : a.repeat.kind = "every" => a.repeat.of = 1

BoundedSpec == Init /\ [][Next /\ SecondAlarmIsBounded']_vars
=============================================================================
