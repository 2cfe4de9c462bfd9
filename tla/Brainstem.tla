----------------------------- MODULE Brainstem -----------------------------
(***************************************************************************)
(* The brainstem of core/src/brainstem.rs: what the creature is doing, and *)
(* the one pure function that says what a stimulus does about that.        *)
(*                                                                         *)
(* A stem is a record; Feel(b, s) is the stem after the stimulus s, and    *)
(* Reflex(b, s) is what the caller is told to do about it.  The hub feeds  *)
(* it, so it has no specification of its own: Turns.tla gives it one.      *)
(***************************************************************************)
EXTENDS Naturals

CONSTANT Saturation     \* the largest value of `unanswered`, u32::MAX in the code

ASSUME SaturationAssumption == Saturation \in Nat \ {0}

-----------------------------------------------------------------------------
InATurn  == {"thinking", "working"}
Asleep   == {"napping", "sleeping"}
Free     == {"idle", "listening"}
Doing    == {"waking", "stopping"} \union Free \union InATurn \union Asleep

Stimuli == {"brain_up", "brain_down", "arrived_person", "arrived_other",
            "asked_work", "asked_thought", "turn_began", "turn_ended",
            "tool_called", "tool_returned", "nap_began", "night_began",
            "sleep_ended", "nudged", "spoke", "stop"}

Asks == {"asked_work", "asked_thought"}

Stem == [state      : Doing,
         before     : Doing \union {"none"},
         pass       : {"none", "nap", "night"},
         unanswered : 0..Saturation]

\* Every creature starts here, on every start.
NewStem == [state |-> "waking", before |-> "none", pass |-> "none", unanswered |-> 0]

-----------------------------------------------------------------------------
(* What is true whatever it is doing: a person's word clears the count of  *)
(* unanswered nudges, a nudge raises it (saturating_add).                  *)
Count(b, s) ==
    IF s = "spoke" THEN 0
    ELSE IF s = "nudged" /\ b.unanswered < Saturation THEN b.unanswered + 1
    ELSE b.unanswered

\* Where it goes when it becomes free: warm unless nudges went unanswered.
Settled(unanswered) == IF unanswered > 0 THEN "idle" ELSE "listening"

AfterSleepSlip(b) == "none"      \* read after it was taken

\* What it was doing before a pass; a turn is never gone back to.
AfterSleep(b) ==
    IF b.before \in InATurn \union {"none"} THEN "listening" ELSE b.before

(* The table of brainstem.rs, one group per state, each the arms that      *)
(* change something; any other pair leaves the stem as Count left it.      *)
WhenWaking(b, s) ==
    IF s = "brain_up" THEN [b EXCEPT !.state = Settled(b.unanswered)] ELSE b

WhenAsleep(b, s) ==
    CASE s = "sleep_ended" ->
            [b EXCEPT !.state = AfterSleep(b), !.before = "none", !.pass = "none"]
      [] s = "brain_down"  -> [b EXCEPT !.state = "waking", !.pass = "none"]
      [] OTHER             -> b

WhenInATurn(b, s) ==
    CASE s = "tool_called"   -> [b EXCEPT !.state = "working"]
      [] s = "tool_returned" -> [b EXCEPT !.state = "thinking"]
      [] s = "turn_ended"    -> [b EXCEPT !.state = Settled(b.unanswered)]
      [] s = "brain_down"    -> [b EXCEPT !.state = "waking"]
      [] OTHER               -> b

WhenFree(b, s) ==
    CASE s = "turn_began"     -> [b EXCEPT !.state = "thinking"]
      [] s = "nap_began"      -> [b EXCEPT !.before = b.state, !.pass = "nap",
                                           !.state = "napping"]
      [] s = "night_began"    -> [b EXCEPT !.before = b.state, !.pass = "night",
                                           !.state = "sleeping"]
      [] s = "brain_down"     -> [b EXCEPT !.state = "waking"]
      [] s = "arrived_person" -> [b EXCEPT !.state = "listening", !.unanswered = 0]
      [] s = "spoke"          -> [b EXCEPT !.state = "listening"]
      [] s = "nudged"         -> [b EXCEPT !.state = "idle"]
      [] OTHER                -> b

Feel(b, s) ==
    LET c == [b EXCEPT !.unanswered = Count(b, s)] IN
    IF s = "stop" THEN [b EXCEPT !.state = "stopping"]
    ELSE CASE b.state = "waking"    -> WhenWaking(c, s)
           [] b.state \in Asleep    -> WhenAsleep(c, s)
           [] b.state \in InATurn   -> WhenInATurn(c, s)
           [] b.state \in Free      -> WhenFree(c, s)
           [] OTHER                 -> c            \* stopping: nothing wakes it

(* An inner thought may be begun beside a turn, the next turn may not; a    *)
(* creature that is stopping answers every later question with "nothing". *)
Reflex(b, s) ==
    IF s = "stop" THEN "halt"
    ELSE IF s \notin Asks \/ b.state = "stopping" THEN "nothing"
    ELSE IF b.state \in Free \/ (b.state \in InATurn /\ s = "asked_thought")
         THEN "begin"
    ELSE "rest"
=============================================================================
