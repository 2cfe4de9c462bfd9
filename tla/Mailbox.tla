------------------------------ MODULE Mailbox ------------------------------
(***************************************************************************)
(* What the inbox promises the creature, with no core, no process and no   *)
(* file in sight: every signal is taken one at a time, and is held until   *)
(* it is settled for good or given back.  Only a person's signal is given  *)
(* back, and only so often; a crash gives back what was held, uncounted.   *)
(*                                                                         *)
(* core/src/store/inbox.rs:13 states the promise ("Delivery is at least    *)
(* once ... losing a person's message is not [survivable]"), and Turns.tla *)
(* is shown to keep it.                                                    *)
(***************************************************************************)
EXTENDS Naturals

CONSTANTS Signals, Human, MaxAttempts

VARIABLES place,     \* where each signal is
          tries      \* how often a process took it and failed to finish it

mvars == <<place, tries>>

Places == {"unsent", "waiting", "held", "settled"}

MailTypeOK == /\ place \in [Signals -> Places]
              /\ tries \in [Signals -> Nat]

At(where) == {s \in Signals : place[s] = where}

Move(S, to) == place' = [s \in Signals |-> IF s \in S THEN to ELSE place[s]]

-----------------------------------------------------------------------------
MailInit == /\ place = [s \in Signals |-> "unsent"]
            /\ tries = [s \in Signals |-> 0]

Arrive(S) == /\ S \subseteq At("unsent")
             /\ Move(S, "waiting")
             /\ UNCHANGED tries

\* What falls due and the taking of the next signal are one step of the core.
Take(s, due) ==
    /\ At("held") = {}
    /\ due \subseteq At("unsent")
    /\ s \in At("waiting") \union due
    /\ place' = [x \in Signals |-> IF x = s THEN "held"
                                   ELSE IF x \in due THEN "waiting" ELSE place[x]]
    /\ UNCHANGED tries

GiveBack(s) == /\ s \in Human \intersect At("held")
               /\ tries[s] + 1 < MaxAttempts
               /\ Move({s}, "waiting")
               /\ tries' = [tries EXCEPT ![s] = @ + 1]

Settle(s) == /\ s \in At("held")
             /\ Move({s}, "settled")
             /\ UNCHANGED tries

Recover == /\ Move(At("held"), "waiting")
           /\ UNCHANGED tries

MailNext == \/ \E S \in SUBSET Signals : Arrive(S)
            \/ \E s \in Signals, due \in SUBSET Signals : Take(s, due)
            \/ \E s \in Signals : GiveBack(s) \/ Settle(s)
            \/ Recover

MailSpec == MailInit /\ [][MailNext]_mvars
=============================================================================
