------------------------------- MODULE Learning -------------------------------
(***************************************************************************)
(* How a day becomes weights (src/neuro): the passes the core runs between *)
(* turns, each a process of its own that feels the turns that have ended,  *)
(* harvests samples from them and asks the brain for the rest, and the     *)
(* brain, one worker behind a queue, that practises the samples into an    *)
(* overlay and merges it into the base or drops it.                        *)
(*                                                                         *)
(* The core and the brain live in one container: when one goes all goes,   *)
(* and what is on the disk is what there is.  A pass is stopped at its     *)
(* limit; what it has asked of the brain stays asked.  When a pass is due  *)
(* is in Turns.                                                            *)
(***************************************************************************)
EXTENDS Integers, FiniteSets, SequencesExt

CONSTANTS FeelLimit, LookBack,     \* turns felt in one pass; exchanges read back
          NapMax, NightMax,        \* samples practised by a nap and by a night
          Gaps,                    \* how much later than the last a turn may start
          MaxTurns, MaxGenerations, MaxMishaps   \* bounds: turns, generations, things that go wrong

ASSUME LearningAssumption ==
  /\ {FeelLimit, LookBack, NapMax, NightMax} \subseteq Nat \ {0} /\ Gaps \subseteq Nat \ {0}
  /\ {MaxTurns, MaxGenerations, MaxMishaps} \subseteq Nat

VARIABLES turns,    \* the turns table: when each started and how it ended
          convo,    \* the conversation by exchange: whose it is, when, and who had the last word
          felt,     \* the feelings table: the turns felt, and those worth imitating
          mark,     \* hippocampus.json: the newest start among the turns harvested
          files,    \* the training sets
          cursor,   \* cursor.json: how many lines of each set have been consumed
          pass,     \* the process of a pass, or NoPass
          queue,    \* what the brain has been asked for, in the order it will be done
          worker,   \* what the brain is doing, and what it took for it
          mem,      \* the weights it answers from: what is in the base, and in the overlay
          disk,     \* and those on disk
          generations, mishaps
day == <<turns, convo>>
sets == <<files, cursor>>
brain == <<queue, worker, mem, disk>>
bounds == <<generations, mishaps>>
vars == <<day, felt, mark, sets, pass, brain, bounds>>

Unknown == [known |-> FALSE, overlay |-> {}]
NoPass == [steps |-> <<>>, rows |-> {}, newest |-> 0, before |-> FALSE, after |-> Unknown, limit |-> 0]
Idle == [at |-> "idle", job |-> [kind |-> "none", priority |-> 0, mine |-> FALSE, limit |-> 0, seen |-> Unknown], took |-> <<>>]

Init ==
  /\ turns = <<>> /\ convo = <<>> /\ felt = {} /\ mark = 0
  /\ files = [s \in {"actions", "conversation"} |-> <<>>] /\ cursor = [s \in {"actions", "conversation"} |-> 0]
  /\ pass = NoPass /\ queue = <<>> /\ worker = Idle
  /\ mem = [base |-> {}, overlay |-> {}] /\ disk = [there |-> TRUE, base |-> {}, overlay |-> {}]
  /\ generations = 0 /\ mishaps = 0

Mishap == mishaps < MaxMishaps /\ mishaps' = mishaps + 1 /\ UNCHANGED generations

-------------------------------------------------------------------------------
(* The day: turns, and what the conversation keeps of them *)

\* A turn ends with an answer, is set down with the core's word in its place, fails and is
\* tried again at once, or is left open by a core that died.
Outcomes == {"answered", "silent", "set_down", "again", "open"}
Completed(t) == turns[t].outcome \in {"answered", "silent"}

\* What came in is written by the first attempt, and only by that: the answer of a later one
\* goes under it.
TakeTurn ==
  /\ pass = NoPass /\ Len(turns) < MaxTurns
  /\ \E gap \in Gaps, outcome \in Outcomes :
       LET t == Len(turns) + 1
           at == gap + (IF turns = <<>> THEN 0 ELSE Last(turns).at)
           retried == turns # <<>> /\ Last(turns).outcome = "again"
           under == IF retried THEN convo ELSE Append(convo, [turn |-> t, at |-> at, last |-> 0])
       IN  /\ turns' = Append(turns, [at |-> at, outcome |-> outcome])
           /\ convo' = IF outcome \in {"answered", "set_down"} THEN [under EXCEPT ![Len(under)].last = t] ELSE under
  /\ UNCHANGED <<felt, mark, sets, pass, brain, bounds>>

Distance(e, t) == IF e.at > turns[t].at THEN e.at - turns[t].at ELSE turns[t].at - e.at

\* The exchanges that are read back, and the exchange of a turn: the one that names it, or else the nearest in time.
ReadBack == {i \in DOMAIN convo : i > Len(convo) - LookBack}
ForTurn(t) ==
  LET named == {i \in ReadBack : convo[i].turn = t}
      nearest == {i \in ReadBack : \A j \in ReadBack : Distance(convo[i], t) <= Distance(convo[j], t)}
      first(S) == CHOOSE i \in S : \A j \in S : i <= j
  IN  IF convo = <<>> THEN [turn |-> 0, at |-> 0, last |-> 0]
      ELSE convo[first(IF named # {} THEN named ELSE nearest)]

-------------------------------------------------------------------------------
(* A pass *)

\* The night that measures before it has practised.
StepsSlip(name) == IF name = "nap" THEN <<"feel", "harvest", "train">>
                   ELSE <<"feel", "harvest", "probe_before", "probe_after", "train", "merge">>
Steps(name) == IF name = "nap" THEN <<"feel", "harvest", "train">>
               ELSE <<"feel", "harvest", "probe_before", "train", "probe_after", "merge">>

StartPass ==
  /\ pass = NoPass
  /\ \E name \in {"nap", "night"} :
       pass' = [NoPass EXCEPT !.steps = Steps(name), !.limit = IF name = "nap" THEN NapMax ELSE NightMax]
  /\ UNCHANGED <<day, felt, mark, sets, brain, bounds>>

At(step) == pass # NoPass /\ pass.steps # <<>> /\ Head(pass.steps) = step
Onto(step) == [pass EXCEPT !.steps = <<step>> \o Tail(@)]
Advance(p) == [p EXCEPT !.steps = Tail(@), !.rows = {}]

EndPass ==
  /\ pass # NoPass /\ pass.steps = <<>> /\ pass' = NoPass
  /\ UNCHANGED <<day, felt, mark, sets, brain, bounds>>

\* A turn that was left open has no end, and is never felt.
Unscored == {t \in DOMAIN turns : turns[t].outcome # "open" /\ \A f \in felt : f.turn # t}
FirstOf(S, n) == {t \in S : Cardinality({u \in S : u < t}) < n}

Feel ==
  /\ At("feel") /\ pass' = [Onto("feeling") EXCEPT !.rows = FirstOf(Unscored, FeelLimit)]
  /\ UNCHANGED <<day, felt, mark, sets, brain, bounds>>

\* One row and one commit for each turn, the oldest first.  A turn that was not completed is
\* worth nothing, and how one without an answer felt is of no use; whether an answer felt good
\* enough to imitate, by the flags, the sensors and the judge, is anybody's guess.
Felt ==
  /\ At("feeling") /\ UNCHANGED <<day, mark, sets, brain, bounds>>
  /\ \/ pass.rows = {} /\ pass' = Advance(pass) /\ UNCHANGED felt
     \/ \E t \in pass.rows :
          /\ \A u \in pass.rows : t <= u
          /\ pass' = [pass EXCEPT !.rows = @ \ {t}]
          /\ \E good \in {FALSE, turns[t].outcome = "answered"} : felt' = felt \union {[turn |-> t, good |-> good]}

\* What a turn is worth practising: the exchange as an example if it went well, and the answer
\* as a decision however it went.
Samples(t) ==
  LET e == ForTurn(t)
      sets_of == {"actions"} \union (IF [turn |-> t, good |-> TRUE] \in felt THEN {"conversation"} ELSE {})
  IN  IF e.last = 0 THEN {} ELSE {[set |-> s, turn |-> t, words |-> e.last] : s \in sets_of}

Harvest ==
  /\ At("harvest") /\ UNCHANGED <<day, felt, mark, sets, brain, bounds>>
  /\ LET rows == {t \in DOMAIN turns : Completed(t) /\ turns[t].at > mark /\ \E f \in felt : f.turn = t}
     IN  \/ rows = {} /\ pass' = Advance(pass)
         \/ \E last \in rows :
              /\ \A u \in rows : u <= last
              /\ pass' = [Onto("harvesting") EXCEPT !.newest = turns[last].at, !.rows = UNION {Samples(t) : t \in rows}]

\* Turn by turn, the example before the decision.
IsNext(x) == \A y \in pass.rows : x.turn < y.turn \/ (x.turn = y.turn /\ (x.set = "conversation" \/ x = y))
Write(x) == pass' = [pass EXCEPT !.rows = @ \ {x}] /\ files' = [files EXCEPT ![x.set] = Append(@, x)]

\* The mark moved with the first sample, before the rest are written.
HarvestedSlip ==
  /\ At("harvesting") /\ UNCHANGED <<day, felt, cursor, brain, bounds>> /\ mark' = pass.newest
  /\ \/ pass.rows = {} /\ pass' = Advance(pass) /\ UNCHANGED files
     \/ \E x \in pass.rows : IsNext(x) /\ Write(x)
\* Every sample is on the disk before the mark moves past its turn.
Harvested ==
  /\ At("harvesting") /\ UNCHANGED <<day, felt, cursor, brain, bounds>>
  /\ \/ pass.rows = {} /\ pass' = Advance(pass) /\ mark' = pass.newest /\ UNCHANGED files
     \/ \E x \in pass.rows : IsNext(x) /\ Write(x) /\ UNCHANGED mark

-------------------------------------------------------------------------------
(* Asking the brain *)

\* A person's turn at 0, an inner thought at 2, learning at 8; among equals the first asked.
Enqueue(q, job) ==
  LET ahead == Cardinality({i \in DOMAIN q : q[i].priority <= job.priority}) IN InsertAt(q, ahead + 1, job)

Submit(kind, step) ==
  /\ queue' = Enqueue(queue, [kind |-> kind, priority |-> 8, mine |-> TRUE, limit |-> pass.limit, seen |-> pass.after])
  /\ pass' = Onto(step) /\ UNCHANGED <<day, felt, mark, sets, worker, mem, disk, bounds>>

AskTrain == At("train") /\ Submit("train", "training")
AskProbe == \/ At("probe_before") /\ Submit("probe", "probing_before")
            \/ At("probe_after") /\ Submit("probe", "probing_after")

\* Made permanent unless both measurements were had and say that it got worse.
AskMerge ==
  /\ At("merge")
  /\ \/ Submit("consolidate", "merging")
     \/ pass.before /\ pass.after.known /\ Submit("discard", "merging")

\* What the pass makes of an answer; an error leaves it as wise as before.
Answered(p, seen) ==
  Advance(CASE Head(p.steps) = "probing_before" -> [p EXCEPT !.before = seen.known]
            [] Head(p.steps) = "probing_after" -> [p EXCEPT !.after = IF p.before THEN seen ELSE Unknown]
            [] OTHER -> p)

\* Somebody else's request: an inner thought that was already at work.  One that finds the
\* brain free is over before anything else is asked.
Generate ==
  /\ worker # Idle /\ generations < MaxGenerations /\ generations' = generations + 1
  /\ queue' = Enqueue(queue, [kind |-> "generate", priority |-> 2, mine |-> FALSE, limit |-> 0, seen |-> Unknown])
  /\ UNCHANGED <<day, felt, mark, sets, pass, worker, mem, disk, mishaps>>

-------------------------------------------------------------------------------
(* The brain: one job at a time *)

FirstStep(kind) == CASE kind = "generate" -> "generate" [] kind = "probe" -> "probe" [] kind = "train" -> "practise"
                     [] kind = "consolidate" -> "merge" [] kind = "discard" -> "drop"

Take ==
  /\ worker = Idle /\ queue # <<>> /\ queue' = Tail(queue)
  /\ worker' = [Idle EXCEPT !.at = FirstStep(Head(queue).kind), !.job = Head(queue)]
  /\ UNCHANGED <<day, felt, mark, sets, pass, mem, disk, bounds>>

Doing(step) == worker.at = step
Then(step) == worker' = [worker EXCEPT !.at = step] /\ UNCHANGED pass
Reply(seen) == worker' = Idle /\ pass' = IF worker.job.mine THEN Answered(pass, seen) ELSE pass

\* Unconsumed samples, the sets by name and each from its cursor, as many as asked for.
Pending(limit) ==
  LET left(s) == SubSeq(files[s], cursor[s] + 1, Len(files[s]))
      all == left("actions") \o left("conversation")
  IN  SubSeq(all, 1, IF Len(all) < limit THEN Len(all) ELSE limit)

Speak ==
  /\ Doing("generate") /\ Reply(Unknown)
  /\ UNCHANGED <<day, felt, mark, sets, queue, mem, disk, bounds>>

Probe ==
  /\ Doing("probe") /\ Reply([known |-> TRUE, overlay |-> mem.overlay])
  /\ UNCHANGED <<day, felt, mark, sets, queue, mem, disk, bounds>>

Practise ==
  /\ Doing("practise") /\ UNCHANGED <<day, felt, mark, sets, queue, disk, bounds>>
  /\ LET took == Pending(worker.job.limit)
     IN  IF took = <<>> THEN Reply(Unknown) /\ UNCHANGED mem
         ELSE /\ worker' = [worker EXCEPT !.at = "mark", !.took = took] /\ UNCHANGED pass
              /\ mem' = [mem EXCEPT !.overlay = @ \union Range(took)]

\* The cursor left on the last line instead of past it.
MarkedSlip(s) == LET n == Len(SelectSeq(worker.took, LAMBDA x : x.set = s)) IN cursor[s] + (IF n = 0 THEN 0 ELSE n - 1)
\* The cursor of a set moves past what was practised of it; one set after the other.
Marked(s) == cursor[s] + Len(SelectSeq(worker.took, LAMBDA x : x.set = s))
MarkConsumed ==
  /\ Doing("mark") /\ UNCHANGED <<day, felt, mark, files, pass, queue, mem, disk, bounds>>
  /\ \E s \in {x.set : x \in Range(worker.took)} :
       LET rest == SelectSeq(worker.took, LAMBDA x : x.set # s)
       IN  /\ cursor' = [cursor EXCEPT ![s] = Marked(s)]
           /\ worker' = [worker EXCEPT !.took = rest, !.at = IF rest = <<>> THEN "save" ELSE "mark"]

Save ==
  /\ Doing("save") /\ disk' = [disk EXCEPT !.overlay = mem.overlay] /\ Reply(Unknown)
  /\ UNCHANGED <<day, felt, mark, sets, queue, mem, bounds>>

\* The merged base is written beside the old one, which is moved out of its way; then the
\* overlay, which is in the base now, is removed.
Merge ==
  /\ UNCHANGED <<day, felt, mark, sets, queue, bounds>>
  /\ \/ Doing("merge") /\ Then("out") /\ mem' = [base |-> mem.base \union mem.overlay, overlay |-> {}] /\ UNCHANGED disk
     \/ Doing("out") /\ Then("in") /\ disk' = [disk EXCEPT !.there = FALSE] /\ UNCHANGED mem
     \/ Doing("in") /\ Then("clear") /\ disk' = [disk EXCEPT !.there = TRUE, !.base = mem.base] /\ UNCHANGED mem
     \/ Doing("clear") /\ Then("save") /\ disk' = [disk EXCEPT !.overlay = {}] /\ UNCHANGED mem

Drop ==
  /\ Doing("drop") /\ Then("save") /\ mem' = [mem EXCEPT !.overlay = {}] /\ disk' = [disk EXCEPT !.overlay = {}]
  /\ UNCHANGED <<day, felt, mark, sets, queue, bounds>>

-------------------------------------------------------------------------------
(* What goes wrong *)

\* A job fails, in practising after any number of its steps, in saving before anything is written;
\* the brain goes on to the next.  A failure inside consolidate, once merge_and_unload has taken
\* the overlay out of the model, is left out: what is then in memory is the library's to say.
JobFails ==
  /\ Mishap /\ worker.at \in {"generate", "probe", "practise", "save", "merge", "drop"} /\ Reply(Unknown)
  /\ IF Doing("practise")
     THEN \E n \in 0..Len(Pending(worker.job.limit)) :
            mem' = [mem EXCEPT !.overlay = @ \union Range(SubSeq(Pending(worker.job.limit), 1, n))]
     ELSE UNCHANGED mem
  /\ UNCHANGED <<day, felt, mark, sets, queue, disk>>

\* A pass runs past its limit and is stopped; nobody waits for its answers any more.
Stopped ==
  /\ Mishap /\ pass # NoPass /\ pass' = NoPass
  /\ queue' = [i \in DOMAIN queue |-> [queue[i] EXCEPT !.mine = FALSE]]
  /\ worker' = IF worker = Idle THEN Idle ELSE [worker EXCEPT !.job.mine = FALSE]
  /\ UNCHANGED <<day, felt, mark, sets, mem, disk>>

\* The container goes and comes back.  A brain that finds no base begins with the pretrained one.
Loaded == IF disk.there THEN [base |-> disk.base, overlay |-> disk.overlay] ELSE [base |-> {}, overlay |-> {}]
Crash ==
  /\ Mishap /\ pass' = NoPass /\ queue' = <<>> /\ worker' = Idle
  /\ mem' = Loaded /\ disk' = [there |-> TRUE, base |-> Loaded.base, overlay |-> Loaded.overlay]
  /\ UNCHANGED <<day, felt, mark, sets>>

-------------------------------------------------------------------------------
PassNext == Feel \/ Felt \/ Harvest \/ Harvested \/ AskTrain \/ AskProbe \/ AskMerge \/ EndPass
BrainNext == Take \/ Speak \/ Probe \/ Practise \/ MarkConsumed \/ Save \/ Merge \/ Drop
Next == TakeTurn \/ StartPass \/ PassNext \/ Generate \/ BrainNext \/ JobFails \/ Stopped \/ Crash

Spec == Init /\ [][Next]_vars
\* Naps and nights come round for ever, on the clock; the processes get to run.
FairSpec == Spec /\ WF_vars(StartPass) /\ WF_vars(PassNext) /\ WF_vars(BrainNext)

-------------------------------------------------------------------------------
\* A turn the harvest has gone past and whose answer stands under its own name has become a
\* decision to practise, whenever a pass was stopped or the container went (hippocampus.py:
\* "Turn everything felt since last time into samples, and remember where we got to").  It is
\* a promise about what is read back: a turn harvested only when its exchange is further down
\* (LOOKBACK) is given the words of another.
NothingForgotten ==
  \A i \in ReadBack : LET t == convo[i].turn IN
    turns[t].outcome = "answered" /\ convo[i].last = t /\ turns[t].at <= mark
      => \E k \in DOMAIN files["actions"] : files["actions"][k].turn = t

\* What a night makes permanent is what it measured: no practice of its own, of a nap or of a
\* pass that was stopped with its request still waiting comes between (learn.py: "nothing
\* becomes permanent until the two numbers have been compared").
ComparedIsMerged ==
  Doing("merge") /\ worker.job.seen.known => mem.overlay = worker.job.seen.overlay

\* Every turn that was answered is practised in the end, or at least gone past by the cursor,
\* though passes are stopped, jobs fail and the container goes.
DayIsPractised ==
  \A t \in 1..MaxTurns :
    (\E i \in DOMAIN convo : convo[i].turn = t /\ convo[i].last = t /\ turns[t].outcome = "answered")
      ~> (\E k \in 1..cursor["actions"] : files["actions"][k].turn = t)

\* What a night has merged into the base on disk stays there (learn.py: "the base on disk *is*
\* the checkpoint").  It does not when the container goes between the two renames of a merge.
MergedStays == [][disk.base \subseteq disk'.base]_vars

\* The words practised for a turn's worth are that turn's (day.py: "Matched by the turn's own
\* stamp where the journal has one").  The answer of a second attempt stands under the first,
\* and the nearest exchange in time may be the next.
SampleIsItsOwn == \A k \in DOMAIN files["actions"] : files["actions"][k].words = files["actions"][k].turn

\* Nothing is in the overlay that is in the base already.  It may be after a crash in a merge,
\* before the old overlay is removed.
NothingTwice == mem.base \intersect mem.overlay = {}

\* A restart loses nothing that the cursor has gone past.  It does between the cursor and the
\* save, as well as with the base.
Consumed == UNION {{files[s][k] : k \in 1..cursor[s]} : s \in DOMAIN files}
RestartKeepsPractice ==
  [][Crash => Consumed \intersect (mem.base \union mem.overlay) \subseteq mem'.base \union mem'.overlay]_vars
===============================================================================
