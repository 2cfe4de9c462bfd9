---------------------------------- MODULE Look ----------------------------------
(***************************************************************************)
(* Looking into what the creature did: the journal pane of the window      *)
(* (ui/src/state.rs, cards.rs, draw.rs) and the requests behind it         *)
(* (ui/src/app.rs).                                                        *)
(*                                                                         *)
(* A run is a turn of the conversation or an inner thought; its index is   *)
(* when it started, and its trace has as many steps as that.               *)
(* The connection is up or not; View.tla has what happens while it breaks. *)
(***************************************************************************)
EXTENDS Integers, Sequences, SequencesExt, FiniteSetsExt

CONSTANTS Stats,   \* STATS: turns the core lists
          Offered, \* the filters somebody tries
          Stride,  \* STRIDE: rows a held arrow moves
          Rows,    \* rows of the list the card draws at most
          MaxRuns, MaxAsks, MaxKeys, MaxNews  \* bounds: runs, requests, keys, changes to runs

Filters == {"all", "main", "inner", "failed", "commands"}

ASSUME LookAssumption ==
  /\ Offered \subseteq Filters /\ {Stats, Stride, Rows} \subseteq Nat \ {0}
  /\ {MaxRuns, MaxAsks, MaxKeys, MaxNews} \subseteq Nat


VARIABLES runs,   \* [inner, outcome] of every run there was
          win,    \* the journal pane
          pend,   \* Pending: [stats, thoughts, inside, of]
          asked,  \* requests the core has not handled, each with a task of its own
          rx,     \* what the window has yet to read
          up,     \* whether there is a connection
          next,   \* id of the next request
          left    \* keys and changes still to come

lookVars == <<runs, win, pend, asked, rx, up, next, left>>

Nobody == [stats |-> 0, thoughts |-> 0, inside |-> 0, of |-> 0]
Blank == [of |-> 0, steps |-> 0]

LookInit ==
  /\ runs = <<>>
  /\ win = [pane |-> "conversation", filter |-> "all", column |-> "runs", picked |-> 0,
            step |-> 0, opened |-> 0, inside |-> Blank, want |-> FALSE, turns |-> <<>>, rows |-> <<>>]
  /\ pend = Nobody /\ asked = {} /\ rx = <<>> /\ up = FALSE /\ next = 1
  /\ left = [key |-> MaxKeys, news |-> MaxNews]

------------------------------------------------------------------------------
(* The core: the runs it has, and what it tells of them *)

Spend(what) == left[what] > 0 /\ left' = [left EXCEPT ![what] = @ - 1]
Tell(r, status) == IF up THEN Append(rx, [name |-> "thought", of |-> r, status |-> status]) ELSE rx

StartTurn ==
  /\ Len(runs) < MaxRuns /\ UNCHANGED left
  /\ \A r \in DOMAIN runs : runs[r].outcome # "open"
  /\ runs' = Append(runs, [inner |-> FALSE, outcome |-> "open"])
  /\ UNCHANGED <<win, pend, asked, rx, up, next>>

StartThought ==
  /\ Len(runs) < MaxRuns /\ UNCHANGED left
  /\ runs' = Append(runs, [inner |-> TRUE, outcome |-> "running"])
  /\ rx' = Tell(Len(runs) + 1, "running")
  /\ UNCHANGED <<win, pend, asked, up, next>>

EndTurn(r) ==
  /\ runs[r].outcome = "open" /\ Spend("news")
  /\ \E outcome \in {"ok", "abandoned"} : runs' = [runs EXCEPT ![r].outcome = outcome]
  /\ UNCHANGED <<win, pend, asked, rx, up, next>>

Settle(r) ==
  /\ runs[r].inner /\ runs[r].outcome # "done" /\ Spend("news")
  /\ \E status \in {"running", "paused", "done"} \ {runs[r].outcome} :
       runs' = [runs EXCEPT ![r].outcome = status] /\ rx' = Tell(r, status)
  /\ UNCHANGED <<win, pend, asked, up, next>>

\* Newest first, at most Stats of them.
RecentTurns ==
  LET I == SelectSeq([i \in DOMAIN runs |-> Len(runs) + 1 - i], LAMBDA r : ~runs[r].inner)
  IN  [i \in 1..Min({Stats, Len(I)}) |-> [of |-> I[i], outcome |-> runs[I[i]].outcome]]

Handle(q) ==
  /\ q \in asked /\ UNCHANGED left /\ asked' = asked \ {q}
  /\ rx' = Append(rx, [name |-> "reply", id |-> q.id,
       v |-> CASE q.op = "stats"   -> RecentTurns
               [] q.op = "thought" -> {[of |-> r, status |-> runs[r].outcome] : r \in {i \in DOMAIN runs : runs[i].inner}}
               [] q.op = "trace"   -> [of |-> q.of, steps |-> q.of]])
  /\ UNCHANGED <<runs, win, pend, up, next>>

------------------------------------------------------------------------------
(* The pane *)

\* Every run the window knows: turns and thoughts, newest first.  A thought it has only
\* heard of in passing has no time yet and comes last.
Known(w) ==
  LET turns == {[of |-> w.turns[i].of, at |-> w.turns[i].of, inner |-> FALSE, outcome |-> w.turns[i].outcome] :
                 i \in DOMAIN w.turns}
      inner == {[of |-> w.rows[i].of, at |-> w.rows[i].at, inner |-> TRUE, outcome |-> w.rows[i].status] :
                 i \in DOMAIN w.rows}
  IN  SetToSortSeq(turns \union inner, LAMBDA a, b : a.at > b.at \/ (a.at = b.at /\ a.of < b.of))

\* A turn that is still open has no outcome and counts among the failed.
Keeps(filter, r) ==
  CASE filter = "main" -> ~r.inner
    [] filter = "inner" -> r.inner
    [] filter = "failed" -> r.outcome \notin {"ok", "done", "running"}
    [] OTHER -> TRUE

Listed(w) == LET keeps(r) == Keeps(w.filter, r) IN SelectSeq(Known(w), keeps)
PointingAt(w) == IF w.picked < Len(Listed(w)) THEN Listed(w)[w.picked + 1].of ELSE 0

Clamp(x, top) == Max({0, Min({x, top})})
Pick(w, by) ==
  CASE w.column = "runs" /\ Listed(w) # <<>> ->
         [w EXCEPT !.picked = Clamp(@ + by, Len(Listed(w)) - 1), !.step = 0, !.want = TRUE]
    [] w.column = "steps" /\ w.inside.steps > 0 ->
         [w EXCEPT !.step = Clamp(@ + by, w.inside.steps - 1)]
    [] OTHER -> w

Right(c) == IF c = "runs" THEN "steps" ELSE "body"
LeftOf(c) == IF c = "body" THEN "steps" ELSE "runs"

\* The row the list is drawn from.
From(picked, tall) == Max({0, picked - Max({tall - 3, 1})})
Drawn(w, tall) == From(w.picked, tall)..(Min({From(w.picked, tall) + tall, Rows, Len(Listed(w))}) - 1)

\* What the second column holds: the inside of the run pointed at, and of no other.
StepsShown(w) ==
  IF PointingAt(w) = 0 THEN "nothing to look into"
  ELSE IF w.opened # PointingAt(w) THEN "reading it"
  ELSE IF w.inside.steps = 0 THEN "nothing was traced" ELSE "steps"

------------------------------------------------------------------------------
(* The loop, and what is asked for *)
Ask(ids) == asked' = asked \union ids /\ next' = next + Cardinality(ids)

\* A new connection numbers its requests from the start again; here they go on, which tells the
\* same story, since Gone has forgotten every request of the connection before.
Connect ==
  /\ ~up /\ next + 2 <= MaxAsks
  /\ up' = TRUE
  /\ Ask({[op |-> "stats", id |-> next, of |-> 0], [op |-> "thought", id |-> next + 1, of |-> 0]})
  /\ pend' = [pend EXCEPT !.stats = next, !.thoughts = next + 1]
  /\ UNCHANGED <<runs, win, rx, left>>

Gone ==
  /\ up /\ up' = FALSE
  /\ pend' = Nobody /\ asked' = {} /\ rx' = <<>>
  /\ UNCHANGED <<runs, win, next, left>>

\* The journal points at a run nobody has read: forget the old one and ask for its trace.
AskInside ==
  LET r == PointingAt(win)
  IN  /\ win.want
      /\ IF up /\ r # 0 /\ win.opened # r
         THEN /\ next <= MaxAsks
              /\ win' = [win EXCEPT !.want = FALSE, !.inside = Blank, !.opened = 0]
              /\ Ask({[op |-> "trace", id |-> next, of |-> r]})
              /\ pend' = [pend EXCEPT !.inside = next, !.of = r]
         ELSE win' = [win EXCEPT !.want = FALSE] /\ UNCHANGED <<asked, next, pend>>
      /\ UNCHANGED <<runs, rx, up, left>>

\* Every round of the loop asks first; what a key or the core does comes after.
Turn == ~win.want /\ UNCHANGED <<runs, up>>

\* The measurements are asked for on arriving at the meta pane and now and then while there.
Show ==
  /\ Turn /\ Spend("key") /\ UNCHANGED rx
  /\ \E p \in {"conversation", "journal", "admin"} \ {win.pane} :
       /\ win' = [win EXCEPT !.pane = p, !.want = (p = "journal")]
       /\ IF p = "admin" /\ up /\ next + 1 <= MaxAsks
          THEN Ask({[op |-> "stats", id |-> next, of |-> 0]}) /\ pend' = [pend EXCEPT !.stats = next]
          ELSE UNCHANGED <<asked, next, pend>>

Refresh ==
  /\ Turn /\ UNCHANGED <<rx, win, left>>
  /\ win.pane = "admin" /\ up /\ next + 1 <= MaxAsks
  /\ Ask({[op |-> "stats", id |-> next, of |-> 0], [op |-> "thought", id |-> next + 1, of |-> 0]})
  /\ pend' = [pend EXCEPT !.stats = next, !.thoughts = next + 1]

Key ==
  /\ Turn /\ Spend("key") /\ win.pane = "journal" /\ UNCHANGED <<pend, asked, rx, next>>
  /\ \/ \E by \in {-Stride, -1, 1, Stride} : win' = Pick(win, by)
     \/ win' = [win EXCEPT !.column = Right(@)]
     \/ win' = [win EXCEPT !.column = LeftOf(@)]
     \/ \E f \in Offered \ {win.filter} : win' = [win EXCEPT !.filter = f, !.picked = 0, !.want = TRUE]

\* The rows of the thoughts by id, with the time they started once the core has listed them.
HeardOf(rows, r, stamp, status) ==
  LET old == SelectSeq(rows, LAMBDA x : x.of = r)
      new == [of |-> r, at |-> IF stamp = 0 /\ old # <<>> THEN old[1].at ELSE stamp, status |-> status]
  IN  Append(SelectSeq(rows, LAMBDA x : x.of # r), new)

\* The inside of a run taken as that of whichever run is pointed at when it arrives.
TakeInsideSlip(w, v) == [w EXCEPT !.opened = PointingAt(w), !.inside = v]
TakeInside(w, v) == [w EXCEPT !.opened = pend.of, !.inside = v]

FromCore ==
  LET m == Head(rx)
  IN  /\ Turn /\ rx # <<>> /\ rx' = Tail(rx) /\ UNCHANGED <<asked, next, left>>
      /\ CASE m.name = "thought" ->
                win' = [win EXCEPT !.rows = HeardOf(@, m.of, 0, m.status)] /\ UNCHANGED pend
           [] m.name = "reply" /\ m.id = pend.stats ->
                win' = [win EXCEPT !.turns = m.v] /\ pend' = [pend EXCEPT !.stats = 0]
           [] m.name = "reply" /\ m.id = pend.thoughts ->
                /\ win' = [win EXCEPT !.rows = FoldSet(LAMBDA t, rows : HeardOf(rows, t.of, t.of, t.status), @, m.v)]
                /\ pend' = [pend EXCEPT !.thoughts = 0]
           [] m.name = "reply" /\ m.id = pend.inside ->
                win' = TakeInside(win, m.v) /\ pend' = [pend EXCEPT !.inside = 0, !.of = 0]
           [] OTHER -> UNCHANGED <<win, pend>>

LookNext ==
  \/ StartTurn \/ StartThought \/ \E r \in DOMAIN runs : EndTurn(r) \/ Settle(r)
  \/ \E q \in asked : Handle(q)
  \/ Connect \/ Gone \/ AskInside \/ Show \/ Refresh \/ Key \/ FromCore

LookSpec == LookInit /\ [][LookNext]_lookVars

------------------------------------------------------------------------------
(* Properties *)

\* Replies come in any order, the pointer moves between asking and being told, and the list
\* shifts under it: the steps shown beside a run are those of its own trace (Pending.inside_of).
StepsAreItsOwn == StepsShown(win) = "steps" => win.inside.of = PointingAt(win)
================================================================================
