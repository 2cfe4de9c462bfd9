---------------------------------- MODULE View ----------------------------------
(***************************************************************************)
(* A window onto the creature: the conversation it shows (ui/src/state.rs),*)
(* the loop that feeds it (ui/src/app.rs), its connection (ui/src/link.rs) *)
(* and the part of the core that answers it.                               *)
(*                                                                         *)
(* log is the journal, one record per line; its index is its time stamp.   *)
(* A bubble that came from a page of the journal carries that stamp in at, *)
(* and of is the turn whose words it shows.  Bubbles that are about no turn *)
(* (notes of the window, what a thought says) have of = 0.                 *)
(*                                                                         *)
(* lapses collects what the code is known to let slip, so that a property  *)
(* can say what holds as long as nothing did: see the README.              *)
(***************************************************************************)
EXTENDS Integers, Sequences, SequencesExt, FiniteSetsExt

CONSTANTS Kept,      \* KEEP: bubbles kept on screen
          Page,      \* PAGE: records in a page of history
          Stride,    \* bubbles the page keys move by
          NearlyTop, \* how close to the top counts as the top
          Past,      \* records in the journal before the window was opened
          MaxId,     \* bound: nobody scrolls once this many requests were sent
          MaxInputs, \* bound: messages typed and signals that wake it
          MaxTwists  \* bound: failures, losses, thoughts that speak, clearings, ticks

ASSUME ViewAssumption ==
  /\ Kept \in Nat \ {0} /\ Page \in Nat \ {0} /\ Stride \in Nat \ {0} /\ NearlyTop \in Nat /\ Past \in Nat
  /\ {MaxId, MaxInputs, MaxTwists} \subseteq Nat

VARIABLES log,    \* the journal: <<[of, role]>>
          queue,  \* what waits for a turn: "user" or "signal"
          turn,   \* [n, kind, spoke]: the turn that is open, n = 0 for none
          turns,  \* turns opened so far
          win,    \* what the window knows
          pend,   \* Pending: ids of the pages asked for, 0 for none
          link,   \* the window's half: [open, next]
          wire,   \* the connection: [up, watched, asked, rx]
          at,     \* where the loop is: "open" and "top" before the screen is drawn, "select"
          left,   \* how often each bounded thing may still happen
          lapses

vars == <<log, queue, turn, turns, win, pend, link, wire, at, left, lapses>>

Roles == {"user", "signal", "assistant"}
Kinds == {"user", "signal"}
None == [n |-> 0, kind |-> "user", spoke |-> FALSE]

Bubbles  == [who : {"you", "signal", "groow", "note"}, of : Nat, at : Nat]
Pages    == [stamps : Seq(Nat), more : BOOLEAN]
Requests == [op : {"watch", "recall", "say", "status"}, id : Nat, before : Nat]
Events   == [name : {"turn_start", "message", "turn_end", "log"}, of : Nat, kind : Kinds]
Replies  == [name : {"reply"}, of : Nat, page : Pages]
Refusals == [name : {"failed", "gone"}, of : Nat]
Messages == Events \union Replies \union Refusals
Wires    == [up : BOOLEAN, watched : BOOLEAN, asked : SUBSET Requests, rx : Seq(Messages)]
Windows  == [bubbles : Seq(Bubbles), said : Nat, echoed : BOOLEAN, back : Nat, oldest : Nat,
             more : BOOLEAN, wantMore : BOOLEAN, loading : BOOLEAN, connected : BOOLEAN]
Lapses   == {"astray", "misled", "refused", "crossed", "gap"}

TypeOK ==
  /\ log \in Seq([of : Nat, role : Roles]) /\ queue \in Seq(Kinds)
  /\ turn \in [n : Nat, kind : Kinds, spoke : BOOLEAN] /\ turns \in Nat
  /\ win \in Windows /\ pend \in [history : Nat, older : Nat] /\ link \in [open : BOOLEAN, next : Nat]
  /\ wire \in Wires /\ at \in {"open", "top", "select"} /\ left \in [input : Nat, twist : Nat] /\ lapses \subseteq Lapses

Init ==
  /\ log = [i \in 1..Past |-> [of |-> 0, role |-> "user"]] /\ queue = <<>> /\ turn = None /\ turns = 0
  /\ win = [bubbles |-> <<>>, said |-> 0, echoed |-> FALSE, back |-> 0, oldest |-> 0,
            more |-> TRUE, wantMore |-> FALSE, loading |-> FALSE, connected |-> FALSE]
  /\ pend = [history |-> 0, older |-> 0]
  /\ link = [open |-> FALSE, next |-> 1]
  /\ wire = [up |-> FALSE, watched |-> FALSE, asked |-> {}, rx |-> <<>>]
  /\ at = "open" /\ lapses = {}
  /\ left = [input |-> MaxInputs, twist |-> MaxTwists]

Spend(what) == left[what] > 0 /\ left' = [left EXCEPT ![what] = @ - 1]
Lapse(what, when) == IF when THEN {what} ELSE {}

------------------------------------------------------------------------------
(* What the window does with what it is told *)
Bubble(who, of, stamp) == [who |-> who, of |-> of, at |-> stamp]
Note == Bubble("note", 0, 0)

\* The oldest bubbles go, and said moves with the others.
Shift(said, cut) == IF said > cut THEN said - cut ELSE 0

Push(w, b) ==
  LET long == Append(w.bubbles, b)
      cut  == Max({0, Len(long) - Kept})
  IN  [w EXCEPT !.bubbles = SubSeq(long, cut + 1, Len(long)), !.said = Shift(@, cut)]

\* TurnStart as it would be with the last answer left to be corrected.
TurnStartSlip(w, e) ==
  CASE e.kind = "signal" -> Push(w, Bubble("signal", e.of, 0))
    [] e.kind = "user" /\ w.echoed -> [w EXCEPT !.echoed = FALSE]
    [] OTHER -> Push(w, Bubble("you", e.of, 0))
TurnStart(w, e) ==
  LET quiet == [w EXCEPT !.said = 0]
  IN  CASE e.kind = "signal" -> Push(quiet, Bubble("signal", e.of, 0))
        [] e.kind = "user" /\ w.echoed -> [quiet EXCEPT !.echoed = FALSE]
        [] OTHER -> Push(quiet, Bubble("you", e.of, 0))

Message(w, e) ==
  LET shown == Push(w, Bubble("groow", e.of, 0))
  IN  [shown EXCEPT !.said = Len(shown.bubbles)]

\* The answer is corrected where it is, or said now; then what the turn cost.
TurnEnd(w, e) ==
  LET told == IF w.said \in DOMAIN w.bubbles
              THEN [w EXCEPT !.bubbles[w.said].of = e.of]
              ELSE Push(w, Bubble("groow", e.of, 0))
  IN  Push([told EXCEPT !.said = 0], Note)

OnEvent(w, e) ==
  CASE e.name = "turn_start" -> TurnStart(w, e)
    [] e.name = "message"    -> Message(w, e)
    [] e.name = "turn_end"   -> TurnEnd(w, e)
    [] OTHER                 -> Push(w, Note)

\* Where reading further back starts.
Oldest(oldest, first) == IF oldest # 0 /\ oldest < first THEN oldest ELSE first

FromRecord(stamp) ==
  Bubble(CASE log[stamp].role = "user" -> "you" [] log[stamp].role = "signal" -> "signal"
           [] OTHER -> "groow", log[stamp].of, stamp)

\* A page goes on top; an older one moves the view and said along.
History(w, page, older) ==
  LET made == [i \in DOMAIN page.stamps |-> FromRecord(page.stamps[i])]
      grew == Len(made)
      told == [w EXCEPT !.loading = FALSE, !.more = page.more]
  IN  IF grew = 0 THEN told
      ELSE [told EXCEPT !.oldest = Oldest(@, page.stamps[1]),
                        !.bubbles = made \o @,
                        !.back = IF older THEN @ + grew ELSE @,
                        !.said = IF older /\ @ # 0 THEN @ + grew ELSE @]

Scroll(w, by) ==
  LET back == Min({Max({w.back - by, 0}), Len(w.bubbles)})
  IN  [w EXCEPT !.back = back,
                !.wantMore = @ \/ (w.more /\ ~w.loading /\ back + NearlyTop >= Len(w.bubbles))]

------------------------------------------------------------------------------
(* The core: the journal, the open turn and what it announces *)

\* Every subscriber that can take an event gets it; one whose queue is full loses it.
Told(w, e) == IF w.watched /\ w.up THEN [w EXCEPT !.rx = Append(@, e)] ELSE w

Announce(e) ==
  \/ wire' = Told(wire, e) /\ UNCHANGED <<left, lapses>>
  \/ /\ wire.watched /\ wire.up /\ Spend("twist")
     /\ lapses' = lapses \union {"astray"}
     /\ UNCHANGED wire

Signal == /\ Spend("input") /\ queue' = Append(queue, "signal")
          /\ UNCHANGED <<log, turn, turns, win, pend, link, wire, at, lapses>>

Begin ==
  /\ turn = None /\ queue # <<>>
  /\ queue' = Tail(queue)
  /\ turns' = turns + 1
  /\ turn' = [n |-> turns + 1, kind |-> Head(queue), spoke |-> FALSE]
  /\ log' = Append(log, [of |-> turns + 1, role |-> Head(queue)])
  /\ Announce([name |-> "turn_start", of |-> turns + 1, kind |-> Head(queue)])
  /\ UNCHANGED <<win, pend, link, at>>

Answer ==
  /\ turn # None /\ ~turn.spoke
  /\ turn' = [turn EXCEPT !.spoke = TRUE]
  /\ log' = Append(log, [of |-> turn.n, role |-> "assistant"])
  /\ Announce([name |-> "message", of |-> turn.n, kind |-> turn.kind])
  /\ UNCHANGED <<queue, turns, win, pend, link, at>>

Finish ==
  /\ turn # None
  /\ turn' = None
  /\ Announce([name |-> "turn_end", of |-> turn.n, kind |-> turn.kind])
  /\ UNCHANGED <<log, queue, turns, win, pend, link, at>>

\* A process that died: the message is tried again and the end is not announced.
Abandon ==
  /\ turn # None /\ Spend("twist")
  /\ turn' = None
  /\ queue' = <<turn.kind>> \o queue
  /\ wire' = Told(wire, [name |-> "log", of |-> 0, kind |-> turn.kind])
  /\ UNCHANGED <<log, turns, win, pend, link, at, lapses>>

\* What an inner thought says is announced as any message is, under its own id.
ThoughtAppend ==
  /\ Spend("twist")
  /\ wire' = Told(wire, [name |-> "message", of |-> 0, kind |-> "signal"])
  /\ lapses' = lapses \union Lapse("astray", wire.watched /\ wire.up)
  /\ UNCHANGED <<log, queue, turn, turns, win, pend, link, at>>

\* What before() and tail() find, as it would be with the bound included.
BeforeSlip(b) == IF b = 0 THEN 1..Len(log) ELSE {i \in 1..Len(log) : i <= b}
Before(b) == IF b = 0 THEN 1..Len(log) ELSE {i \in 1..Len(log) : i < b}

Recall(b) ==
  LET I    == Before(b)
      from == IF I = {} THEN 1 ELSE Max({1, Max(I) - Page + 1})
      recs == IF I = {} THEN <<>> ELSE [i \in 1..(Max(I) - from + 1) |-> from + i - 1]
  IN  [stamps |-> recs, more |-> Len(recs) >= Page]

Reply(id, page) == [name |-> "reply", of |-> id, page |-> page]
Nothing == [stamps |-> <<>>, more |-> FALSE]

\* Each request of a connection has a task of its own: they reach the hub in any order.
Handle(r) ==
  /\ r \in wire.asked
  /\ \/ /\ r.op = "watch"
        /\ wire' = [wire EXCEPT !.asked = @ \ {r}, !.watched = TRUE,
                                !.rx = Append(@, Reply(r.id, Nothing))]
        /\ UNCHANGED <<queue, left, lapses>>
     \/ /\ r.op = "recall"
        /\ wire' = [wire EXCEPT !.asked = @ \ {r}, !.rx = Append(@, Reply(r.id, Recall(r.before)))]
        /\ UNCHANGED <<queue, left, lapses>>
     \/ /\ r.op = "recall" /\ Spend("twist")        \* the journal could not be read
        /\ wire' = [wire EXCEPT !.asked = @ \ {r}, !.rx = Append(@, [name |-> "failed", of |-> r.id])]
        /\ lapses' = lapses \union {"refused"}
        /\ UNCHANGED queue
     \/ /\ r.op = "say"
        /\ wire' = [wire EXCEPT !.asked = @ \ {r}, !.rx = Append(@, Reply(r.id, Nothing))]
        /\ queue' = Append(queue, "user")
        /\ UNCHANGED <<left, lapses>>
     \/ /\ r.op = "status"
        /\ wire' = [wire EXCEPT !.asked = @ \ {r}, !.rx = Append(@, Reply(r.id, Nothing))]
        /\ UNCHANGED <<queue, left, lapses>>
  /\ UNCHANGED <<log, turn, turns, win, pend, link, at>>

\* The connection ends.  What is already on its way still arrives, then that it is gone.
Break ==
  /\ wire.up /\ Spend("twist")
  /\ wire' = [wire EXCEPT !.up = FALSE, !.watched = FALSE, !.asked = {},
                          !.rx = Append(@, [name |-> "gone", of |-> 0])]
  /\ UNCHANGED <<log, queue, turn, turns, win, pend, link, at, lapses>>

------------------------------------------------------------------------------
(* The loop of the window *)

\* A request put on the wire.  One that cannot be written takes an id all the same.
Sent(w, op, id, before) == [w EXCEPT !.asked = @ \union {[op |-> op, id |-> id, before |-> before]}]

\* Open a connection; ask for what was said only if nothing is on screen.  The hello, the
\* status, the measurements, the alarms and the thoughts take their ids; of their answers
\* only the one with the id of a page of an earlier connection can be taken for something.
Connect ==
  LET first == win.bubbles = <<>>
      fresh == [up |-> TRUE, watched |-> FALSE, asked |-> {}, rx |-> <<>>]
      watch == Sent(fresh, "watch", 2, 0)
  IN  /\ ~link.open
      /\ wire' = CASE first -> Sent(watch, "recall", 4, 0)
                   [] ~first /\ pend.history = 4 -> Sent(watch, "status", 4, 0)
                   [] OTHER -> watch
      /\ link' = [open |-> TRUE, next |-> IF first THEN 8 ELSE 7]
      /\ pend' = IF first THEN [pend EXCEPT !.history = 4] ELSE pend
      /\ win' = Push([win EXCEPT !.loading = @ \/ first, !.connected = TRUE], Note)
      /\ lapses' = lapses \union Lapse("misled", pend.history # 0 \/ pend.older # 0)
                          \union Lapse("astray", win.said # 0)
      /\ at' = "top"
      /\ UNCHANGED left

NotReached ==
  /\ ~link.open
  /\ win' = [IF win.connected \/ win.bubbles = <<>> THEN Push(win, Note) ELSE win
             EXCEPT !.connected = FALSE, !.wantMore = FALSE]
  /\ at' = "select"
  /\ UNCHANGED <<pend, link, wire, left, lapses>>

\* The page before the oldest thing held, when the view came near the top.
AskMore ==
  LET asks == win.wantMore /\ link.open /\ win.oldest # 0
      told == [win EXCEPT !.wantMore = FALSE]
  IN  /\ at = "top" /\ at' = "select"       \* nothing to connect, or not yet
      /\ IF asks /\ wire.up
         THEN /\ win' = [told EXCEPT !.loading = TRUE]
              /\ pend' = [pend EXCEPT !.older = link.next]
              /\ wire' = Sent(wire, "recall", link.next, win.oldest)
         ELSE /\ win' = IF asks THEN [told EXCEPT !.loading = FALSE] ELSE told
              /\ pend' = IF asks THEN [pend EXCEPT !.older = 0] ELSE pend
              /\ UNCHANGED wire
      /\ link' = [link EXCEPT !.next = IF asks THEN @ + 1 ELSE @]
      /\ lapses' = lapses \union Lapse("crossed", asks /\ pend.history # 0)
      /\ UNCHANGED left

Top == /\ at \in {"open", "top"} /\ (Connect \/ NotReached \/ AskMore)
       /\ UNCHANGED <<log, queue, turn, turns>>

Key == at = "select" /\ UNCHANGED <<log, queue, turn, turns>>

\* A message is shown at once and sent; one that cannot be sent ends the connection.
Submit ==
  LET shown == [Push(win, Bubble("you", 0, 0)) EXCEPT !.echoed = TRUE]
  IN  /\ Key /\ Spend("input")
      /\ \/ /\ link.open /\ wire.up
            /\ at' = "top"
            /\ win' = shown
            /\ wire' = Sent(wire, "say", link.next, 0)
            /\ link' = [link EXCEPT !.next = @ + 1]
         \/ /\ link.open /\ ~wire.up
            /\ at' = "open"
            /\ win' = [Push(shown, Note) EXCEPT !.connected = FALSE]
            /\ link' = [link EXCEPT !.open = FALSE]
            /\ UNCHANGED wire
         \/ /\ ~link.open
            /\ at' = "top"
            /\ win' = Push(shown, Note)
            /\ UNCHANGED <<wire, link>>
      /\ UNCHANGED <<pend, lapses>>

\* "/clear", and ctrl-l, which leaves said as it was.
Clear ==
  /\ Key /\ at' = "top" /\ Spend("twist")
  /\ \/ /\ win' = [win EXCEPT !.bubbles = <<>>, !.said = 0]
        /\ UNCHANGED lapses
     \/ /\ win' = [win EXCEPT !.bubbles = <<>>]
        /\ lapses' = lapses \union Lapse("astray", win.said # 0)
  /\ UNCHANGED <<pend, link, wire>>

ScrollBy ==
  /\ Key /\ at' = "top" /\ link.next < MaxId
  /\ \E by \in {-Stride, Stride} : win' = Scroll(win, by)
  /\ UNCHANGED <<pend, link, wire, left, lapses>>

Show ==
  /\ Key /\ at' = "top"
  /\ win' = [win EXCEPT !.back = 0]
  /\ UNCHANGED <<pend, link, wire, left, lapses>>

\* A fresh status every few seconds.
Timer ==
  /\ Key /\ at' = "top" /\ link.open /\ Spend("twist")
  /\ IF wire.up
     THEN wire' = Sent(wire, "status", link.next, 0) /\ UNCHANGED win
     ELSE win' = [win EXCEPT !.connected = FALSE] /\ UNCHANGED wire
  /\ link' = [link EXCEPT !.next = @ + 1]
  /\ UNCHANGED <<pend, lapses>>

\* The stamps of the records on screen.
Held == {win.bubbles[i].at : i \in DOMAIN win.bubbles} \ {0}

\* A reply is the page that was asked for under its id, or none.
Take(m) ==
  CASE pend.history = m.of ->
         pend' = [pend EXCEPT !.history = 0] /\ win' = History(win, m.page, FALSE)
    [] pend.history # m.of /\ pend.older = m.of ->
         pend' = [pend EXCEPT !.older = 0] /\ win' = History(win, m.page, TRUE)
    [] OTHER -> UNCHANGED <<pend, win>>

\* The core went away as it would be if what was asked for were still waited for.
ForgetSlip(w) == /\ pend' = [history |-> 0, older |-> 0]
                 /\ win' = Push([w EXCEPT !.connected = FALSE], Note)
Forget(w) == /\ pend' = [history |-> 0, older |-> 0]
             /\ win' = Push([w EXCEPT !.connected = FALSE, !.loading = FALSE], Note)

FromCore ==
  LET m == Head(wire.rx)
  IN  /\ Key /\ at' = "top" /\ wire.rx # <<>>
      /\ wire' = [wire EXCEPT !.rx = Tail(@)]
      /\ CASE m.name = "reply"  -> Take(m) /\ UNCHANGED link
           [] m.name = "failed" -> win' = Push(win, Note) /\ UNCHANGED <<pend, link>>
           [] m.name = "gone"   -> Forget(win) /\ link' = [link EXCEPT !.open = FALSE]
           [] OTHER             -> win' = OnEvent(win, m) /\ UNCHANGED <<pend, link>>
      /\ lapses' = lapses
           \union Lapse("astray", m.name = "reply" /\ m.of = pend.history /\ win.said # 0)
           \union Lapse("gap", m.name = "reply" /\ m.of = pend.older /\ Held # {} /\ Min(Held) # win.oldest)
      /\ UNCHANGED left

------------------------------------------------------------------------------
Core == Signal \/ Begin \/ Answer \/ Finish \/ Abandon \/ ThoughtAppend \/ Break
        \/ \E r \in wire.asked : Handle(r)
Window == Top \/ Submit \/ Clear \/ ScrollBy \/ Show \/ Timer \/ FromCore
Next == Core \/ Window

Spec == Init /\ [][Next]_vars
\* Every request of a connection has a task of its own, the loop goes round, and tokio's select!
\* picks at random among the branches that are ready, so what the core says is read in the end.
Fairness == /\ WF_vars(Top) /\ SF_vars(FromCore)
            /\ WF_vars(\E r \in wire.asked : Handle(r))
FairSpec == Spec /\ Fairness

------------------------------------------------------------------------------
\* "It is a correction to what is already there, not another thing said" (state.rs, turn_end):
\* the bubble a turn's end is about to rewrite is that turn's own answer.
SaidIsItsOwn ==
  wire.rx # <<>> /\ Head(wire.rx).name = "turn_end" /\ win.said \in DOMAIN win.bubbles
  => /\ win.bubbles[win.said].who = "groow"
     /\ win.bubbles[win.said].of = Head(wire.rx).of

\* The same, as long as said was not led astray: no thought spoke, no event was lost, no
\* connection replaced, and neither ctrl-l nor the first page moved the bubbles under it.
EndCorrectsItsOwn == "astray" \notin lapses => SaidIsItsOwn

\* What came from the journal is on top of what came since, in order, and each record once.
IsARun(s) == \A i, j \in DOMAIN s : i < j /\ s[j].at # 0 => s[i].at # 0 /\ s[j].at - s[i].at = j - i

\* Pages of the journal arrive in any order with live bubbles, clearing and trimming: what is
\* on screen of the journal is a run of it (history, before).
HistoryIsARun == {"gap", "crossed"} \intersect lapses = {} => IsARun(win.bubbles)

\* "A pending id must survive replies that are not the one being waited for" (Pending): a page
\* that was asked for on this connection is one the window still waits for.
PagesAreAwaited ==
  \A r \in wire.asked :
    r.op = "recall" => r.id \in {pend.history, pend.older} \/ "crossed" \in lapses

\* "A page that is never coming does not leave it loading" (app.rs): unless the core refused
\* it or a connection was replaced under it, the wait for a page ends.
LoadingEnds == win.loading ~> (~win.loading \/ {"refused", "misled"} \intersect lapses # {})
================================================================================
