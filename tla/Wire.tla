---------------------------------- MODULE Wire ----------------------------------
(***************************************************************************)
(* What passes between the processes: the frames of a connection and the   *)
(* loop that reads them (core/src/conn.rs, codec.rs, proto/src/frame.rs),  *)
(* the task each request gets, generation streamed from the brain          *)
(* (core/src/brain.rs), the hub's one queue of commands and its events to  *)
(* whoever watches (core/src/hub.rs), the harness's half of a connection   *)
(* (harness/src/client.rs) and the window's (ui/src/link.rs).              *)
(*                                                                         *)
(* A caller is the process of a turn: it asks one thing at a time.  What   *)
(* it does is numbered; an event that tells of it carries that number, n,  *)
(* and 0 when it is the connection that speaks and not the turn.           *)
(* What the hub decides about a turn is the matter of Turns; here a turn   *)
(* is open, held by the caller that claimed it, or over.                   *)
(***************************************************************************)
EXTENDS Naturals, Sequences

CONSTANTS Callers, Watchers,
          OutDepth,   \* WRITE_DEPTH: frames on their way to one peer
          SubDepth,   \* SUBSCRIBER_DEPTH: events on their way to one watcher
          MaxDoes,    \* bound: things one caller does
          MaxDeltas,  \* bound: pieces of one answer of the brain
          MaxTwists   \* bound: processes that die

Clients == Callers \union Watchers

ASSUME WireAssumption ==
    /\ Callers \intersect Watchers = {}
    /\ {OutDepth, SubDepth} \subseteq Nat \ {0}
    /\ {MaxDoes, MaxDeltas, MaxTwists} \subseteq Nat

VARIABLES peer,    \* each client: where it is, the request it waits for, the parts it heard of it, what it did
          up,      \* frames written to the core and not read yet
          conn,    \* the core's half: read from or not, and the turn claimed and finished on it
          tasks,   \* the tasks of each connection's requests
          out,     \* frames to each client, from the queue of the connection to what it reads
          cmds,    \* the hub's queue
          turn,    \* the turn each caller was started for
          subs,    \* the hub's queue of events to each watcher
          last,    \* the number of the last event each watcher read of each caller
          full,    \* connections on which an answer found the queue full and was dropped
          twists
vars == <<peer, up, conn, tasks, out, cmds, turn, subs, last, full, twists>>

Role(c) == IF c \in Callers THEN "agent" ELSE "mentor"
AgentOps == {"hello", "status", "turn.claim", "turn.append", "turn.end", "complete", "think", "thought",
             "recall", "schedule", "thought.claim", "thought.append", "thought.end"}
ViewerOps == {"hello", "status", "watch", "say", "command", "recall"}
Ops == AgentOps \union ViewerOps \union {"stats", "interrupt", "trace", "consolidate", "train", "quit"}
AllowedFor(op, role) == CASE role = "mentor" -> op \in Ops
                          [] role = "agent"  -> op \in AgentOps
                          [] role = "viewer" -> op \in ViewerOps

Req(id, op, n) == [of |-> "req", id |-> id, op |-> op, n |-> n]
Ev(n)          == [of |-> "ev", id |-> 0, op |-> "", n |-> n]
Torn           == [of |-> "torn", id |-> 0, op |-> "", n |-> 0]     \* a line that does not decode
Part(id, k)    == [of |-> "part", id |-> id, n |-> k]
Rep(id)        == [of |-> "rep", id |-> id, n |-> 0]
Err(id)        == [of |-> "err", id |-> id, n |-> 0]
PushOf(c, n)   == [of |-> "push", id |-> 0, n |-> n, from |-> c]
Terminal(f)    == f.of \in {"rep", "err"}

\* What a frame tells a watcher of the caller c.
Number(f, c) == IF f.of = "push" /\ f.from = c THEN f.n ELSE 0

\* What the core knows of a connection it has accepted.
NewConn == [open |-> TRUE, claimed |-> FALSE, finished |-> FALSE]
Cmd(kind, c, task, n) == [kind |-> kind, c |-> c, task |-> task, n |-> n]
NewTask(f) == [id |-> f.id, op |-> f.op, n |-> f.n, at |-> "new", ok |-> TRUE, said |-> 0, sent |-> 0]
Become(c, t, u) == tasks' = [tasks EXCEPT ![c] = (@ \ {t}) \union {u}]
Ends(c, t)      == tasks' = [tasks EXCEPT ![c] = @ \ {t}]

\* try_send: what finds the queue full, or nobody there, is dropped.
Fits(c) == out[c].open /\ Len(out[c].q) < OutDepth
Send(c, f) ==
    /\ out' = IF Fits(c) THEN [out EXCEPT ![c].q = Append(@, f)] ELSE out
    /\ full' = IF Terminal(f) /\ ~Fits(c) THEN full \union {c} ELSE full

-----------------------------------------------------------------------------
(* The clients.                                                            *)

Does(c, f) == /\ up' = [up EXCEPT ![c] = Append(@, f)]
              /\ UNCHANGED <<conn, tasks, out, cmds, turn, subs, last, full, twists>>
MayDo(c) == c \in Callers /\ peer[c].pc = "idle" /\ peer[c].n < MaxDoes

Emit(c) ==
    /\ MayDo(c)
    /\ peer' = [peer EXCEPT ![c].n = @ + 1]
    /\ Does(c, Ev(peer[c].n + 1))

\* call_streaming: one request, and nothing else until its answer.
Call(c, op) ==
    /\ MayDo(c)
    /\ peer' = [peer EXCEPT ![c] = [pc |-> "waiting", asked |-> @.asked + 1, heard |-> 0, n |-> @.n + 1]]
    /\ Does(c, Req(peer[c].asked + 1, op, peer[c].n + 1))

Hears(c) ==
    /\ c \in Callers /\ peer[c].pc # "gone" /\ out[c].q # <<>>
    /\ LET f == Head(out[c].q)
           mine == peer[c].pc = "waiting" /\ f.id = peer[c].asked
       IN  peer' = [peer EXCEPT ![c].pc = IF mine /\ Terminal(f) THEN "idle" ELSE @,
                                ![c].heard = IF mine /\ f.of = "part" THEN f.n ELSE @]
    /\ out' = [out EXCEPT ![c].q = Tail(@)]
    /\ UNCHANGED <<up, conn, tasks, cmds, turn, subs, last, full, twists>>

\* What a person's commands ask for, one request each.
Requests == {"status", "quit", "say", "recall", "schedule", "thought"}

\* Someone else at the mentor's end is a command: it asks, and waits for the answer to that.
Talk(w, op) ==
    /\ w \in Watchers /\ op \in Requests /\ peer[w].asked = 0 /\ peer[w].pc = "idle"
    /\ peer' = [peer EXCEPT ![w].asked = 1, ![w].pc = "waiting"]
    /\ Does(w, Req(1, op, 0))
\* Thirty seconds without a frame.
GivesUp(w) ==
    /\ w \in Watchers /\ peer[w].pc = "waiting" /\ out[w].q = <<>>
    /\ peer' = [peer EXCEPT ![w].pc = "gone"]
    /\ UNCHANGED <<up, conn, tasks, out, cmds, turn, subs, last, full, twists>>

\* A window watches; what else it asks, and does with the answers, is the matter of View.
Open(w) ==
    /\ w \in Watchers /\ peer[w].asked = 0 /\ peer[w].pc = "idle"
    /\ peer' = [peer EXCEPT ![w].asked = 1]
    /\ Does(w, Req(1, "watch", 0))
Reads(w) ==
    /\ w \in Watchers /\ peer[w].pc # "gone" /\ out[w].q # <<>>
    /\ last' = [last EXCEPT ![w] = [c \in Callers |->
                    IF Number(Head(out[w].q), c) # 0 THEN Number(Head(out[w].q), c) ELSE @[c]]]
    /\ peer' = [peer EXCEPT ![w].pc = IF @ = "waiting" /\ Terminal(Head(out[w].q)) THEN "gone" ELSE @]
    /\ out' = [out EXCEPT ![w].q = Tail(@)]
    /\ UNCHANGED <<up, conn, tasks, cmds, turn, subs, full, twists>>

\* A process leaves when it has its answers, or dies anywhere, also in the middle of a line.
Leave(c) ==
    /\ c \in Callers /\ peer[c].pc = "idle"
    /\ peer' = [peer EXCEPT ![c].pc = "gone"]
    /\ UNCHANGED <<up, conn, tasks, out, cmds, turn, subs, last, full, twists>>
Die(c) ==
    /\ peer[c].pc # "gone" /\ twists < MaxTwists
    /\ twists' = twists + 1
    /\ peer' = [peer EXCEPT ![c].pc = "gone"]
    /\ up' = [up EXCEPT ![c] = Append(@, Torn)] \/ UNCHANGED up
    /\ UNCHANGED <<conn, tasks, out, cmds, turn, subs, last, full>>

-----------------------------------------------------------------------------
(* The core's half of a connection: serve, on_frame, on_event, on_request. *)

Took(c) == up' = [up EXCEPT ![c] = Tail(@)]
Next1(c, of) == conn[c].open /\ up[c] # <<>> /\ Head(up[c]).of = of

\* The mistake of passing an event on from a task of its own, so as not to hold the reader up.
OnEventSlip(c) ==
    /\ Next1(c, "ev") /\ Took(c)
    /\ tasks' = [tasks EXCEPT ![c] = @ \union {NewTask([Head(up[c]) EXCEPT !.op = "event"])}]
    /\ UNCHANGED <<peer, conn, out, cmds, turn, subs, last, full, twists>>
\* An event is passed on before the next frame is read.
OnEvent(c) ==
    /\ Next1(c, "ev") /\ Took(c)
    /\ cmds' = Append(cmds, Cmd("event", c, 0, Head(up[c]).n))
    /\ UNCHANGED <<peer, conn, tasks, out, turn, subs, last, full, twists>>

\* The mistake of dropping a request its sender may not make.
RefuseSlip(c) ==
    /\ Next1(c, "req") /\ ~AllowedFor(Head(up[c]).op, Role(c)) /\ Took(c)
    /\ UNCHANGED <<peer, conn, tasks, out, cmds, turn, subs, last, full, twists>>
\* An op nobody knows, or one that is not for this role.
Refuse(c) ==
    /\ Next1(c, "req") /\ ~AllowedFor(Head(up[c]).op, Role(c)) /\ Took(c)
    /\ Send(c, Err(Head(up[c]).id))
    /\ UNCHANGED <<peer, conn, tasks, cmds, turn, subs, last, twists>>
\* Every other request gets a task of its own: the reader waits for none of them.
OnRequest(c) ==
    /\ Next1(c, "req") /\ AllowedFor(Head(up[c]).op, Role(c)) /\ Took(c)
    /\ tasks' = [tasks EXCEPT ![c] = @ \union {NewTask(Head(up[c]))}]
    /\ UNCHANGED <<peer, conn, out, cmds, turn, subs, last, full, twists>>

\* End of file, or a line that cannot be read: a turn claimed here and not finished is let go of.
\* The tasks go on, and what they answer is still sent.
Close(c) ==
    /\ conn[c].open
    /\ \/ Next1(c, "torn") /\ Took(c)
       \/ up[c] = <<>> /\ peer[c].pc = "gone" /\ UNCHANGED up
    /\ conn' = [conn EXCEPT ![c].open = FALSE]
    /\ cmds' = IF conn[c].claimed /\ ~conn[c].finished THEN Append(cmds, Cmd("abandon", c, 0, peer[c].n + 1)) ELSE cmds
    /\ UNCHANGED <<peer, tasks, out, turn, subs, last, full, twists>>

\* The writer learns from a write that fails that nobody reads any more.
Break(c) ==
    /\ peer[c].pc = "gone" /\ out[c].q # <<>>
    /\ out' = [out EXCEPT ![c] = [open |-> FALSE, q |-> <<>>]]
    /\ UNCHANGED <<peer, up, conn, tasks, cmds, turn, subs, last, full, twists>>

-----------------------------------------------------------------------------
(* A request's task: dispatch, watch, complete.                            *)

Asks(c, t) ==
    /\ t.at = "new" /\ t.op # "complete"
    /\ cmds' = Append(cmds, Cmd(t.op, c, t.id, t.n))
    /\ Become(c, t, [t EXCEPT !.at = "hub"])
    /\ UNCHANGED <<peer, up, conn, out, turn, subs, last, full, twists>>

\* The hub has answered: the connection notes the turn, and the answer goes out.
Tells(c, t) ==
    /\ t.at = "told"
    /\ conn' = [conn EXCEPT ![c].claimed = @ \/ (t.op = "turn.claim" /\ t.ok),
                            ![c].finished = @ \/ (t.op = "turn.end" /\ t.ok)]
    /\ Send(c, IF t.ok THEN Rep(t.id) ELSE Err(t.id))
    /\ IF t.op = "watch" THEN Become(c, t, [t EXCEPT !.at = "watching"]) ELSE Ends(c, t)
    /\ UNCHANGED <<peer, up, cmds, turn, subs, last, twists>>

\* watch: an event that does not fit is dropped, and the end of the queue ends the watching.
Forward(c, t) ==
    /\ t.at = "watching" /\ subs[c].q # <<>>
    /\ Send(c, Head(subs[c].q))
    /\ IF out[c].open
       THEN subs' = [subs EXCEPT ![c].q = Tail(@)] /\ UNCHANGED tasks
       ELSE subs' = [subs EXCEPT ![c] = [state |-> "dropped", q |-> <<>>]] /\ Ends(c, t)
    /\ UNCHANGED <<peer, up, conn, cmds, turn, last, twists>>

\* complete: the brain's pieces go through a pump of their own; the answer is whole in itself,
\* and a stream that ends with neither an answer nor a word is a failure.
Generates(c, t) ==
    /\ t.at = "new" /\ t.op = "complete"
    /\ Become(c, t, [t EXCEPT !.at = "brain"])
    /\ UNCHANGED <<peer, up, conn, out, cmds, turn, subs, last, full, twists>>
Brain(c, t) ==
    /\ t.at = "brain"
    /\ \/ t.said < MaxDeltas /\ Become(c, t, [t EXCEPT !.said = @ + 1])
       \/ Become(c, t, [t EXCEPT !.at = "pump"])                                \* done, or ended after some words
       \/ Become(c, t, [t EXCEPT !.at = "pump", !.ok = FALSE])                  \* an error, a broken line, nothing at all
    /\ UNCHANGED <<peer, up, conn, out, cmds, turn, subs, last, full, twists>>
Pump(c, t) ==
    /\ t.sent < t.said
    /\ Send(c, Part(t.id, t.sent + 1))
    /\ Become(c, t, [t EXCEPT !.sent = @ + 1])
    /\ UNCHANGED <<peer, up, conn, cmds, turn, subs, last, twists>>

\* The mistake of not waiting for the pump.
PumpedSlip(t) == t.at = "pump"
Pumped(t) == t.at = "pump" /\ t.sent = t.said
\* What the pump still has, it would go on sending.
Completes(c, t) ==
    /\ Pumped(t)
    /\ cmds' = IF t.ok THEN cmds ELSE Append(cmds, Cmd("event", c, 0, 0))
    /\ Send(c, IF t.ok THEN Rep(t.id) ELSE Err(t.id))
    /\ IF t.sent = t.said THEN Ends(c, t) ELSE Become(c, t, [t EXCEPT !.at = "late"])
    /\ UNCHANGED <<peer, up, conn, turn, subs, last, twists>>

-----------------------------------------------------------------------------
(* The hub: one queue, one command at a time.                              *)

\* fanout: whoever's queue is full misses the event, whoever has gone is forgotten.
Fanout(e) == subs' = [w \in Clients |->
    CASE subs[w].state = "dropped" -> [state |-> "none", q |-> <<>>]
      [] subs[w].state = "live" /\ Len(subs[w].q) < SubDepth -> [subs[w] EXCEPT !.q = Append(@, e)]
      [] OTHER -> subs[w]]

Decides(k) == CASE k.kind = "turn.claim" -> turn[k.c] = "open"
                [] k.kind \in {"turn.append", "turn.end"} -> turn[k.c] = "held"
                [] OTHER -> TRUE
Announces(k) == \/ k.kind = "event"
                \/ k.kind \in {"turn.append", "turn.end"} /\ Decides(k)
                \/ k.kind = "abandon" /\ turn[k.c] # "over"
Becomes(k) == CASE k.kind = "turn.claim" /\ Decides(k) -> "held"
                [] k.kind = "abandon" \/ (k.kind = "turn.end" /\ Decides(k)) -> "over"
                [] OTHER -> turn[k.c]
Handle ==
    /\ cmds # <<>>
    /\ LET k == Head(cmds) IN
       /\ turn' = [c \in Callers |-> IF c = k.c THEN Becomes(k) ELSE turn[c]]
       /\ IF k.kind = "watch" THEN subs' = [subs EXCEPT ![k.c] = [state |-> "live", q |-> <<>>]]
          ELSE IF Announces(k) THEN Fanout(PushOf(k.c, k.n)) ELSE UNCHANGED subs
       /\ tasks' = [tasks EXCEPT ![k.c] =
            {IF t.at = "hub" /\ t.id = k.task THEN [t EXCEPT !.at = "told", !.ok = Decides(k)] ELSE t : t \in @}]
    /\ cmds' = Tail(cmds)
    /\ UNCHANGED <<peer, up, conn, out, last, full, twists>>

-----------------------------------------------------------------------------
Init ==
    /\ peer = [c \in Clients |-> [pc |-> "idle", asked |-> 0, heard |-> 0, n |-> 0]]
    /\ up = [c \in Clients |-> <<>>] /\ tasks = [c \in Clients |-> {}]
    /\ conn = [c \in Clients |-> NewConn]
    /\ out = [c \in Clients |-> [open |-> TRUE, q |-> <<>>]]
    /\ cmds = <<>> /\ turn = [c \in Callers |-> "open"]
    /\ subs = [w \in Clients |-> [state |-> "none", q |-> <<>>]]
    /\ last = [w \in Watchers |-> [c \in Callers |-> 0]] /\ full = {} /\ twists = 0

\* What a turn asks; "stats" is not for it.
Asked == {"turn.claim", "turn.append", "turn.end", "complete", "stats"}

\* The hub answers what a command asks all alike, until it is told to stop.
Talked == {"status"}

Client(c) == \/ Emit(c) \/ (\E op \in Asked : Call(c, op)) \/ Open(c)
             \/ (\E op \in Talked : Talk(c, op)) \/ GivesUp(c) \/ Leave(c) \/ Die(c)
Listen(c) == Hears(c) \/ Reads(c) \/ Break(c)
Read(c) == OnEvent(c) \/ Refuse(c) \/ OnRequest(c) \/ Close(c)
Work(c) == \E t \in tasks[c] :
    Asks(c, t) \/ Tells(c, t) \/ Forward(c, t) \/ Generates(c, t) \/ Pump(c, t) \/ Completes(c, t)
Generate(c) == \E t \in tasks[c] : Brain(c, t)

Next == (\E c \in Clients : Client(c) \/ Listen(c) \/ Read(c) \/ Work(c) \/ Generate(c)) \/ Handle
Spec == Init /\ [][Next]_vars

\* Every task of the core runs in the end; the brain may take for ever, and a client need not
\* do anything, but reads what it is sent.
Fairness == /\ WF_vars(Handle)
            /\ \A c \in Clients : WF_vars(Listen(c)) /\ WF_vars(Read(c)) /\ WF_vars(Work(c))
FairSpec == Spec /\ Fairness

-----------------------------------------------------------------------------
(* What must hold.                                                         *)

\* What a watcher read last of a caller, what is on its way, and what the hub still has for it.
ComingTo(w, c) == <<last[w][c]>> \o [i \in DOMAIN out[w].q |-> Number(out[w].q[i], c)]
                                 \o [i \in DOMAIN subs[w].q |-> Number(subs[w].q[i], c)]

\* 0 tells nothing.
InOrder(s) == \A i, j \in DOMAIN s : i < j /\ s[i] # 0 /\ s[j] # 0 => s[i] < s[j]

(***************************************************************************)
(* A watcher is told of what a turn did in the order it was done, each     *)
(* thing once, whatever was dropped on the way: events and the messages    *)
(* announced by the hub go through different tasks (on_event, on_request). *)
(***************************************************************************)
AsTheyHappened == \A w \in Watchers, c \in Callers : InOrder(ComingTo(w, c))

(***************************************************************************)
(* "Replies stream as parts before the terminal frame" (ops.rs): a part    *)
(* under way belongs to the call that is being waited for, comes after     *)
(* the parts heard before, and no answer to that call is in front of it.   *)
(***************************************************************************)
PartsThenAnswer == \A c \in Callers : peer[c].pc # "gone" =>
    \A i \in DOMAIN out[c].q : LET f == out[c].q[i] IN f.of = "part" =>
        /\ peer[c].pc = "waiting" /\ f.id = peer[c].asked /\ f.n > peer[c].heard
        /\ \A j \in 1..(i - 1) : out[c].q[j].id = f.id => ~Terminal(out[c].q[j]) /\ out[c].q[j].n < f.n

(***************************************************************************)
(* A turn waits for an answer without a limit of its own (client.rs), so   *)
(* every request must get one, be it refused, unless the brain is still at *)
(* it, or the answer was dropped because the turn had stopped reading; and *)
(* so is a person's command, though it would give up by itself.            *)
(***************************************************************************)
EveryCallEnds == \A c \in Clients :
    (peer[c].pc = "waiting") ~> (peer[c].pc # "waiting" \/ c \in full \/ \E t \in tasks[c] : t.at = "brain")
=================================================================================
