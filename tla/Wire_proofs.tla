------------------------------ MODULE Wire_proofs ------------------------------
(***************************************************************************)
(* Machine-checked proofs about Wire, for any number of turns and windows, *)
(* any depth of the queues, any length of an answer, whoever dies.         *)
(*                                                                         *)
(* Two things pass through this wire in an order that matters: the pieces  *)
(* of an answer, on their way to the turn that asked for it, and what a    *)
(* turn did, on its way to a window.  Both rest on the exchange a turn     *)
(* keeps up: it asks one thing at a time, so one request of its own, at    *)
(* most, is anywhere in the core, and nothing is sent after its answer.    *)
(***************************************************************************)
EXTENDS Wire, SequenceTheorems, TLAPS

Named    == Ops \union {""}
ToCore   == [of : {"req", "ev", "torn"}, id : Nat, op : Named, n : Nat]
ToPeer   == [of : {"part", "rep", "err"}, id : Nat, n : Nat]
Pushes   == [of : {"push"}, id : {0}, n : Nat, from : Clients]
Tasks    == [id : Nat, op : Named, n : Nat, at : {"new", "hub", "told", "watching", "brain", "pump", "late"},
             ok : BOOLEAN, said : Nat, sent : Nat]
Commands == [kind : Named \union {"event", "abandon"}, c : Clients, task : Nat, n : Nat]

\* The types of the program's state.
TypeOK ==
    /\ peer \in [Clients -> [pc : {"idle", "waiting", "gone"}, asked : Nat, heard : Nat, n : Nat]]
    /\ up \in [Clients -> Seq(ToCore)]
    /\ conn \in [Clients -> [open : BOOLEAN, claimed : BOOLEAN, finished : BOOLEAN]]
    /\ tasks \in [Clients -> SUBSET Tasks]
    /\ out \in [Clients -> [open : BOOLEAN, q : Seq(ToPeer \union Pushes)]]
    /\ cmds \in Seq(Commands)
    /\ turn \in [Callers -> {"open", "held", "over"}]
    /\ subs \in [Clients -> [state : {"none", "live", "dropped"}, q : Seq(Pushes)]]
    /\ last \in [Watchers -> [Callers -> Nat]]

-----------------------------------------------------------------------------
(* The exchange a caller keeps up.                                         *)

\* What a caller writes is numbered in order; a request is what it did last, and nothing of
\* an earlier one is left; what was torn off is the last thing it wrote.
Written(c) ==
    /\ \A i, j \in DOMAIN up[c] : i < j /\ up[c][j].n # 0 => up[c][i].n < up[c][j].n
    /\ \A i \in DOMAIN up[c] : LET f == up[c][i] IN
          /\ f.of = "torn" <=> f.n = 0
          /\ f.n <= peer[c].n
          /\ f.of = "torn" => i = Len(up[c]) /\ peer[c].pc = "gone"
          /\ f.of = "req" => f.n = peer[c].n /\ f.id = peer[c].asked /\ f.op \in Asked
                             /\ peer[c].pc # "idle" /\ tasks[c] = {}
    /\ ~conn[c].open => up[c] = <<>> /\ peer[c].pc = "gone"

\* The one request it may have in the core.
Underway(c) ==
    /\ \A t, u \in tasks[c] : t = u
    /\ tasks[c] # {} => \A i \in DOMAIN up[c] : up[c][i].of = "torn"
    /\ \A t \in tasks[c] :
          /\ peer[c].pc # "idle" /\ t.id = peer[c].asked /\ t.n = peer[c].n /\ t.op \in Asked
          /\ t.sent <= t.said
          /\ t.at \notin {"watching", "late"}
          /\ t.at = "new" => t.said = 0

\* What comes back: nothing while it does other things; while it waits, the pieces of the
\* answer in their order, and then the answer, after which nothing of that request is left.
ComesBack(c) ==
    /\ peer[c].pc = "idle" => out[c].q = <<>>
    /\ peer[c].pc = "waiting" =>
          /\ \A i \in DOMAIN out[c].q : LET f == out[c].q[i] IN
                /\ f.id = peer[c].asked /\ f.of # "push"
                /\ Terminal(f) => i = Len(out[c].q) /\ tasks[c] = {}
                /\ f.of = "part" => f.n > peer[c].heard
                /\ \A t \in tasks[c] : f.n <= t.sent
          /\ \A i, j \in DOMAIN out[c].q : i < j /\ out[c].q[j].of = "part" => out[c].q[i].n < out[c].q[j].n
          /\ \A t \in tasks[c] : peer[c].heard <= t.sent
          /\ \A i \in DOMAIN up[c] : up[c][i].of = "req" => out[c].q = <<>> /\ peer[c].heard = 0

KeptUp(c) == Written(c) /\ Underway(c) /\ ComesBack(c)
Exchange == \A c \in Callers : KeptUp(c)

-----------------------------------------------------------------------------
(* What a watcher is told.                                                 *)

Numbered(k, c) == k.c = c /\ k.n # 0

\* What the hub still has of a caller was done before whatever is behind it; only for a closed
\* connection does it let go of a turn in the name of something the caller has not done.
Place(k, c) == Numbered(k, c) =>
    /\ k.kind = "abandon" \/ k.n <= peer[c].n
    /\ k.kind = "abandon" => ~conn[c].open
    /\ \A j \in DOMAIN up[c] : up[c][j].n # 0 => k.n < up[c][j].n
    /\ \A t \in tasks[c] : t.at = "new" => k.kind = "abandon" \/ k.n < t.n

\* The hub's queue is in the order things were done, but for a request that comes after its
\* turn was let go of: nothing is told of that.
Follows(k, l, c) == Numbered(k, c) /\ Numbered(l, c) =>
    k.n < l.n \/ (k.kind = "abandon" /\ l.kind \notin {"event", "abandon"})

Queued(c) ==
    /\ \A i \in DOMAIN cmds : Place(cmds[i], c)
    /\ \A i, j \in DOMAIN cmds : i < j => Follows(cmds[i], cmds[j], c)

\* What a watcher was told of a caller, the last of it or on its way.
Told(w, c) == {last[w][c]} \union {Number(out[w].q[i], c) : i \in DOMAIN out[w].q}
                           \union {Number(subs[w].q[i], c) : i \in DOMAIN subs[w].q}

\* All that can still be told of a caller comes after x.
Passed(x, c) == x # 0 =>
    /\ conn[c].open => x <= peer[c].n
    /\ \A j \in DOMAIN up[c] : up[c][j].n # 0 => x < up[c][j].n
    /\ turn[c] # "over" => \A t \in tasks[c] : t.at = "new" => x < t.n
    /\ \A i \in DOMAIN cmds : LET k == cmds[i] IN
          Numbered(k, c) /\ (k.kind = "event" \/ turn[c] # "over") => x < k.n

Before(x, y) == x # 0 /\ y # 0 => x < y

\* AsTheyHappened, from one queue to the next.
Orderly(w, c) ==
    LET q == out[w].q
        s == subs[w].q
    IN  /\ \A i \in DOMAIN q : Before(last[w][c], Number(q[i], c))
        /\ \A i \in DOMAIN s : Before(last[w][c], Number(s[i], c))
        /\ \A i, j \in DOMAIN q : i < j => Before(Number(q[i], c), Number(q[j], c))
        /\ \A i \in DOMAIN q, j \in DOMAIN s : Before(Number(q[i], c), Number(s[j], c))
        /\ \A i, j \in DOMAIN s : i < j => Before(Number(s[i], c), Number(s[j], c))

News == /\ \A c \in Callers : Queued(c)
        /\ \A w \in Watchers, c \in Callers : Orderly(w, c) /\ \A x \in Told(w, c) : Passed(x, c)

-----------------------------------------------------------------------------
(* Frames put in a queue, and tasks that change.                           *)

PeerRec == [pc : {"idle", "waiting", "gone"}, asked : Nat, heard : Nat, n : Nat]
ConnRec == [open : BOOLEAN, claimed : BOOLEAN, finished : BOOLEAN]
OutRec  == [open : BOOLEAN, q : Seq(ToPeer \union Pushes)]
SubRec  == [state : {"none", "live", "dropped"}, q : Seq(Pushes)]

\* What stands where in a queue that was put something in.
LEMMA Put ==
    ASSUME NEW S, NEW s \in Seq(S), NEW e \in S
    PROVE  /\ Append(s, e) \in Seq(S) /\ Append(s, e) # <<>>
           /\ DOMAIN Append(s, e) = 1..Len(s) + 1 /\ Len(Append(s, e)) = Len(s) + 1
           /\ DOMAIN s = 1..Len(s) /\ Len(s) \in Nat
           /\ \A i \in DOMAIN s : Append(s, e)[i] = s[i]
           /\ Append(s, e)[Len(s) + 1] = e
           /\ \A i \in DOMAIN Append(s, e) : i \in DOMAIN s \/ i = Len(s) + 1
  OBVIOUS

\* What is left of a queue that was taken from.
LEMMA Took1 ==
    ASSUME NEW S, NEW s \in Seq(S), s # <<>>
    PROVE  /\ Tail(s) \in Seq(S) /\ Head(s) \in S /\ Head(s) = s[1] /\ 1 \in DOMAIN s
           /\ Len(Tail(s)) = Len(s) - 1 /\ Len(s) \in Nat \ {0} /\ DOMAIN s = 1..Len(s)
           /\ DOMAIN Tail(s) = 1..(Len(s) - 1)
           /\ \A i \in DOMAIN Tail(s) : Tail(s)[i] = s[i + 1] /\ i + 1 \in DOMAIN s
           /\ Len(s) = 1 => Tail(s) = <<>>
<1>1. Tail(s) \in Seq(S) /\ Head(s) \in S /\ Head(s) = s[1]
  OBVIOUS
<1>2. Len(s) \in Nat \ {0} /\ DOMAIN s = 1..Len(s) /\ Len(Tail(s)) = Len(s) - 1
  OBVIOUS
<1>3. 1 \in DOMAIN s /\ DOMAIN Tail(s) = 1..(Len(s) - 1)
  BY <1>1, <1>2
<1>4. \A i \in DOMAIN Tail(s) : Tail(s)[i] = s[i + 1] /\ i + 1 \in DOMAIN s
  BY <1>2, <1>3
<1>5. Len(s) = 1 => Tail(s) = <<>>
  <2> DEFINE u == Tail(s)
  <2>1. u \in Seq(S) /\ (Len(s) = 1 => Len(u) = 0)
    BY <1>1, <1>2
  <2> HIDE DEF u
  <2>2. u # <<>> => Len(u) \in Nat \ {0}
    BY <2>1, EmptySeq
  <2>3. Len(s) = 1 => u = <<>>
    BY <2>1, <2>2
  <2> QED  BY <2>3 DEF u
<1> QED  BY <1>1, <1>2, <1>3, <1>4, <1>5

LEMMA Sent ==
    ASSUME TypeOK, NEW c \in Clients, NEW f \in ToPeer \union Pushes, Send(c, f)
    PROVE  /\ out' \in [Clients -> OutRec]
           /\ \A d \in Clients \ {c} : out'[d] = out[d]
           /\ out'[c].q = out[c].q \/ out'[c].q = Append(out[c].q, f)
<1>1. out \in [Clients -> OutRec]
  BY DEF TypeOK, OutRec
<1>2. CASE Fits(c)
  <2>1. out[c].q \in Seq(ToPeer \union Pushes)
    BY <1>1 DEF OutRec
  <2>2. Append(out[c].q, f) \in Seq(ToPeer \union Pushes)
    BY <2>1
  <2>3. out' = [out EXCEPT ![c].q = Append(@, f)]
    BY <1>2 DEF Send
  <2> QED  BY <1>1, <2>2, <2>3 DEF OutRec
<1>3. CASE ~Fits(c)
  BY <1>1, <1>3 DEF Send
<1> QED  BY <1>2, <1>3

LEMMA Became ==
    ASSUME TypeOK, NEW c \in Clients, NEW t \in tasks[c], NEW u \in Tasks, Become(c, t, u)
    PROVE  /\ tasks' \in [Clients -> SUBSET Tasks]
           /\ \A d \in Clients \ {c} : tasks'[d] = tasks[d]
           /\ tasks'[c] = (tasks[c] \ {t}) \union {u}
  BY DEF Become, TypeOK

LEMMA Ended ==
    ASSUME TypeOK, NEW c \in Clients, NEW t \in tasks[c], Ends(c, t)
    PROVE  /\ tasks' \in [Clients -> SUBSET Tasks]
           /\ \A d \in Clients \ {c} : tasks'[d] = tasks[d]
           /\ tasks'[c] = tasks[c] \ {t}
  BY DEF Ends, TypeOK

LEMMA ATask == ASSUME TypeOK, NEW c \in Clients, NEW t \in tasks[c] PROVE t \in Tasks
  BY DEF TypeOK

-----------------------------------------------------------------------------
(* The types.                                                              *)

LEMMA TypeInit == Init => TypeOK
  BY DEF Init, TypeOK, NewConn

\* What a client writes.
LEMMA Writes ==
    ASSUME TypeOK, NEW c \in Clients, NEW f \in ToCore, up' = [up EXCEPT ![c] = Append(@, f)]
    PROVE  /\ up' \in [Clients -> Seq(ToCore)] /\ up'[c] = Append(up[c], f)
           /\ \A d \in Clients \ {c} : up'[d] = up[d]
<1>1. up[c] \in Seq(ToCore)
  BY DEF TypeOK
<1>2. Append(up[c], f) \in Seq(ToCore)
  BY <1>1
<1> QED  BY <1>2 DEF TypeOK

\* Only what a caller or a window is and writes changes in these.
LEMMA TypePeer ==
    ASSUME TypeOK, peer' \in [Clients -> PeerRec], up' \in [Clients -> Seq(ToCore)],
           UNCHANGED <<conn, tasks, out, cmds, turn, subs, last>>
    PROVE  TypeOK'
  BY DEF TypeOK, PeerRec

LEMMA OpsAreNamed == Asked \subseteq Named /\ {"status", "watch", "turn.claim", ""} \subseteq Named
  BY DEF Asked, Named, Ops, AgentOps, ViewerOps

LEMMA FrameToCore ==
    ASSUME NEW n \in Nat, NEW id \in Nat, NEW op \in Named
    PROVE  Req(id, op, n) \in ToCore /\ Ev(n) \in ToCore /\ Torn \in ToCore
  BY DEF Req, Ev, Torn, ToCore, Named

LEMMA FrameToPeer ==
    ASSUME NEW n \in Nat, NEW id \in Nat, NEW c \in Clients
    PROVE  /\ Part(id, n) \in ToPeer /\ Rep(id) \in ToPeer /\ Err(id) \in ToPeer
           /\ PushOf(c, n) \in Pushes
  BY DEF Part, Rep, Err, ToPeer, PushOf, Pushes

\* How each step of a client changes what it is and what it writes.
LEMMA ClientSteps ==
    ASSUME TypeOK, NEW c \in Clients, Client(c)
    PROVE  \E pp \in PeerRec :
           /\ peer' = [peer EXCEPT ![c] = pp]
           /\ UNCHANGED <<conn, tasks, out, cmds, turn, subs, last>>
           /\ \/ /\ c \in Callers /\ peer[c].pc = "idle" /\ pp = [peer[c] EXCEPT !.n = @ + 1]
                 /\ up' = [up EXCEPT ![c] = Append(@, Ev(peer[c].n + 1))]
              \/ /\ c \in Callers /\ peer[c].pc = "idle"
                 /\ pp = [pc |-> "waiting", asked |-> peer[c].asked + 1, heard |-> 0, n |-> peer[c].n + 1]
                 /\ \E op \in Asked :
                        up' = [up EXCEPT ![c] = Append(@, Req(peer[c].asked + 1, op, peer[c].n + 1))]
              \/ /\ c \in Watchers
                 /\ \E op \in {"status", "watch"} : up' = [up EXCEPT ![c] = Append(@, Req(1, op, 0))]
              \/ /\ pp.pc = "gone" /\ pp.n = peer[c].n /\ pp.asked = peer[c].asked
                 /\ up' = up \/ (peer[c].pc # "gone" /\ up' = [up EXCEPT ![c] = Append(@, Torn)])
<1> DEFINE p == peer[c]
<1>1. p \in PeerRec /\ peer \in [Clients -> PeerRec]
  BY DEF TypeOK, PeerRec
<1> DEFINE Goal(pp) == 
           /\ peer' = [peer EXCEPT ![c] = pp]
           /\ UNCHANGED <<conn, tasks, out, cmds, turn, subs, last>>
           /\ \/ /\ c \in Callers /\ peer[c].pc = "idle" /\ pp = [peer[c] EXCEPT !.n = @ + 1]
                 /\ up' = [up EXCEPT ![c] = Append(@, Ev(peer[c].n + 1))]
              \/ /\ c \in Callers /\ peer[c].pc = "idle"
                 /\ pp = [pc |-> "waiting", asked |-> peer[c].asked + 1, heard |-> 0, n |-> peer[c].n + 1]
                 /\ \E op \in Asked :
                        up' = [up EXCEPT ![c] = Append(@, Req(peer[c].asked + 1, op, peer[c].n + 1))]
              \/ /\ c \in Watchers
                 /\ \E op \in {"status", "watch"} : up' = [up EXCEPT ![c] = Append(@, Req(1, op, 0))]
              \/ /\ pp.pc = "gone" /\ pp.n = peer[c].n /\ pp.asked = peer[c].asked
                 /\ up' = up \/ (peer[c].pc # "gone" /\ up' = [up EXCEPT ![c] = Append(@, Torn)])
<1> SUFFICES \E pp \in PeerRec : Goal(pp)
  OBVIOUS
<1>2. CASE Emit(c)
  <2> DEFINE pp == [p EXCEPT !.n = @ + 1]
  <2>1. pp \in PeerRec
    BY <1>1 DEF PeerRec
  <2>2. Goal(pp)
    BY <1>1, <1>2 DEF Emit, MayDo, Does
  <2> QED  BY <2>1, <2>2
<1>3. ASSUME NEW op \in Asked, Call(c, op) PROVE \E pp \in PeerRec : Goal(pp)
  <2> DEFINE pp == [pc |-> "waiting", asked |-> p.asked + 1, heard |-> 0, n |-> p.n + 1]
  <2>1. pp \in PeerRec
    BY <1>1 DEF PeerRec
  <2>2. Goal(pp)
    BY <1>1, <1>3 DEF Call, MayDo, Does
  <2> QED  BY <2>1, <2>2
<1>4. CASE Open(c)
  <2> DEFINE pp == [p EXCEPT !.asked = 1]
  <2>1. pp \in PeerRec
    BY <1>1 DEF PeerRec
  <2>2. Goal(pp)
    BY <1>1, <1>4 DEF Open, Does
  <2> QED  BY <2>1, <2>2
<1>5. ASSUME NEW op \in Talked, Talk(c, op) PROVE \E pp \in PeerRec : Goal(pp)
  <2> DEFINE pp == [p EXCEPT !.asked = 1, !.pc = "waiting"]
  <2>1. pp \in PeerRec
    BY <1>1 DEF PeerRec
  <2>2. Goal(pp)
    BY <1>1, <1>5 DEF Talk, Does, Talked
  <2> QED  BY <2>1, <2>2
<1>6. CASE GivesUp(c) \/ Leave(c) \/ Die(c)
  <2> DEFINE pp == [p EXCEPT !.pc = "gone"]
  <2>1. pp \in PeerRec
    BY <1>1 DEF PeerRec
  <2>2. pp.pc = "gone" /\ pp.n = p.n /\ pp.asked = p.asked
    BY <1>1 DEF PeerRec
  <2>3. Goal(pp)
    BY <1>1, <1>6, <2>2 DEF GivesUp, Leave, Die
  <2> QED  BY <2>1, <2>3
<1> HIDE DEF Goal
<1> QED  BY <1>2, <1>3, <1>4, <1>5, <1>6 DEF Client

LEMMA TypeClient == ASSUME TypeOK, NEW c \in Clients, Client(c) PROVE TypeOK'
<1>1. PICK pp \in PeerRec :
           /\ peer' = [peer EXCEPT ![c] = pp]
           /\ UNCHANGED <<conn, tasks, out, cmds, turn, subs, last>>
           /\ up' = up \/ \E f \in ToCore : up' = [up EXCEPT ![c] = Append(@, f)]
  <2>1. peer[c].n + 1 \in Nat /\ peer[c].asked + 1 \in Nat /\ 0 \in Nat /\ 1 \in Nat
    BY DEF TypeOK
  <2>2. \A op \in Asked \union {"status", "watch"}, id, n \in Nat : Req(id, op, n) \in ToCore
    BY OpsAreNamed, FrameToCore
  <2>3. Torn \in ToCore /\ \A n \in Nat : Ev(n) \in ToCore
    BY OpsAreNamed, FrameToCore
  <2>4. /\ \A op \in Asked : Req(peer[c].asked + 1, op, peer[c].n + 1) \in ToCore
        /\ \A op \in {"status", "watch"} : Req(1, op, 0) \in ToCore
        /\ Ev(peer[c].n + 1) \in ToCore
    BY <2>1, <2>2, <2>3
  <2> QED  BY <2>3, <2>4, ClientSteps
<1>2. up' \in [Clients -> Seq(ToCore)]
  BY <1>1, Writes DEF TypeOK
<1>3. peer' \in [Clients -> PeerRec]
  BY <1>1 DEF TypeOK, PeerRec
<1> QED  BY <1>1, <1>2, <1>3, TypePeer

LEMMA TookUp ==
    ASSUME TypeOK, NEW c \in Clients, up[c] # <<>>, Took(c)
    PROVE  /\ up' \in [Clients -> Seq(ToCore)] /\ up'[c] = Tail(up[c])
           /\ \A d \in Clients \ {c} : up'[d] = up[d]
           /\ Head(up[c]) \in ToCore
<1>1. up[c] \in Seq(ToCore)
  BY DEF TypeOK
<1>2. Tail(up[c]) \in Seq(ToCore) /\ Head(up[c]) \in ToCore
  BY <1>1
<1> QED  BY <1>2 DEF TypeOK, Took

LEMMA ANewTask == ASSUME NEW f \in ToCore PROVE NewTask(f) \in Tasks
  BY DEF NewTask, Tasks, ToCore

LEMMA ACommand ==
    ASSUME NEW kind \in Named \union {"event", "abandon"}, NEW c \in Clients, NEW id \in Nat, NEW n \in Nat
    PROVE  Cmd(kind, c, id, n) \in Commands
  BY DEF Cmd, Commands

\* What the hub is told.
LEMMA Queueing ==
    ASSUME TypeOK, NEW k \in Commands PROVE Append(cmds, k) \in Seq(Commands)
<1>1. cmds \in Seq(Commands)
  BY DEF TypeOK
<1> QED  BY <1>1

LEMMA ConnHolds == ASSUME TypeOK PROVE conn \in [Clients -> ConnRec]
  BY DEF TypeOK, ConnRec

LEMMA TypeRead == ASSUME TypeOK, NEW c \in Clients, Read(c) PROVE TypeOK'
<1> DEFINE f == Head(up[c])
<1>1. CASE OnEvent(c)
  <2>1. f \in ToCore /\ up' \in [Clients -> Seq(ToCore)]
    BY <1>1, TookUp DEF OnEvent, Next1
  <2>2. f.n \in Nat
    BY <2>1 DEF ToCore
  <2>3. cmds' \in Seq(Commands)
    BY <1>1, <2>2, ACommand, Queueing DEF OnEvent
  <2> QED  BY <1>1, <2>1, <2>3 DEF OnEvent, TypeOK
<1>2. CASE Refuse(c)
  <2>1. f \in ToCore /\ up' \in [Clients -> Seq(ToCore)]
    BY <1>2, TookUp DEF Refuse, Next1
  <2>2. Err(f.id) \in ToPeer
    BY <2>1, FrameToPeer DEF ToCore
  <2>3. out' \in [Clients -> OutRec]
    BY <1>2, <2>2, Sent DEF Refuse
  <2> QED  BY <1>2, <2>1, <2>3 DEF Refuse, TypeOK, OutRec
<1>3. CASE OnRequest(c)
  <2>1. f \in ToCore /\ up' \in [Clients -> Seq(ToCore)]
    BY <1>3, TookUp DEF OnRequest, Next1
  <2>2. NewTask(f) \in Tasks
    BY <2>1, ANewTask
  <2>3. tasks' \in [Clients -> SUBSET Tasks]
    BY <1>3, <2>2 DEF OnRequest, TypeOK
  <2> QED  BY <1>3, <2>1, <2>3 DEF OnRequest, TypeOK
<1>4. CASE Close(c)
  <2>1. up' \in [Clients -> Seq(ToCore)]
    <3>1. CASE up[c] # <<>> /\ Took(c)
      BY <3>1, TookUp
    <3>2. CASE up' = up
      BY <3>2 DEF TypeOK
    <3> QED  BY <1>4, <3>1, <3>2 DEF Close, Next1
  <2>2. conn' \in [Clients -> ConnRec]
    <3>1. conn \in [Clients -> ConnRec]
      BY ConnHolds
    <3>2. conn' = [conn EXCEPT ![c].open = FALSE]
      BY <1>4 DEF Close
    <3> QED  BY <3>1, <3>2 DEF ConnRec
  <2>3. peer[c].n + 1 \in Nat /\ 0 \in Nat
    BY DEF TypeOK
  <2>4. cmds' \in Seq(Commands)
    BY <1>4, <2>3, ACommand, Queueing DEF Close, TypeOK
  <2> QED  BY <1>4, <2>1, <2>2, <2>4 DEF Close, TypeOK, ConnRec
<1> QED  BY <1>1, <1>2, <1>3, <1>4 DEF Read

\* What is left of the frames to a peer that reads one.
LEMMA TookOut ==
    ASSUME TypeOK, NEW c \in Clients, out[c].q # <<>>, out' = [out EXCEPT ![c].q = Tail(@)]
    PROVE  /\ out' \in [Clients -> OutRec] /\ out'[c].q = Tail(out[c].q)
           /\ \A d \in Clients \ {c} : out'[d] = out[d]
           /\ Head(out[c].q) \in ToPeer \union Pushes
<1>1. out \in [Clients -> OutRec] /\ out[c].q \in Seq(ToPeer \union Pushes)
  BY DEF TypeOK, OutRec
<1>2. Tail(out[c].q) \in Seq(ToPeer \union Pushes) /\ Head(out[c].q) \in ToPeer \union Pushes
  BY <1>1
<1> QED  BY <1>1, <1>2 DEF OutRec

LEMMA Heard ==
    ASSUME TypeOK, NEW c \in Clients, Hears(c)
    PROVE  LET f == Head(out[c].q)
               mine == peer[c].pc = "waiting" /\ f.id = peer[c].asked
           IN  /\ out' \in [Clients -> OutRec] /\ out'[c].q = Tail(out[c].q)
               /\ \A d \in Clients \ {c} : out'[d] = out[d] /\ peer'[d] = peer[d]
               /\ peer' \in [Clients -> PeerRec]
               /\ peer'[c].pc = IF mine /\ Terminal(f) THEN "idle" ELSE peer[c].pc
               /\ peer'[c].heard = IF mine /\ f.of = "part" THEN f.n ELSE peer[c].heard
               /\ peer'[c].asked = peer[c].asked /\ peer'[c].n = peer[c].n
<1> DEFINE f == Head(out[c].q)
           mine == peer[c].pc = "waiting" /\ f.id = peer[c].asked
<1>1. /\ out' \in [Clients -> OutRec] /\ out'[c].q = Tail(out[c].q)
      /\ \A d \in Clients \ {c} : out'[d] = out[d]
      /\ f \in ToPeer \union Pushes
  BY TookOut DEF Hears
<1>2. f.n \in Nat
  BY <1>1 DEF ToPeer, Pushes
<1>3. peer \in [Clients -> PeerRec]
  BY DEF TypeOK, PeerRec
<1>4. peer' = [peer EXCEPT ![c].pc = IF mine /\ Terminal(f) THEN "idle" ELSE @,
                           ![c].heard = IF mine /\ f.of = "part" THEN f.n ELSE @]
  BY DEF Hears
<1> HIDE DEF f, mine
<1>5. /\ peer' \in [Clients -> PeerRec]
      /\ \A d \in Clients \ {c} : peer'[d] = peer[d]
      /\ peer'[c].pc = IF mine /\ Terminal(f) THEN "idle" ELSE peer[c].pc
      /\ peer'[c].heard = IF mine /\ f.of = "part" THEN f.n ELSE peer[c].heard
      /\ peer'[c].asked = peer[c].asked /\ peer'[c].n = peer[c].n
  BY <1>2, <1>3, <1>4 DEF PeerRec
<1> QED  BY <1>1, <1>5 DEF f, mine

LEMMA ReadBy ==
    ASSUME TypeOK, NEW w \in Clients, Reads(w)
    PROVE  LET f == Head(out[w].q) IN
           /\ w \in Watchers /\ out[w].q # <<>>
           /\ out' \in [Clients -> OutRec] /\ out'[w].q = Tail(out[w].q)
           /\ \A d \in Clients \ {w} : out'[d] = out[d] /\ peer'[d] = peer[d]
           /\ peer' \in [Clients -> PeerRec]
           /\ last' \in [Watchers -> [Callers -> Nat]]
           /\ \A d \in Watchers \ {w} : last'[d] = last[d]
           /\ \A c \in Callers : last'[w][c] = IF Number(f, c) # 0 THEN Number(f, c) ELSE last[w][c]
           /\ UNCHANGED <<up, conn, tasks, cmds, turn, subs>>
<1> DEFINE f == Head(out[w].q)
           news == [c \in Callers |-> IF Number(f, c) # 0 THEN Number(f, c) ELSE last[w][c]]
<1>1. /\ out' \in [Clients -> OutRec] /\ out'[w].q = Tail(out[w].q)
      /\ \A d \in Clients \ {w} : out'[d] = out[d]
      /\ f \in ToPeer \union Pushes
  BY TookOut DEF Reads
<1>2. \A c \in Callers : Number(f, c) \in Nat
  BY <1>1 DEF Number, ToPeer, Pushes
<1>3. news \in [Callers -> Nat]
  BY <1>2 DEF TypeOK, Reads
<1>4. last' = [last EXCEPT ![w] = news] /\ w \in Watchers
  BY DEF Reads, TypeOK
<1> HIDE DEF news
<1>5. last' \in [Watchers -> [Callers -> Nat]] /\ last'[w] = news /\ \A d \in Watchers \ {w} : last'[d] = last[d]
  BY <1>3, <1>4 DEF TypeOK
<1>6. peer' \in [Clients -> PeerRec] /\ \A d \in Clients \ {w} : peer'[d] = peer[d]
  <2> DEFINE pc == IF peer[w].pc = "waiting" /\ Terminal(f) THEN "gone" ELSE peer[w].pc
  <2>1. peer \in [Clients -> PeerRec]
    BY DEF TypeOK, PeerRec
  <2>2. pc \in {"idle", "waiting", "gone"}
    BY <2>1 DEF PeerRec
  <2>3. peer' = [peer EXCEPT ![w].pc = pc]
    BY DEF Reads
  <2> HIDE DEF pc
  <2> QED  BY <2>1, <2>2, <2>3 DEF PeerRec
<1>7. out[w].q # <<>> /\ UNCHANGED <<up, conn, tasks, cmds, turn, subs>>
  BY DEF Reads
<1> QED  BY <1>1, <1>4, <1>5, <1>6, <1>7 DEF news

LEMMA TypeListen == ASSUME TypeOK, NEW c \in Clients, Listen(c) PROVE TypeOK'
<1>1. CASE Hears(c)
  <2>1. peer' \in [Clients -> PeerRec] /\ out' \in [Clients -> OutRec]
    BY <1>1, Heard
  <2> QED  BY <1>1, <2>1 DEF Hears, TypeOK, PeerRec, OutRec
<1>2. CASE Reads(c)
  <2>1. /\ peer' \in [Clients -> PeerRec] /\ out' \in [Clients -> OutRec]
        /\ last' \in [Watchers -> [Callers -> Nat]]
        /\ UNCHANGED <<up, conn, tasks, cmds, turn, subs>>
    BY <1>2, ReadBy
  <2> QED  BY <2>1 DEF TypeOK, PeerRec, OutRec
<1>3. CASE Break(c)
  <2>1. [open |-> FALSE, q |-> <<>>] \in OutRec
    BY DEF OutRec
  <2>2. out' \in [Clients -> OutRec]
    BY <1>3, <2>1 DEF Break, TypeOK, OutRec
  <2> QED  BY <1>3, <2>2 DEF Break, TypeOK, OutRec
<1> QED  BY <1>1, <1>2, <1>3 DEF Listen

\* Each step of a task: what becomes of it, what it says, what it tells the hub.
LEMMA TypeWork ==
    ASSUME TypeOK, NEW c \in Clients, NEW t \in tasks[c],
           Asks(c, t) \/ Tells(c, t) \/ Forward(c, t) \/ Generates(c, t) \/ Pump(c, t)
             \/ Completes(c, t) \/ Brain(c, t)
    PROVE  TypeOK'
<1>1. /\ t \in Tasks /\ t.id \in Nat /\ t.n \in Nat /\ t.sent \in Nat /\ t.said \in Nat
      /\ t.op \in Named /\ 0 \in Nat
  BY ATask DEF Tasks
<1>2. CASE Asks(c, t)
  <2>1. [t EXCEPT !.at = "hub"] \in Tasks
    BY <1>1 DEF Tasks
  <2>2. tasks' \in [Clients -> SUBSET Tasks]
    BY <1>2, <2>1, Became DEF Asks
  <2>3. cmds' \in Seq(Commands)
    BY <1>1, <1>2, ACommand, Queueing DEF Asks
  <2> QED  BY <1>2, <2>2, <2>3 DEF Asks, TypeOK
<1>3. CASE Tells(c, t)
  <2>1. [t EXCEPT !.at = "watching"] \in Tasks
    BY <1>1 DEF Tasks
  <2>2. tasks' \in [Clients -> SUBSET Tasks]
    BY <1>3, <2>1, Became, Ended DEF Tells
  <2>3. out' \in [Clients -> OutRec]
    BY <1>1, <1>3, Sent, FrameToPeer DEF Tells
  <2>4. conn' \in [Clients -> ConnRec]
    <3> DEFINE claimed == conn[c].claimed \/ (t.op = "turn.claim" /\ t.ok)
               finished == conn[c].finished \/ (t.op = "turn.end" /\ t.ok)
    <3>1. claimed \in BOOLEAN /\ finished \in BOOLEAN
      OBVIOUS
    <3>2. conn' = [conn EXCEPT ![c].claimed = claimed, ![c].finished = finished]
      BY <1>3 DEF Tells
    <3>3. conn \in [Clients -> ConnRec]
      BY DEF TypeOK, ConnRec
    <3> HIDE DEF claimed, finished
    <3> QED  BY <3>1, <3>2, <3>3 DEF ConnRec
  <2> QED  BY <1>3, <2>2, <2>3, <2>4 DEF Tells, TypeOK, OutRec, ConnRec
<1>4. CASE Forward(c, t)
  <2>1. subs[c].q \in Seq(Pushes) /\ subs[c].q # <<>> /\ subs \in [Clients -> SubRec]
    BY <1>4 DEF TypeOK, Forward, SubRec
  <2>2. Head(subs[c].q) \in Pushes /\ Tail(subs[c].q) \in Seq(Pushes)
    BY <2>1
  <2>3. out' \in [Clients -> OutRec]
    BY <1>4, <2>2, Sent DEF Forward
  <2>4. tasks' \in [Clients -> SUBSET Tasks]
    BY <1>4, Ended DEF Forward, TypeOK
  <2>5. subs' \in [Clients -> SubRec]
    <3>1. CASE out[c].open
      BY <1>4, <2>1, <2>2, <3>1 DEF Forward, SubRec
    <3>2. CASE ~out[c].open
      <4>1. [state |-> "dropped", q |-> <<>>] \in SubRec
        BY DEF SubRec
      <4> QED  BY <1>4, <2>1, <3>2, <4>1 DEF Forward
    <3> QED  BY <3>1, <3>2
  <2> QED  BY <1>4, <2>3, <2>4, <2>5 DEF Forward, TypeOK, OutRec, SubRec
<1>5. CASE Generates(c, t)
  <2>1. [t EXCEPT !.at = "brain"] \in Tasks
    BY <1>1 DEF Tasks
  <2>2. tasks' \in [Clients -> SUBSET Tasks]
    BY <1>5, <2>1, Became DEF Generates
  <2> QED  BY <1>5, <2>2 DEF Generates, TypeOK
<1>6. CASE Pump(c, t)
  <2>1. [t EXCEPT !.sent = @ + 1] \in Tasks /\ t.sent + 1 \in Nat
    BY <1>1 DEF Tasks
  <2>2. tasks' \in [Clients -> SUBSET Tasks]
    BY <1>6, <2>1, Became DEF Pump
  <2>3. Part(t.id, t.sent + 1) \in ToPeer
    BY <1>1, <2>1, FrameToPeer
  <2>4. out' \in [Clients -> OutRec]
    BY <1>6, <2>3, Sent DEF Pump
  <2> QED  BY <1>6, <2>2, <2>4 DEF Pump, TypeOK, OutRec
<1>7. CASE Completes(c, t)
  <2>1. [t EXCEPT !.at = "late"] \in Tasks
    BY <1>1 DEF Tasks
  <2>2. tasks' \in [Clients -> SUBSET Tasks]
    BY <1>7, <2>1, Became, Ended DEF Completes
  <2>3. out' \in [Clients -> OutRec]
    BY <1>1, <1>7, Sent, FrameToPeer DEF Completes
  <2>4. cmds' \in Seq(Commands)
    BY <1>1, <1>7, ACommand, Queueing DEF Completes, TypeOK
  <2> QED  BY <1>7, <2>2, <2>3, <2>4 DEF Completes, TypeOK, OutRec
<1>8. CASE Brain(c, t)
  <2>1. /\ [t EXCEPT !.said = @ + 1] \in Tasks /\ [t EXCEPT !.at = "pump"] \in Tasks
        /\ [t EXCEPT !.at = "pump", !.ok = FALSE] \in Tasks
    <3>1. t.said + 1 \in Nat
      BY <1>1
    <3>2. [t EXCEPT !.said = @ + 1] \in Tasks
      BY <1>1, <3>1 DEF Tasks
    <3>3. [t EXCEPT !.at = "pump"] \in Tasks
      BY <1>1 DEF Tasks
    <3>4. [t EXCEPT !.at = "pump", !.ok = FALSE] \in Tasks
      BY <1>1 DEF Tasks
    <3> QED  BY <3>2, <3>3, <3>4
  <2>2. tasks' \in [Clients -> SUBSET Tasks]
    BY <1>8, <2>1, Became DEF Brain
  <2> QED  BY <1>8, <2>2 DEF Brain, TypeOK
<1> QED  BY <1>2, <1>3, <1>4, <1>5, <1>6, <1>7, <1>8

\* What the hub's answer makes of a request's task, and what its news makes of a queue.
Answered(t, k) == IF t.at = "hub" /\ t.id = k.task THEN [t EXCEPT !.at = "told", !.ok = Decides(k)] ELSE t

LEMMA Handled ==
    ASSUME TypeOK, Handle
    PROVE  LET k == Head(cmds) IN
           /\ cmds # <<>> /\ k \in Commands /\ cmds' = Tail(cmds) /\ cmds' \in Seq(Commands)
           /\ UNCHANGED <<peer, up, conn, out, last>>
           /\ tasks' \in [Clients -> SUBSET Tasks]
           /\ \A d \in Clients \ {k.c} : tasks'[d] = tasks[d]
           /\ tasks'[k.c] = {Answered(t, k) : t \in tasks[k.c]}
           /\ turn' \in [Callers -> {"open", "held", "over"}]
           /\ \A d \in Callers \ {k.c} : turn'[d] = turn[d]
           /\ k.c \in Callers => /\ turn[k.c] = "over" => turn'[k.c] = "over"
                                 /\ k.kind = "abandon" => turn'[k.c] = "over"
           /\ subs' \in [Clients -> SubRec]
           /\ k.kind = "watch" => subs' = [subs EXCEPT ![k.c] = [state |-> "live", q |-> <<>>]]
           /\ \A d \in Clients : k.kind # "watch" =>
                 \/ subs'[d].q = <<>> \/ subs'[d].q = subs[d].q
                 \/ Announces(k) /\ subs[d].state = "live" /\ subs'[d].q = Append(subs[d].q, PushOf(k.c, k.n))
           /\ \A d \in Clients : k.kind # "watch" /\ subs[d].state = "none" => subs'[d].state = "none"
<1> DEFINE k == Head(cmds)
<1>1. cmds # <<>> /\ cmds' = Tail(cmds) /\ UNCHANGED <<peer, up, conn, out, last>>
  BY DEF Handle
<1>2. k \in Commands /\ cmds' \in Seq(Commands)
  BY <1>1 DEF TypeOK
<1>3. k.c \in Clients /\ k.n \in Nat /\ Decides(k) \in BOOLEAN
  BY <1>2 DEF Commands, Decides
<1>4. tasks' = [tasks EXCEPT ![k.c] = {Answered(t, k) : t \in @}]
  BY DEF Handle, Answered
<1>5. \A t \in tasks[k.c] : Answered(t, k) \in Tasks
  <2> SUFFICES ASSUME NEW t \in tasks[k.c] PROVE Answered(t, k) \in Tasks
    OBVIOUS
  <2> DEFINE ok == Decides(k)
  <2>1. t \in Tasks /\ ok \in BOOLEAN
    BY <1>3, ATask
  <2> HIDE DEF ok
  <2>2. [t EXCEPT !.at = "told", !.ok = ok] \in Tasks
    BY <2>1 DEF Tasks
  <2> QED  BY <2>1, <2>2 DEF Answered, ok
<1>6. /\ tasks' \in [Clients -> SUBSET Tasks]
      /\ \A d \in Clients \ {k.c} : tasks'[d] = tasks[d]
      /\ tasks'[k.c] = {Answered(t, k) : t \in tasks[k.c]}
  <2> HIDE DEF k
  <2> QED  BY <1>3, <1>4, <1>5 DEF TypeOK
<1>7. /\ turn' \in [Callers -> {"open", "held", "over"}]
      /\ \A d \in Callers \ {k.c} : turn'[d] = turn[d]
      /\ k.c \in Callers => /\ turn[k.c] = "over" => turn'[k.c] = "over"
                            /\ k.kind = "abandon" => turn'[k.c] = "over"
  <2>1. turn \in [Callers -> {"open", "held", "over"}]
    BY DEF TypeOK
  <2>2. turn' = [c \in Callers |-> IF c = k.c THEN Becomes(k) ELSE turn[c]]
    BY DEF Handle
  <2>3. Becomes(k) \in {turn[k.c], "held", "over"}
    BY DEF Becomes
  <2>4. /\ k.kind = "abandon" => Becomes(k) = "over"
        /\ turn[k.c] = "over" => Becomes(k) = "over"
    BY DEF Becomes, Decides
  <2> HIDE DEF k
  <2> QED  BY <2>1, <2>2, <2>3, <2>4
<1>8. PushOf(k.c, k.n) \in Pushes
  BY <1>3, FrameToPeer
<1>9. \A d \in Clients : subs[d] \in SubRec /\ subs[d].q \in Seq(Pushes)
  BY DEF TypeOK, SubRec
<1> DEFINE e == PushOf(k.c, k.n)
<1>10. \A d \in Clients : Append(subs[d].q, e) \in Seq(Pushes)
  BY <1>8, <1>9
<1> HIDE DEF e
<1>11. ASSUME Fanout(e)
       PROVE  /\ subs' \in [Clients -> SubRec]
              /\ \A d \in Clients :
                    /\ \/ subs'[d].q = <<>> \/ subs'[d].q = subs[d].q
                       \/ subs[d].state = "live" /\ subs'[d].q = Append(subs[d].q, e)
                    /\ subs[d].state = "none" => subs'[d].state = "none"
  <2> DEFINE S(d) == CASE subs[d].state = "dropped" -> [state |-> "none", q |-> <<>>]
                       [] subs[d].state = "live" /\ Len(subs[d].q) < SubDepth -> [subs[d] EXCEPT !.q = Append(@, e)]
                       [] OTHER -> subs[d]
  <2>1. subs' = [d \in Clients |-> S(d)]
    BY <1>11 DEF Fanout
  <2>2. ASSUME NEW d \in Clients
        PROVE  /\ S(d) \in SubRec
               /\ \/ S(d).q = <<>> \/ S(d).q = subs[d].q
                  \/ subs[d].state = "live" /\ S(d).q = Append(subs[d].q, e)
               /\ subs[d].state = "none" => S(d).state = "none"
    <3>1. CASE subs[d].state = "dropped"
      <4>1. [state |-> "none", q |-> <<>>] \in SubRec
        BY DEF SubRec
      <4> QED  BY <3>1, <4>1
    <3>2. CASE subs[d].state = "live" /\ Len(subs[d].q) < SubDepth
      <4> DEFINE q == Append(subs[d].q, e)
      <4>1. q \in Seq(Pushes) /\ subs[d] \in SubRec /\ S(d) = [subs[d] EXCEPT !.q = q]
        BY <1>9, <1>10, <3>2
      <4> HIDE DEF q
      <4>2. [subs[d] EXCEPT !.q = q] \in SubRec /\ [subs[d] EXCEPT !.q = q].q = q
        BY <4>1 DEF SubRec
      <4> QED  BY <3>2, <4>1, <4>2 DEF q
    <3>3. CASE subs[d].state # "dropped" /\ ~(subs[d].state = "live" /\ Len(subs[d].q) < SubDepth)
      BY <1>9, <3>3
    <3> QED  BY <3>1, <3>2, <3>3
  <2> HIDE DEF S
  <2> QED  BY <2>1, <2>2
<1>12. CASE k.kind = "watch"
  <2>1. subs' = [subs EXCEPT ![k.c] = [state |-> "live", q |-> <<>>]]
    BY <1>12 DEF Handle
  <2>2. [state |-> "live", q |-> <<>>] \in SubRec
    BY DEF SubRec
  <2>3. subs' \in [Clients -> SubRec]
    BY <2>1, <2>2, <1>9 DEF TypeOK
  <2> QED  BY <1>1, <1>2, <1>6, <1>7, <1>12, <2>1, <2>3
<1>13. CASE k.kind # "watch" /\ Announces(k)
  <2>1. Fanout(e)
    BY <1>13 DEF Handle, e
  <2> QED  BY <1>1, <1>2, <1>6, <1>7, <1>11, <1>13, <2>1 DEF e
<1>14. CASE k.kind # "watch" /\ ~Announces(k)
  <2>1. subs' = subs
    BY <1>14 DEF Handle
  <2>2. subs \in [Clients -> SubRec]
    BY DEF TypeOK, SubRec
  <2> QED  BY <1>1, <1>2, <1>6, <1>7, <1>9, <1>14, <2>1, <2>2
<1> QED  BY <1>12, <1>13, <1>14

LEMMA TypeHandle == ASSUME TypeOK, Handle PROVE TypeOK'
<1>1. /\ cmds' \in Seq(Commands) /\ UNCHANGED <<peer, up, conn, out, last>>
      /\ tasks' \in [Clients -> SUBSET Tasks]
      /\ turn' \in [Callers -> {"open", "held", "over"}]
      /\ subs' \in [Clients -> SubRec]
  BY Handled
<1> QED  BY <1>1 DEF TypeOK, SubRec

LEMMA TypeStep == TypeOK /\ [Next]_vars => TypeOK'
<1> SUFFICES ASSUME TypeOK, [Next]_vars PROVE TypeOK'
  OBVIOUS
<1>1. ASSUME NEW c \in Clients, Client(c) \/ Listen(c) \/ Read(c) PROVE TypeOK'
  BY <1>1, TypeClient, TypeListen, TypeRead
<1>2. ASSUME NEW c \in Clients, Work(c) \/ Generate(c) PROVE TypeOK'
  BY <1>2, TypeWork DEF Work, Generate
<1>3. CASE Handle
  BY <1>3, TypeHandle
<1>4. CASE UNCHANGED vars
  BY <1>4 DEF vars, TypeOK
<1> QED  BY <1>1, <1>2, <1>3, <1>4 DEF Next

-----------------------------------------------------------------------------
(* The exchange is kept up, step by step.                                  *)

LEMMA Elsewhere ==
    ASSUME NEW d \in Callers, KeptUp(d),
           peer'[d] = peer[d], up'[d] = up[d], conn'[d] = conn[d], tasks'[d] = tasks[d], out'[d] = out[d]
    PROVE  KeptUp(d)'
  BY DEF KeptUp, Written, Underway, ComesBack

LEMMA CallersAreClients == Callers \subseteq Clients /\ Watchers \subseteq Clients
                           /\ \A c \in Callers : c \notin Watchers
  BY WireAssumption DEF Clients

\* What a queue of frames from a client holds.
LEMMA UpHolds ==
    ASSUME TypeOK, NEW c \in Clients
    PROVE  /\ up[c] \in Seq(ToCore) /\ DOMAIN up[c] = 1..Len(up[c]) /\ Len(up[c]) \in Nat
           /\ \A i \in DOMAIN up[c] : up[c][i] \in ToCore /\ up[c][i].n \in Nat
<1>1. up[c] \in Seq(ToCore)
  BY DEF TypeOK
<1>2. DOMAIN up[c] = 1..Len(up[c]) /\ Len(up[c]) \in Nat /\ \A i \in DOMAIN up[c] : up[c][i] \in ToCore
  BY <1>1
<1> QED  BY <1>1, <1>2 DEF ToCore

LEMMA OutHolds ==
    ASSUME TypeOK, NEW c \in Clients
    PROVE  /\ out[c].q \in Seq(ToPeer \union Pushes) /\ DOMAIN out[c].q = 1..Len(out[c].q)
           /\ Len(out[c].q) \in Nat
           /\ \A i \in DOMAIN out[c].q : out[c].q[i].n \in Nat
<1>1. out[c].q \in Seq(ToPeer \union Pushes)
  BY DEF TypeOK
<1>2. /\ DOMAIN out[c].q = 1..Len(out[c].q) /\ Len(out[c].q) \in Nat
      /\ \A i \in DOMAIN out[c].q : out[c].q[i] \in ToPeer \union Pushes
  BY <1>1
<1> QED  BY <1>1, <1>2 DEF ToPeer, Pushes

LEMMA PeerHolds ==
    ASSUME TypeOK, NEW c \in Clients
    PROVE  peer[c].pc \in {"idle", "waiting", "gone"} /\ peer[c].n \in Nat /\ peer[c].asked \in Nat
           /\ peer[c].heard \in Nat
  BY DEF TypeOK

\* A caller writes only while nothing of it is in the core.
LEMMA Quiet ==
    ASSUME NEW c \in Callers, KeptUp(c), peer[c].pc = "idle"
    PROVE  /\ tasks[c] = {} /\ out[c].q = <<>> /\ conn[c].open
           /\ \A i \in DOMAIN up[c] : up[c][i].of \notin {"req", "torn"}
  BY DEF KeptUp, Written, Underway, ComesBack

LEMMA ExchangeClient == ASSUME TypeOK, NEW c \in Clients, NEW d \in Callers, KeptUp(d), Client(c) PROVE KeptUp(d)'
<1>1. PICK pp \in PeerRec :
           /\ peer' = [peer EXCEPT ![c] = pp]
           /\ UNCHANGED <<conn, tasks, out, cmds, turn, subs, last>>
           /\ \/ /\ c \in Callers /\ peer[c].pc = "idle" /\ pp = [peer[c] EXCEPT !.n = @ + 1]
                 /\ up' = [up EXCEPT ![c] = Append(@, Ev(peer[c].n + 1))]
              \/ /\ c \in Callers /\ peer[c].pc = "idle"
                 /\ pp = [pc |-> "waiting", asked |-> peer[c].asked + 1, heard |-> 0, n |-> peer[c].n + 1]
                 /\ \E op \in Asked :
                        up' = [up EXCEPT ![c] = Append(@, Req(peer[c].asked + 1, op, peer[c].n + 1))]
              \/ /\ c \in Watchers
                 /\ \E op \in {"status", "watch"} : up' = [up EXCEPT ![c] = Append(@, Req(1, op, 0))]
              \/ /\ pp.pc = "gone" /\ pp.n = peer[c].n /\ pp.asked = peer[c].asked
                 /\ up' = up \/ (peer[c].pc # "gone" /\ up' = [up EXCEPT ![c] = Append(@, Torn)])
  BY ClientSteps
<1>2. peer'[c] = pp /\ (\A e \in Clients \ {c} : peer'[e] = peer[e] /\ up'[e] = up[e]) /\ d \in Clients
  BY <1>1, CallersAreClients DEF TypeOK
<1>3. CASE c # d
  BY <1>1, <1>2, <1>3, Elsewhere
<1>4. ASSUME c = d, NEW f \in ToCore, f.of \in {"ev", "req"}, f.n = peer[c].n + 1, peer[c].pc = "idle",
             up' = [up EXCEPT ![c] = Append(@, f)],
             pp.n = peer[c].n + 1,
             \/ f.of = "ev" /\ pp.pc = "idle"
             \/ f.of = "req" /\ f.id = pp.asked /\ f.op \in Asked /\ pp.pc = "waiting" /\ pp.heard = 0
      PROVE  KeptUp(d)'
  <2> DEFINE q == up[c]
  <2>1. up'[c] = Append(q, f)
    BY <1>4, Writes
  <2> DEFINE r == up'[c]
  <2>2. /\ DOMAIN r = 1..Len(q) + 1 /\ DOMAIN q = 1..Len(q) /\ Len(q) \in Nat
        /\ \A i \in DOMAIN q : r[i] = q[i]
        /\ r[Len(q) + 1] = f /\ Len(r) = Len(q) + 1
        /\ \A i \in DOMAIN r : i \in DOMAIN q \/ i = Len(q) + 1
        /\ \A i \in DOMAIN q : q[i] \in ToCore /\ q[i].n \in Nat
    BY <1>4, <2>1, Put, UpHolds
  <2>3. /\ tasks[c] = {} /\ out[c].q = <<>> /\ conn[c].open
        /\ \A i \in DOMAIN q : q[i].of \notin {"req", "torn"}
    BY <1>4, Quiet
  <2>4. \A i \in DOMAIN q : q[i].n <= peer[c].n /\ q[i].n # 0
    BY <1>4, <2>3 DEF KeptUp, Written
  <2>5. peer[c].n \in Nat
    BY PeerHolds
  <2>6. \A i, j \in DOMAIN q : i < j => q[i].n < q[j].n
    BY <1>4, <2>4 DEF KeptUp, Written
  <2>7. Written(c)'
    <3> DEFINE k == Len(q)
    <3> HIDE DEF q, k, r
    <3>1. \A i, j \in DOMAIN r : i < j => r[i].n < r[j].n
      <4> SUFFICES ASSUME NEW i \in DOMAIN r, NEW j \in DOMAIN r, i < j PROVE r[i].n < r[j].n
        OBVIOUS
      <4>1. i \in DOMAIN q
        BY <2>2 DEF k
      <4>2. CASE j \in DOMAIN q
        BY <2>2, <2>6, <4>1, <4>2
      <4>3. CASE j = Len(q) + 1
        BY <1>4, <2>2, <2>4, <2>5, <4>1, <4>3
      <4> QED  BY <2>2, <4>2, <4>3
    <3>2. ASSUME NEW i \in DOMAIN r
          PROVE  /\ r[i].n # 0 /\ r[i].n <= pp.n /\ r[i].of # "torn"
                 /\ r[i].of = "req" => /\ r[i].n = pp.n /\ r[i].id = pp.asked /\ r[i].op \in Asked
                                       /\ pp.pc # "idle"
      <4>1. CASE i \in DOMAIN q
        BY <1>4, <2>2, <2>3, <2>4, <2>5, <4>1
      <4>2. CASE i = Len(q) + 1
        BY <1>4, <2>2, <2>5, <4>2
      <4> QED  BY <2>2, <4>1, <4>2
    <3> QED  BY <1>1, <1>2, <2>3, <3>1, <3>2 DEF Written, r
  <2> HIDE DEF q, r
  <2>8. Underway(c)' /\ ComesBack(c)'
    BY <1>1, <1>2, <1>4, <2>3 DEF Underway, ComesBack
  <2> QED  BY <1>4, <2>7, <2>8 DEF KeptUp
<1>5. ASSUME c = d, pp.pc = "gone", pp.n = peer[c].n, pp.asked = peer[c].asked, up' = up PROVE KeptUp(d)'
  BY <1>1, <1>2, <1>5 DEF KeptUp, Written, Underway, ComesBack
<1>6. ASSUME c = d, pp.pc = "gone", pp.n = peer[c].n, pp.asked = peer[c].asked, peer[c].pc # "gone",
             up' = [up EXCEPT ![c] = Append(@, Torn)]
      PROVE  KeptUp(d)'
  <2> DEFINE q == up[c]
             f == Torn
  <2>1. f \in ToCore /\ f.of = "torn" /\ f.n = 0
    BY FrameToCore, OpsAreNamed, PeerHolds DEF Torn
  <2> HIDE DEF f
  <2>2. up'[c] = Append(q, f)
    BY <1>6, <2>1, Writes DEF f
  <2> DEFINE r == up'[c]
  <2>3. /\ DOMAIN r = 1..Len(q) + 1 /\ DOMAIN q = 1..Len(q) /\ Len(q) \in Nat
        /\ \A i \in DOMAIN q : r[i] = q[i] /\ i # Len(q) + 1 /\ q[i].n \in Nat
        /\ r[Len(q) + 1] = f /\ Len(r) = Len(q) + 1
        /\ \A i \in DOMAIN r : i \in DOMAIN q \/ i = Len(q) + 1
    BY <2>1, <2>2, Put, UpHolds
  <2>4. conn[c].open /\ \A i \in DOMAIN q : q[i].of # "torn"
    BY <1>6 DEF KeptUp, Written
  <2>5. Written(c)'
    <3> HIDE DEF r
    <3>1. \A i, j \in DOMAIN r : i < j /\ r[j].n # 0 => r[i].n < r[j].n
      <4> SUFFICES ASSUME NEW i \in DOMAIN r, NEW j \in DOMAIN r, i < j, r[j].n # 0 PROVE r[i].n < r[j].n
        OBVIOUS
      <4>1. i \in DOMAIN q /\ j \in DOMAIN q
        BY <2>1, <2>3
      <4> QED  BY <1>6, <2>3, <4>1 DEF KeptUp, Written
    <3>2. ASSUME NEW i \in DOMAIN r
          PROVE  /\ r[i].of = "torn" <=> r[i].n = 0
                 /\ r[i].n <= pp.n
                 /\ r[i].of = "torn" => i = Len(r)
                 /\ r[i].of = "req" => /\ r[i].n = pp.n /\ r[i].id = pp.asked /\ r[i].op \in Asked
                                       /\ pp.pc # "idle" /\ tasks[c] = {}
      <4>1. CASE i \in DOMAIN q
        BY <1>6, <2>3, <2>4, <4>1 DEF KeptUp, Written
      <4>2. CASE i = Len(q) + 1
        BY <1>6, <2>1, <2>3, <4>2, PeerHolds
      <4> QED  BY <2>3, <4>1, <4>2
    <3>3. up'[c] = r /\ conn'[c].open /\ peer'[c] = pp /\ tasks'[c] = tasks[c] /\ pp.pc = "gone"
      BY <1>1, <1>2, <1>6, <2>4 DEF r
    <3> QED  BY ONLY <3>1, <3>2, <3>3 DEF Written
  <2> HIDE DEF q
  <2>6. Underway(c)'
    BY <1>1, <1>2, <1>6, <2>1, <2>2, <2>3 DEF KeptUp, Underway, q
  <2>7. ComesBack(c)'
    BY <1>1, <1>2, <1>6, <2>1, <2>2, <2>3 DEF KeptUp, ComesBack, q
  <2> QED  BY <1>6, <2>5, <2>6, <2>7 DEF KeptUp
<1>7. peer[c].n + 1 \in Nat /\ peer[c].asked + 1 \in Nat /\ peer[c] \in PeerRec
  BY DEF TypeOK, PeerRec
<1>8. CASE c = d /\ up' = [up EXCEPT ![c] = Append(@, Ev(peer[c].n + 1))] /\ peer[c].pc = "idle"
           /\ pp = [peer[c] EXCEPT !.n = @ + 1]
  <2>1. Ev(peer[c].n + 1) \in ToCore /\ Ev(peer[c].n + 1).of = "ev" /\ Ev(peer[c].n + 1).n = peer[c].n + 1
    BY <1>7, FrameToCore, OpsAreNamed DEF Ev
  <2>2. pp.n = peer[c].n + 1 /\ pp.pc = "idle"
    BY <1>7, <1>8 DEF PeerRec
  <2> QED  BY <1>4, <1>8, <2>1, <2>2
<1>9. ASSUME c = d, peer[c].pc = "idle", NEW op \in Asked,
             up' = [up EXCEPT ![c] = Append(@, Req(peer[c].asked + 1, op, peer[c].n + 1))],
             pp = [pc |-> "waiting", asked |-> peer[c].asked + 1, heard |-> 0, n |-> peer[c].n + 1]
      PROVE  KeptUp(d)'
  <2> DEFINE f == Req(peer[c].asked + 1, op, peer[c].n + 1)
  <2>1. f \in ToCore /\ f.of = "req" /\ f.n = peer[c].n + 1 /\ f.id = peer[c].asked + 1 /\ f.op = op
    BY <1>7, FrameToCore, OpsAreNamed DEF Req
  <2>2. pp.n = peer[c].n + 1 /\ pp.pc = "waiting" /\ pp.asked = peer[c].asked + 1 /\ pp.heard = 0
    BY <1>9
  <2> HIDE DEF f
  <2>3. up' = [up EXCEPT ![c] = Append(@, f)]
    BY <1>9 DEF f
  <2> QED  BY <1>4, <1>9, <2>1, <2>2, <2>3
<1> QED  BY <1>1, <1>3, <1>5, <1>6, <1>8, <1>9, CallersAreClients

\* One frame was read of what a caller wrote.
LEMMA Shorter ==
    ASSUME TypeOK, NEW c \in Callers, KeptUp(c), up[c] # <<>>, up'[c] = Tail(up[c]),
           peer'[c] = peer[c], conn'[c] = conn[c], tasks'[c] = tasks[c] \/ Head(up[c]).of = "req"
    PROVE  /\ Written(c)'
           /\ \A i \in DOMAIN up'[c] : /\ up'[c][i] = up[c][i + 1] /\ i + 1 \in DOMAIN up[c]
                                       /\ up'[c][i].n \in Nat
           /\ Head(up[c]).of = "req" => \A i \in DOMAIN up'[c] : up'[c][i].of = "torn"
           /\ \A i \in DOMAIN up'[c] : up'[c][i].n # 0 => Head(up[c]).n < up'[c][i].n
<1> DEFINE q == up[c]
           r == up'[c]
<1>1. /\ q[1] = Head(q) /\ 1 \in DOMAIN q
      /\ Len(r) = Len(q) - 1 /\ Len(q) \in Nat \ {0} /\ DOMAIN q = 1..Len(q)
      /\ DOMAIN r = 1..(Len(q) - 1)
      /\ \A i \in DOMAIN r : r[i] = q[i + 1] /\ i + 1 \in DOMAIN q
      /\ \A i \in DOMAIN q : q[i].n \in Nat
  BY CallersAreClients, UpHolds, Took1
<1>2. /\ \A i, j \in DOMAIN q : i < j /\ q[j].n # 0 => q[i].n < q[j].n
      /\ \A i \in DOMAIN q :
          /\ q[i].of = "torn" <=> q[i].n = 0
          /\ q[i].n <= peer[c].n
          /\ q[i].of = "torn" => i = Len(q) /\ peer[c].pc = "gone"
          /\ q[i].of = "req" => /\ q[i].n = peer[c].n /\ q[i].id = peer[c].asked /\ q[i].op \in Asked
                                /\ peer[c].pc # "idle" /\ tasks[c] = {}
      /\ ~conn[c].open => q = <<>>
  BY DEF KeptUp, Written
<1>3. peer[c].n \in Nat
  BY CallersAreClients, PeerHolds
<1> HIDE DEF q, r
<1>4. \A i, j \in DOMAIN r : i < j /\ r[j].n # 0 => r[i].n < r[j].n
  <2> SUFFICES ASSUME NEW i \in DOMAIN r, NEW j \in DOMAIN r, i < j, r[j].n # 0 PROVE r[i].n < r[j].n
    OBVIOUS
  <2>1. i + 1 < j + 1 /\ i + 1 \in DOMAIN q /\ j + 1 \in DOMAIN q
    BY <1>1
  <2> QED  BY <1>1, <1>2, <2>1
<1>5. \A i \in DOMAIN r : r[i].n # 0 => Head(q).n < r[i].n
  <2> SUFFICES ASSUME NEW i \in DOMAIN r, r[i].n # 0 PROVE q[1].n < r[i].n
    BY <1>1
  <2>1. 1 < i + 1 /\ i + 1 \in DOMAIN q
    BY <1>1
  <2> QED  BY <1>1, <1>2, <2>1
<1>6. Head(q).of = "req" => \A i \in DOMAIN r : r[i].of = "torn"
  <2> SUFFICES ASSUME Head(q).of = "req", NEW i \in DOMAIN r, r[i].n # 0 PROVE FALSE
    BY <1>1, <1>2
  <2>1. q[1].n = peer[c].n /\ q[1].n < r[i].n /\ r[i].n <= peer[c].n /\ r[i].n \in Nat
    BY <1>1, <1>2, <1>5
  <2> QED  BY <1>3, <2>1
<1>7. \A i \in DOMAIN r :
          /\ r[i].of = "torn" <=> r[i].n = 0
          /\ r[i].n <= peer[c].n
          /\ r[i].of = "torn" => i = Len(r) /\ peer[c].pc = "gone"
          /\ r[i].of = "req" => /\ r[i].n = peer[c].n /\ r[i].id = peer[c].asked /\ r[i].op \in Asked
                                /\ peer[c].pc # "idle" /\ tasks'[c] = {}
  <2> SUFFICES ASSUME NEW i \in DOMAIN r
               PROVE  /\ r[i].of = "torn" <=> r[i].n = 0
                      /\ r[i].n <= peer[c].n
                      /\ r[i].of = "torn" => i = Len(r) /\ peer[c].pc = "gone"
                      /\ r[i].of = "req" => /\ r[i].n = peer[c].n /\ r[i].id = peer[c].asked
                                            /\ r[i].op \in Asked /\ peer[c].pc # "idle" /\ tasks'[c] = {}
    OBVIOUS
  <2>1. r[i] = q[i + 1] /\ i + 1 \in DOMAIN q /\ (i + 1 = Len(q) => i = Len(r))
    BY <1>1
  <2>2. r[i].of = "req" => tasks'[c] = {}
    BY <1>2, <1>6, <2>1 DEF q
  <2> QED  BY <1>2, <2>1, <2>2
<1>8. Written(c)'
  BY <1>1, <1>2, <1>4, <1>7 DEF Written, q, r
<1> QED  BY <1>1, <1>5, <1>6, <1>8 DEF q, r

LEMMA ExchangeListen == ASSUME TypeOK, NEW c \in Clients, NEW d \in Callers, KeptUp(d), Listen(c) PROVE KeptUp(d)'
<1>1. ASSUME c # d PROVE KeptUp(d)'
  <2>1. d \in Clients \ {c}
    BY <1>1, CallersAreClients
  <2>2. UNCHANGED <<up, conn, tasks>>
    BY ReadBy DEF Listen, Hears, Break
  <2>3. peer'[d] = peer[d] /\ out'[d] = out[d]
    <3>1. CASE Hears(c)
      BY <2>1, <3>1, Heard
    <3>2. CASE Reads(c)
      BY <2>1, <3>2, ReadBy
    <3>3. CASE Break(c)
      BY <2>1, <3>3 DEF Break, TypeOK
    <3> QED  BY <3>1, <3>2, <3>3 DEF Listen
  <2> QED  BY <2>2, <2>3, Elsewhere
<1>2. ASSUME c = d, Hears(c) PROVE KeptUp(d)'
  <2> DEFINE q == out[c].q
             f == Head(q)
             r == out'[c].q
             mine == peer[c].pc = "waiting" /\ f.id = peer[c].asked
  <2>1. /\ r = Tail(q) /\ q # <<>> /\ peer[c].pc # "gone"
        /\ peer'[c].pc = IF mine /\ Terminal(f) THEN "idle" ELSE peer[c].pc
        /\ peer'[c].heard = IF mine /\ f.of = "part" THEN f.n ELSE peer[c].heard
        /\ peer'[c].asked = peer[c].asked /\ peer'[c].n = peer[c].n
        /\ UNCHANGED <<up, conn, tasks>>
    BY <1>2, Heard DEF Hears
  <2>2. /\ q[1] = f /\ 1 \in DOMAIN q
        /\ Len(r) = Len(q) - 1 /\ Len(q) \in Nat \ {0} /\ DOMAIN q = 1..Len(q)
        /\ DOMAIN r = 1..(Len(q) - 1)
        /\ \A i \in DOMAIN r : r[i] = q[i + 1] /\ i + 1 \in DOMAIN q
        /\ \A i \in DOMAIN q : q[i].n \in Nat
        /\ Len(q) = 1 => r = <<>>
    BY <2>1, OutHolds, Took1
  <2>3. peer[c].pc = "waiting"
    BY <1>2, <2>1, PeerHolds DEF KeptUp, ComesBack
  <2>4. /\ \A i \in DOMAIN q :
                /\ q[i].id = peer[c].asked /\ q[i].of # "push"
                /\ Terminal(q[i]) => i = Len(q) /\ tasks[c] = {}
                /\ q[i].of = "part" => q[i].n > peer[c].heard
                /\ \A t \in tasks[c] : q[i].n <= t.sent
        /\ \A i, j \in DOMAIN q : i < j /\ q[j].of = "part" => q[i].n < q[j].n
        /\ \A t \in tasks[c] : peer[c].heard <= t.sent
        /\ \A i \in DOMAIN up[c] : up[c][i].of # "req"
    BY <1>2, <2>1, <2>3 DEF KeptUp, ComesBack
  <2>5. mine
    BY <2>2, <2>3, <2>4
  <2> HIDE DEF q, f, r, mine
  <2>6. CASE Terminal(f)
    <3>1. peer'[c].pc = "idle" /\ tasks[c] = {} /\ r = <<>>
      BY <2>1, <2>2, <2>4, <2>5, <2>6
    <3>2. Written(c)'
      BY <1>2, <2>1, <2>4, <3>1 DEF KeptUp, Written
    <3>3. Underway(c)' /\ ComesBack(c)'
      BY <2>1, <3>1 DEF Underway, ComesBack, r
    <3> QED  BY <1>2, <3>2, <3>3 DEF KeptUp
  <2>7. CASE ~Terminal(f)
    <3>1. peer'[c].pc = "waiting" /\ (f.of = "part" => peer'[c].heard = f.n)
          /\ (f.of # "part" => peer'[c].heard = peer[c].heard)
      BY <2>1, <2>3, <2>5, <2>7
    <3>2. Written(c)' /\ Underway(c)'
      BY <1>2, <2>1, <2>3, <3>1 DEF KeptUp, Written, Underway
    <3>3. \A i, j \in DOMAIN r : i < j /\ r[j].of = "part" => r[i].n < r[j].n
      <4> SUFFICES ASSUME NEW i \in DOMAIN r, NEW j \in DOMAIN r, i < j, r[j].of = "part" PROVE r[i].n < r[j].n
        OBVIOUS
      <4>1. i + 1 < j + 1 /\ i + 1 \in DOMAIN q /\ j + 1 \in DOMAIN q
        BY <2>2
      <4> QED  BY <2>2, <2>4, <4>1
    <3>4. \A i \in DOMAIN r : /\ r[i].id = peer[c].asked /\ r[i].of # "push"
                              /\ Terminal(r[i]) => i = Len(r) /\ tasks[c] = {}
                              /\ r[i].of = "part" => r[i].n > peer'[c].heard
                              /\ \A t \in tasks[c] : r[i].n <= t.sent
      <4> SUFFICES ASSUME NEW i \in DOMAIN r
                   PROVE  /\ r[i].id = peer[c].asked /\ r[i].of # "push"
                          /\ Terminal(r[i]) => i = Len(r) /\ tasks[c] = {}
                          /\ r[i].of = "part" => r[i].n > peer'[c].heard
                          /\ \A t \in tasks[c] : r[i].n <= t.sent
        OBVIOUS
      <4>1. r[i] = q[i + 1] /\ i + 1 \in DOMAIN q /\ 1 < i + 1 /\ (i + 1 = Len(q) => i = Len(r))
        BY <2>2
      <4>2. r[i].of = "part" => q[1].n < r[i].n
        BY <2>2, <2>4, <4>1
      <4>3. r[i].of = "part" => r[i].n > peer'[c].heard
        <5>1. CASE f.of = "part"
          BY <2>2, <3>1, <4>1, <4>2, <5>1
        <5>2. CASE f.of # "part"
          BY <2>4, <3>1, <4>1, <5>2
        <5> QED  BY <5>1, <5>2
      <4> QED  BY <2>4, <4>1, <4>3
    <3>5. \A t \in tasks[c] : peer'[c].heard <= t.sent
      BY <2>2, <2>4, <3>1
    <3>6. ComesBack(c)'
      BY <2>1, <2>4, <3>1, <3>3, <3>4, <3>5 DEF ComesBack, r
    <3> QED  BY <1>2, <3>2, <3>6 DEF KeptUp
  <2> QED  BY <2>6, <2>7
<1>3. ASSUME c = d, Reads(c) PROVE KeptUp(d)'
  BY <1>3, CallersAreClients DEF Reads
<1>4. ASSUME c = d, Break(c) PROVE KeptUp(d)'
  BY <1>4 DEF Break, KeptUp, Written, Underway, ComesBack
<1> QED  BY <1>1, <1>2, <1>3, <1>4 DEF Listen

LEMMA ExchangeRead == ASSUME TypeOK, NEW c \in Clients, NEW d \in Callers, KeptUp(d), Read(c) PROVE KeptUp(d)'
<1>0. c \in Clients /\ d \in Clients
  BY CallersAreClients
<1>1. ASSUME c # d PROVE KeptUp(d)'
  <2>1. peer'[d] = peer[d]
    BY DEF Read, OnEvent, Refuse, OnRequest, Close
  <2>2. up'[d] = up[d]
    BY <1>0, <1>1, TookUp DEF Read, OnEvent, Refuse, OnRequest, Close, Next1
  <2>3. conn'[d] = conn[d]
    BY <1>0, <1>1 DEF Read, OnEvent, Refuse, OnRequest, Close, TypeOK
  <2>4. tasks'[d] = tasks[d]
    BY <1>0, <1>1 DEF Read, OnEvent, Refuse, OnRequest, Close, TypeOK
  <2>5. out'[d] = out[d]
    <3>1. CASE Refuse(c)
      <4>1. Head(up[c]) \in ToCore
        BY <3>1, TookUp DEF Refuse, Next1
      <4>2. Err(Head(up[c]).id) \in ToPeer
        BY <4>1, FrameToPeer DEF ToCore
      <4> QED  BY <1>0, <1>1, <3>1, <4>2, Sent DEF Refuse
    <3>2. CASE ~Refuse(c)
      BY <3>2 DEF Read, OnEvent, OnRequest, Close
    <3> QED  BY <3>1, <3>2
  <2> QED  BY <2>1, <2>2, <2>3, <2>4, <2>5, Elsewhere
<1> DEFINE f == Head(up[c])
\* What is read of a caller's frames, and what it leaves.
<1>2. ASSUME c = d, up[c] # <<>>, Took(c), UNCHANGED <<peer, conn>>,
             tasks'[c] = tasks[c] \/ f.of = "req"
      PROVE  /\ Written(c)'
             /\ \A i \in DOMAIN up'[c] : up'[c][i] = up[c][i + 1] /\ i + 1 \in DOMAIN up[c]
             /\ f.of = "req" => \A i \in DOMAIN up'[c] : up'[c][i].of = "torn"
             /\ f \in ToCore
             /\ f.of = "req" => /\ f.id = peer[c].asked /\ f.n = peer[c].n /\ f.op \in Asked
                                /\ peer[c].pc # "idle" /\ tasks[c] = {}
                                /\ peer[c].pc = "waiting" => out[c].q = <<>> /\ peer[c].heard = 0
  <2>1. up'[c] = Tail(up[c]) /\ f \in ToCore
    BY <1>2, TookUp
  <2>2. 1 \in DOMAIN up[c] /\ f = up[c][1]
    BY <1>2, UpHolds, Took1
  <2>3. f.of = "req" => /\ f.id = peer[c].asked /\ f.n = peer[c].n /\ f.op \in Asked
                        /\ peer[c].pc # "idle" /\ tasks[c] = {}
                        /\ peer[c].pc = "waiting" => out[c].q = <<>> /\ peer[c].heard = 0
    BY <1>2, <2>2 DEF KeptUp, Written, ComesBack
  <2> HIDE DEF f
  <2>4. /\ Written(c)'
        /\ \A i \in DOMAIN up'[c] : up'[c][i] = up[c][i + 1] /\ i + 1 \in DOMAIN up[c]
        /\ f.of = "req" => \A i \in DOMAIN up'[c] : up'[c][i].of = "torn"
    BY <1>2, <2>1, Shorter DEF f
  <2> QED  BY <2>1, <2>3, <2>4
<1>3. ASSUME c = d, OnEvent(c) PROVE KeptUp(d)'
  <2>1. up[c] # <<>> /\ Took(c) /\ UNCHANGED <<peer, conn, tasks, out>>
    BY <1>3 DEF OnEvent, Next1
  <2>2. Written(c)' /\ \A i \in DOMAIN up'[c] : up'[c][i] = up[c][i + 1] /\ i + 1 \in DOMAIN up[c]
    BY <1>2, <1>3, <2>1
  <2>3. Underway(c)' /\ ComesBack(c)'
    BY <1>3, <2>1, <2>2 DEF KeptUp, Underway, ComesBack
  <2> QED  BY <1>3, <2>2, <2>3 DEF KeptUp
<1>4. ASSUME c = d, OnRequest(c) PROVE KeptUp(d)'
  <2>1. /\ up[c] # <<>> /\ Took(c) /\ UNCHANGED <<peer, conn, out>> /\ f.of = "req"
        /\ tasks' = [tasks EXCEPT ![c] = @ \union {NewTask(f)}]
    BY <1>4 DEF OnRequest, Next1
  <2>2. tasks'[c] = tasks[c] \union {NewTask(f)}
    BY <2>1 DEF TypeOK
  <2>3. /\ Written(c)' /\ \A i \in DOMAIN up'[c] : up'[c][i].of = "torn"
        /\ f.id = peer[c].asked /\ f.n = peer[c].n /\ f.op \in Asked
        /\ peer[c].pc # "idle" /\ tasks[c] = {}
        /\ peer[c].pc = "waiting" => out[c].q = <<>> /\ peer[c].heard = 0
    BY <1>2, <1>4, <2>1
  <2> HIDE DEF f
  <2>4. tasks'[c] = {NewTask(f)}
    BY <2>2, <2>3
  <2>5. Underway(c)'
    <3> DEFINE u == NewTask(f)
    <3>1. u.id = f.id /\ u.n = f.n /\ u.op = f.op /\ u.at = "new" /\ u.said = 0 /\ u.sent = 0
      BY DEF NewTask
    <3> HIDE DEF u
    <3>2. \A t \in tasks'[c] : t = u
      BY <2>4 DEF u
    <3> QED  BY <2>1, <2>3, <3>1, <3>2 DEF Underway
  <2>6. ComesBack(c)'
    BY <2>1, <2>3, <2>4 DEF ComesBack, NewTask
  <2> QED  BY <1>4, <2>3, <2>5, <2>6 DEF KeptUp
<1>5. ASSUME c = d, Refuse(c) PROVE KeptUp(d)'
  <2>1. /\ up[c] # <<>> /\ Took(c) /\ UNCHANGED <<peer, conn, tasks>> /\ f.of = "req"
        /\ Send(c, Err(f.id))
    BY <1>5 DEF Refuse, Next1
  <2>2. /\ Written(c)' /\ (\A i \in DOMAIN up'[c] : up'[c][i].of = "torn") /\ f \in ToCore
        /\ f.id = peer[c].asked /\ f.n = peer[c].n
        /\ peer[c].pc # "idle" /\ tasks[c] = {}
        /\ peer[c].pc = "waiting" => out[c].q = <<>> /\ peer[c].heard = 0
    BY <1>2, <1>5, <2>1
  <2> DEFINE e == Err(f.id)
  <2>3. e \in ToPeer /\ e.of = "err" /\ e.id = peer[c].asked /\ Terminal(e) /\ e.n = 0
    BY <2>2, FrameToPeer DEF ToCore, Err, Terminal
  <2> HIDE DEF e, f
  <2>4. out'[c].q = out[c].q \/ out'[c].q = Append(out[c].q, e)
    BY <2>1, <2>3, Sent DEF e
  <2>5. Underway(c)'
    BY <2>1, <2>2 DEF Underway
  <2>6. ComesBack(c)'
    <3>1. CASE out'[c].q = out[c].q
      BY <1>5, <2>1, <2>2, <3>1 DEF ComesBack, KeptUp
    <3>2. ASSUME out'[c].q = Append(out[c].q, e), peer[c].pc = "waiting" PROVE ComesBack(c)'
      <4>1. /\ DOMAIN out'[c].q = 1..1 /\ Len(out'[c].q) = 1 /\ out'[c].q[1] = e
        BY <2>2, <2>3, <3>2
      <4>2. \A i \in DOMAIN out'[c].q : i = 1
        BY <4>1
      <4> QED  BY <2>1, <2>2, <2>3, <3>2, <4>1, <4>2 DEF ComesBack
    <3>3. CASE peer[c].pc # "waiting"
      BY <2>1, <2>2, <3>3 DEF ComesBack
    <3> QED  BY <2>4, <3>1, <3>2, <3>3
  <2> QED  BY <1>5, <2>2, <2>5, <2>6 DEF KeptUp
<1>6. ASSUME c = d, Close(c) PROVE KeptUp(d)'
  <2>1. up'[c] = <<>> /\ peer[c].pc = "gone"
    <3>1. CASE Next1(c, "torn") /\ Took(c)
      <4>1. up[c] # <<>> /\ f.of = "torn" /\ up'[c] = Tail(up[c])
        BY <3>1, TookUp DEF Next1
      <4>2. 1 \in DOMAIN up[c] /\ f = up[c][1] /\ (Len(up[c]) = 1 => Tail(up[c]) = <<>>)
        BY <4>1, UpHolds, Took1
      <4> QED  BY <1>6, <4>1, <4>2 DEF KeptUp, Written
    <3>2. CASE up[c] = <<>> /\ peer[c].pc = "gone" /\ UNCHANGED up
      BY <3>2
    <3> QED  BY <1>6, <3>1, <3>2 DEF Close
  <2>2. UNCHANGED <<peer, tasks, out>>
    BY <1>6 DEF Close
  <2>3. DOMAIN up'[c] = {}
    BY <2>1
  <2> QED  BY <1>6, <2>1, <2>2, <2>3 DEF KeptUp, Written, Underway, ComesBack
<1> QED  BY <1>1, <1>3, <1>4, <1>5, <1>6 DEF Read

\* The only task of a caller.
LEMMA TheTask ==
    ASSUME TypeOK, NEW c \in Callers, KeptUp(c), NEW t \in tasks[c]
    PROVE  /\ tasks[c] = {t} /\ t \in Tasks
           /\ peer[c].pc # "idle" /\ t.id = peer[c].asked /\ t.n = peer[c].n /\ t.op \in Asked
           /\ t.sent <= t.said /\ t.at \notin {"watching", "late"} /\ (t.at = "new" => t.said = 0)
           /\ t.sent \in Nat /\ t.said \in Nat
           /\ \A i \in DOMAIN up[c] : up[c][i].of = "torn"
  BY CallersAreClients, ATask DEF KeptUp, Underway, Tasks

\* What a caller wrote stands as it was; a task that goes on, or ends, changes nothing of it.
LEMMA WrittenStays ==
    ASSUME NEW c \in Callers, KeptUp(c), NEW t \in tasks[c],
           peer'[c] = peer[c], up'[c] = up[c], conn'[c].open = conn[c].open
    PROVE  Written(c)'
  BY DEF KeptUp, Written, Underway

\* A task that goes on.
LEMMA GoesOn ==
    ASSUME TypeOK, NEW c \in Callers, KeptUp(c), NEW t \in tasks[c], NEW u \in Tasks,
           peer'[c] = peer[c], up'[c] = up[c], conn'[c].open = conn[c].open, out'[c].q = out[c].q,
           tasks'[c] = (tasks[c] \ {t}) \union {u},
           u.id = t.id, u.n = t.n, u.op = t.op, u.sent = t.sent, u.sent <= u.said,
           u.at \notin {"watching", "late", "new"}
    PROVE  KeptUp(c)'
<1>1. Written(c)'
  BY WrittenStays
<1>2. tasks'[c] = {u}
  BY TheTask
<1>3. Underway(c)'
  BY <1>2, TheTask DEF Underway
<1>4. ComesBack(c)'
  BY <1>2, TheTask DEF ComesBack, KeptUp
<1> QED  BY <1>1, <1>3, <1>4 DEF KeptUp

\* The answer to the request, whether it fits or not, is the end of its task.
LEMMA Answers ==
    ASSUME TypeOK, NEW c \in Callers, KeptUp(c), NEW t \in tasks[c], NEW ok \in BOOLEAN,
           peer'[c] = peer[c], up'[c] = up[c], conn'[c].open = conn[c].open,
           Send(c, IF ok THEN Rep(t.id) ELSE Err(t.id)), tasks'[c] = tasks[c] \ {t}
    PROVE  KeptUp(c)'
<1> DEFINE e == IF ok THEN Rep(t.id) ELSE Err(t.id)
           q == out[c].q
           r == out'[c].q
<1>1. c \in Clients /\ t.id \in Nat
  BY CallersAreClients, TheTask DEF Tasks
<1>2. e \in ToPeer /\ e.of \in {"rep", "err"} /\ e.id = peer[c].asked /\ e.n = 0
  BY <1>1, FrameToPeer, TheTask DEF Rep, Err
<1> HIDE DEF e
<1>3. r = q \/ r = Append(q, e)
  BY <1>1, <1>2, Sent DEF e
<1>4. Written(c)' /\ tasks'[c] = {}
  BY WrittenStays, TheTask
<1>5. Underway(c)'
  BY <1>4 DEF Underway
<1>6. peer[c].pc # "idle" /\ \A i \in DOMAIN up[c] : up[c][i].of = "torn"
  BY TheTask
<1>7. CASE r = q
  <2>1. ComesBack(c)'
    BY <1>4, <1>6, <1>7 DEF KeptUp, ComesBack
  <2> QED  BY <1>4, <1>5, <2>1 DEF KeptUp
<1>8. CASE r = Append(q, e) /\ peer[c].pc = "waiting"
  <2>1. /\ DOMAIN r = 1..Len(q) + 1 /\ DOMAIN q = 1..Len(q) /\ Len(q) \in Nat /\ Len(r) = Len(q) + 1
        /\ \A i \in DOMAIN q : r[i] = q[i]
        /\ r[Len(q) + 1] = e
        /\ \A i \in DOMAIN r : i \in DOMAIN q \/ i = Len(q) + 1
    BY <1>1, <1>2, <1>8, OutHolds, Put
  <2>2. \A i \in DOMAIN q : /\ q[i].id = peer[c].asked /\ q[i].of # "push" /\ ~Terminal(q[i])
                            /\ q[i].of = "part" => q[i].n > peer[c].heard
    BY <1>8 DEF KeptUp, ComesBack
  <2>3. \A i, j \in DOMAIN q : i < j /\ q[j].of = "part" => q[i].n < q[j].n
    BY <1>8 DEF KeptUp, ComesBack
  <2> HIDE DEF q, r
  <2>4. \A i, j \in DOMAIN r : i < j /\ r[j].of = "part" => r[i].n < r[j].n
    <3> SUFFICES ASSUME NEW i \in DOMAIN r, NEW j \in DOMAIN r, i < j, r[j].of = "part" PROVE r[i].n < r[j].n
      OBVIOUS
    <3>1. j \in DOMAIN q
      BY <1>2, <2>1
    <3>2. i \in DOMAIN q
      BY <2>1, <3>1
    <3> QED  BY <2>1, <2>3, <3>1, <3>2
  <2>5. \A i \in DOMAIN r : /\ r[i].id = peer[c].asked /\ r[i].of # "push"
                            /\ Terminal(r[i]) => i = Len(r)
                            /\ r[i].of = "part" => r[i].n > peer[c].heard
    <3> SUFFICES ASSUME NEW i \in DOMAIN r
                 PROVE  /\ r[i].id = peer[c].asked /\ r[i].of # "push"
                        /\ Terminal(r[i]) => i = Len(r)
                        /\ r[i].of = "part" => r[i].n > peer[c].heard
      OBVIOUS
    <3>1. CASE i \in DOMAIN q
      BY <2>1, <2>2, <3>1
    <3>2. CASE i = Len(q) + 1
      BY <1>2, <2>1, <3>2
    <3> QED  BY <2>1, <3>1, <3>2
  <2>6. ComesBack(c)'
    BY <1>4, <1>6, <1>8, <2>4, <2>5 DEF ComesBack, r
  <2> QED  BY <1>4, <1>5, <2>6 DEF KeptUp
<1>9. CASE peer[c].pc = "gone"
  BY <1>4, <1>5, <1>9 DEF KeptUp, ComesBack
<1> QED  BY <1>1, <1>3, <1>6, <1>7, <1>8, <1>9, PeerHolds

LEMMA Pumps ==
    ASSUME TypeOK, NEW c \in Callers, KeptUp(c), NEW t \in tasks[c], Pump(c, t)
    PROVE  KeptUp(c)'
<1> DEFINE e == Part(t.id, t.sent + 1)
           u == [t EXCEPT !.sent = @ + 1]
           q == out[c].q
           r == out'[c].q
<1>1. c \in Clients /\ t \in Tasks /\ t.id \in Nat /\ t.sent \in Nat /\ t.said \in Nat /\ t.sent + 1 \in Nat
  BY CallersAreClients, TheTask DEF Tasks
<1>2. e \in ToPeer /\ e.of = "part" /\ e.id = t.id /\ e.n = t.sent + 1
  BY <1>1, FrameToPeer DEF Part
<1>3. /\ u \in Tasks /\ u.id = t.id /\ u.n = t.n /\ u.op = t.op /\ u.at = t.at /\ u.said = t.said
      /\ u.sent = t.sent + 1
  BY <1>1 DEF Tasks
<1> HIDE DEF e, u
<1>4. /\ UNCHANGED <<peer, up, conn>> /\ t.sent < t.said
      /\ Send(c, e) /\ Become(c, t, u)
  BY DEF Pump, e, u
<1>5. r = q \/ r = Append(q, e)
  BY <1>1, <1>2, <1>4, Sent
<1>6. /\ tasks[c] = {t} /\ peer[c].pc # "idle" /\ t.id = peer[c].asked /\ t.n = peer[c].n /\ t.op \in Asked
      /\ t.at \notin {"watching", "late"} /\ (t.at = "new" => t.said = 0)
      /\ \A i \in DOMAIN up[c] : up[c][i].of = "torn"
  BY TheTask
<1>7. tasks'[c] = {u}
  BY <1>1, <1>3, <1>4, <1>6, Became
<1>8. Written(c)'
  BY <1>4, WrittenStays
<1>9. u.sent <= u.said /\ u.at # "new"
  BY <1>1, <1>3, <1>4, <1>6
<1>10. Underway(c)'
  BY <1>3, <1>4, <1>6, <1>7, <1>9 DEF Underway
<1>11. CASE peer[c].pc = "gone"
  BY <1>4, <1>8, <1>10, <1>11 DEF KeptUp, ComesBack
<1>12. CASE peer[c].pc = "waiting"
  <2>1. /\ \A i \in DOMAIN q :
              /\ q[i].id = peer[c].asked /\ q[i].of # "push" /\ ~Terminal(q[i])
              /\ q[i].of = "part" => q[i].n > peer[c].heard
              /\ q[i].n <= t.sent /\ q[i].n \in Nat
        /\ \A i, j \in DOMAIN q : i < j /\ q[j].of = "part" => q[i].n < q[j].n
        /\ peer[c].heard <= t.sent /\ peer[c].heard \in Nat
    BY <1>1, <1>12, OutHolds, PeerHolds DEF KeptUp, ComesBack
  <2>2. CASE r = q
    <3>1. \A i \in DOMAIN q : q[i].n <= u.sent
      BY <1>1, <1>3, <2>1
    <3>2. peer[c].heard <= u.sent
      BY <1>1, <1>3, <2>1
    <3>3. ComesBack(c)'
      BY <1>4, <1>6, <1>7, <1>12, <2>1, <2>2, <3>1, <3>2 DEF ComesBack
    <3> QED  BY <1>8, <1>10, <3>3 DEF KeptUp
  <2>3. CASE r = Append(q, e)
    <3>1. /\ DOMAIN r = 1..Len(q) + 1 /\ DOMAIN q = 1..Len(q) /\ Len(q) \in Nat /\ Len(r) = Len(q) + 1
          /\ \A i \in DOMAIN q : r[i] = q[i]
          /\ r[Len(q) + 1] = e
          /\ \A i \in DOMAIN r : i \in DOMAIN q \/ i = Len(q) + 1
      BY <1>1, <1>2, <2>3, OutHolds, Put
    <3> HIDE DEF q, r
    <3>2. \A i, j \in DOMAIN r : i < j /\ r[j].of = "part" => r[i].n < r[j].n
      <4> SUFFICES ASSUME NEW i \in DOMAIN r, NEW j \in DOMAIN r, i < j, r[j].of = "part" PROVE r[i].n < r[j].n
        OBVIOUS
      <4>1. i \in DOMAIN q
        BY <3>1
      <4>2. CASE j \in DOMAIN q
        BY <2>1, <3>1, <4>1, <4>2
      <4>3. CASE j = Len(q) + 1
        BY <1>1, <1>2, <2>1, <3>1, <4>1, <4>3
      <4> QED  BY <3>1, <4>2, <4>3
    <3>3. \A i \in DOMAIN r : /\ r[i].id = peer[c].asked /\ r[i].of # "push" /\ ~Terminal(r[i])
                              /\ r[i].of = "part" => r[i].n > peer[c].heard
                              /\ r[i].n <= u.sent
      <4> SUFFICES ASSUME NEW i \in DOMAIN r
                   PROVE  /\ r[i].id = peer[c].asked /\ r[i].of # "push" /\ ~Terminal(r[i])
                          /\ r[i].of = "part" => r[i].n > peer[c].heard
                          /\ r[i].n <= u.sent
        OBVIOUS
      <4>1. CASE i \in DOMAIN q
        BY <1>1, <1>3, <2>1, <3>1, <4>1
      <4>2. CASE i = Len(q) + 1
        BY <1>1, <1>2, <1>3, <1>6, <2>1, <3>1, <4>2 DEF Terminal
      <4> QED  BY <3>1, <4>1, <4>2
    <3>4. peer[c].heard <= u.sent
      BY <1>1, <1>3, <2>1
    <3>5. ComesBack(c)'
      BY <1>4, <1>6, <1>7, <1>12, <3>2, <3>3, <3>4 DEF ComesBack, r
    <3> QED  BY <1>8, <1>10, <3>5 DEF KeptUp
  <2> QED  BY <1>5, <2>2, <2>3
<1> QED  BY <1>1, <1>6, <1>11, <1>12, PeerHolds

LEMMA ExchangeWork ==
    ASSUME TypeOK, NEW c \in Clients, NEW t \in tasks[c], NEW d \in Callers, KeptUp(d),
           Asks(c, t) \/ Tells(c, t) \/ Forward(c, t) \/ Generates(c, t) \/ Pump(c, t)
             \/ Completes(c, t) \/ Brain(c, t)
    PROVE  KeptUp(d)'
<1>1. ASSUME c # d PROVE KeptUp(d)'
  <2>1. d \in Clients \ {c} /\ t.id \in Nat /\ t.sent + 1 \in Nat
    BY <1>1, CallersAreClients, ATask DEF Tasks
  <2>2. UNCHANGED <<peer, up>> /\ conn'[d] = conn[d]
    BY <1>1, <2>1 DEF Asks, Tells, Forward, Generates, Pump, Completes, Brain, TypeOK
  <2>3. tasks'[d] = tasks[d]
    BY <2>1 DEF Asks, Tells, Forward, Generates, Pump, Completes, Brain, Become, Ends, TypeOK
  <2>4. out'[d] = out[d]
    BY <2>1 DEF Asks, Tells, Forward, Generates, Pump, Completes, Brain, Send, TypeOK
  <2> QED  BY <2>2, <2>3, <2>4, Elsewhere
<1>2. ASSUME c = d, Asks(c, t) PROVE KeptUp(d)'
  <2> DEFINE u == [t EXCEPT !.at = "hub"]
  <2>1. /\ u \in Tasks /\ u.id = t.id /\ u.n = t.n /\ u.op = t.op /\ u.at = "hub" /\ u.said = t.said
        /\ u.sent = t.sent /\ u.sent <= u.said
    BY <1>2, TheTask DEF Tasks
  <2> HIDE DEF u
  <2>2. UNCHANGED <<peer, up, conn, out>> /\ Become(c, t, u)
    BY <1>2 DEF Asks, u
  <2> QED  BY <1>2, <2>1, <2>2, Became, GoesOn
<1>3. ASSUME c = d, Generates(c, t) PROVE KeptUp(d)'
  <2> DEFINE u == [t EXCEPT !.at = "brain"]
  <2>1. /\ u \in Tasks /\ u.id = t.id /\ u.n = t.n /\ u.op = t.op /\ u.at = "brain" /\ u.said = t.said
        /\ u.sent = t.sent /\ u.sent <= u.said
    BY <1>3, TheTask DEF Tasks
  <2> HIDE DEF u
  <2>2. UNCHANGED <<peer, up, conn, out>> /\ Become(c, t, u)
    BY <1>3 DEF Generates, u
  <2> QED  BY <1>3, <2>1, <2>2, Became, GoesOn
<1>4. ASSUME c = d, Brain(c, t) PROVE KeptUp(d)'
  <2>1. PICK u : /\ u \in {[t EXCEPT !.said = @ + 1], [t EXCEPT !.at = "pump"], [t EXCEPT !.at = "pump", !.ok = FALSE]}
                 /\ UNCHANGED <<peer, up, conn, out>> /\ Become(c, t, u)
    BY <1>4 DEF Brain
  <2>2. t \in Tasks /\ t.sent <= t.said /\ t.at = "brain" /\ t.said + 1 \in Nat /\ t.sent \in Nat /\ t.said \in Nat
    BY <1>4, TheTask DEF Brain, Tasks
  <2>3. /\ u \in Tasks /\ u.id = t.id /\ u.n = t.n /\ u.op = t.op /\ u.at \in {"brain", "pump"}
        /\ u.sent = t.sent /\ u.sent <= u.said
    <3>1. CASE u = [t EXCEPT !.said = @ + 1]
      BY <2>2, <3>1 DEF Tasks
    <3>2. CASE u = [t EXCEPT !.at = "pump"]
      BY <2>2, <3>2 DEF Tasks
    <3>3. CASE u = [t EXCEPT !.at = "pump", !.ok = FALSE]
      BY <2>2, <3>3 DEF Tasks
    <3> QED  BY <2>1, <3>1, <3>2, <3>3
  <2> QED  BY <1>4, <2>1, <2>3, Became, GoesOn
<1>5. ASSUME c = d, Tells(c, t) PROVE KeptUp(d)'
  <2>1. /\ UNCHANGED <<peer, up>> /\ Send(c, IF t.ok THEN Rep(t.id) ELSE Err(t.id)) /\ t.ok \in BOOLEAN
        /\ conn'[c].open = conn[c].open
    BY <1>5, ATask DEF Tells, TypeOK, Tasks
  <2>2. t.op # "watch"
    BY <1>5, TheTask DEF Asked
  <2>3. tasks'[c] = tasks[c] \ {t}
    BY <1>5, <2>2, Ended DEF Tells
  <2> QED  BY <1>5, <2>1, <2>3, Answers
<1>6. ASSUME c = d, Completes(c, t) PROVE KeptUp(d)'
  <2>1. /\ UNCHANGED <<peer, up, conn>> /\ Send(c, IF t.ok THEN Rep(t.id) ELSE Err(t.id)) /\ t.ok \in BOOLEAN
        /\ t.sent = t.said
    BY <1>6, ATask DEF Completes, Pumped, Tasks
  <2>2. tasks'[c] = tasks[c] \ {t}
    BY <1>6, <2>1, Ended DEF Completes
  <2> QED  BY <1>6, <2>1, <2>2, Answers
<1>7. ASSUME c = d, Forward(c, t) PROVE KeptUp(d)'
  BY <1>7, TheTask DEF Forward
<1>8. ASSUME c = d, Pump(c, t) PROVE KeptUp(d)'
  BY <1>8, Pumps
<1> QED  BY <1>1, <1>2, <1>3, <1>4, <1>5, <1>6, <1>7, <1>8

LEMMA ExchangeHandle == ASSUME TypeOK, NEW d \in Callers, KeptUp(d), Handle PROVE KeptUp(d)'
<1> DEFINE k == Head(cmds)
<1>1. /\ UNCHANGED <<peer, up, conn, out>> /\ k \in Commands
      /\ \A e \in Clients \ {k.c} : tasks'[e] = tasks[e]
      /\ tasks'[k.c] = {Answered(t, k) : t \in tasks[k.c]}
  BY Handled
<1> HIDE DEF k
<1>2. CASE k.c # d
  BY <1>1, <1>2, CallersAreClients, Elsewhere
<1>3. ASSUME k.c = d, NEW t \in tasks[d] PROVE KeptUp(d)'
  <2>1. tasks[d] = {t} /\ t \in Tasks
    BY TheTask
  <2>2. tasks'[d] = {Answered(t, k)}
    BY <1>1, <1>3, <2>1
  <2>3. CASE Answered(t, k) = t
    BY <1>1, <2>1, <2>2, <2>3, Elsewhere
  <2>4. CASE Answered(t, k) # t
    <3> DEFINE u == Answered(t, k)
               ok == Decides(k)
    <3>1. u = [t EXCEPT !.at = "told", !.ok = ok] /\ ok \in BOOLEAN
      BY <2>4 DEF Answered, Decides
    <3> HIDE DEF ok
    <3>2. /\ u \in Tasks /\ u.id = t.id /\ u.n = t.n /\ u.op = t.op /\ u.at = "told" /\ u.said = t.said
          /\ u.sent = t.sent
      <4> HIDE DEF u
      <4> QED  BY <2>1, <3>1 DEF Tasks
    <3> HIDE DEF u
    <3>3. tasks'[d] = (tasks[d] \ {t}) \union {u}
      BY <2>1, <2>2 DEF u
    <3>4. u.sent <= u.said
      BY <3>2, TheTask
    <3> QED  BY <1>1, <3>2, <3>3, <3>4, GoesOn
  <2> QED  BY <2>3, <2>4
<1>4. CASE k.c = d /\ tasks[d] = {}
  <2>1. tasks'[d] = tasks[d]
    BY <1>1, <1>4
  <2> QED  BY <1>1, <2>1, Elsewhere
<1> QED  BY <1>2, <1>3, <1>4

LEMMA ExchangeInit == Init => Exchange
<1> SUFFICES ASSUME Init, NEW c \in Callers PROVE KeptUp(c)
  BY DEF Exchange
<1>1. /\ peer[c].pc = "idle" /\ conn[c].open /\ tasks[c] = {} /\ up[c] = <<>> /\ out[c].q = <<>>
  BY CallersAreClients DEF Init, NewConn
<1>2. DOMAIN up[c] = {}
  BY <1>1
<1> QED  BY <1>1, <1>2 DEF KeptUp, Written, Underway, ComesBack

LEMMA ExchangeStep == TypeOK /\ Exchange /\ [Next]_vars => Exchange'
<1> SUFFICES ASSUME TypeOK, Exchange, [Next]_vars, NEW d \in Callers PROVE KeptUp(d)'
  BY DEF Exchange
<1>0. KeptUp(d)
  BY DEF Exchange
<1>1. ASSUME NEW c \in Clients, Client(c) PROVE KeptUp(d)'
  BY <1>0, <1>1, ExchangeClient
<1>2. ASSUME NEW c \in Clients, Listen(c) PROVE KeptUp(d)'
  BY <1>0, <1>2, ExchangeListen
<1>3. ASSUME NEW c \in Clients, Read(c) PROVE KeptUp(d)'
  BY <1>0, <1>3, ExchangeRead
<1>4. ASSUME NEW c \in Clients, Work(c) \/ Generate(c) PROVE KeptUp(d)'
  BY <1>0, <1>4, ExchangeWork DEF Work, Generate
<1>5. CASE Handle
  BY <1>0, <1>5, ExchangeHandle
<1>6. CASE UNCHANGED vars
  BY <1>0, <1>6, Elsewhere DEF vars
<1> QED  BY <1>1, <1>2, <1>3, <1>4, <1>5, <1>6 DEF Next

\* Every part under way to a turn belongs to the call it waits for, comes after those it heard,
\* and has no answer of that call in front of it.
THEOREM PartsComeFirst == Spec => []PartsThenAnswer
<1>1. TypeOK /\ Exchange => PartsThenAnswer
  <2> SUFFICES ASSUME TypeOK, Exchange, NEW c \in Callers, peer[c].pc # "gone",
                      NEW i \in DOMAIN out[c].q, out[c].q[i].of = "part"
               PROVE  /\ peer[c].pc = "waiting" /\ out[c].q[i].id = peer[c].asked
                      /\ out[c].q[i].n > peer[c].heard
                      /\ \A j \in 1..(i - 1) : out[c].q[j].id = out[c].q[i].id =>
                            ~Terminal(out[c].q[j]) /\ out[c].q[j].n < out[c].q[i].n
    BY DEF PartsThenAnswer
  <2> DEFINE q == out[c].q
  <2>1. ComesBack(c)
    BY DEF Exchange, KeptUp
  <2>2. DOMAIN q = 1..Len(q) /\ Len(q) \in Nat
    BY CallersAreClients, OutHolds
  <2>3. peer[c].pc = "waiting"
    BY <2>1, CallersAreClients, PeerHolds DEF ComesBack
  <2>4. q[i].id = peer[c].asked /\ q[i].n > peer[c].heard
    BY <2>1, <2>3 DEF ComesBack
  <2>5. ASSUME NEW j \in 1..(i - 1) PROVE ~Terminal(q[j]) /\ q[j].n < q[i].n
    <3>1. j \in DOMAIN q /\ j < i /\ j # Len(q)
      BY <2>2
    <3> QED  BY <2>1, <2>3, <3>1 DEF ComesBack
  <2> QED  BY <2>3, <2>4, <2>5
<1>2. Init => TypeOK /\ Exchange
  BY TypeInit, ExchangeInit
<1>3. TypeOK /\ Exchange /\ [Next]_vars => TypeOK' /\ Exchange'
  BY TypeStep, ExchangeStep
<1> QED  BY <1>1, <1>2, <1>3, PTL DEF Spec

-----------------------------------------------------------------------------
(* What a step can do to the news of a caller.                             *)

Same(d) == peer'[d].n = peer[d].n /\ (conn'[d].open => conn[d].open) /\ turn'[d] = turn[d]
NoNewFrames(d) ==
    \A j \in DOMAIN up'[d] : up'[d][j].n # 0 => \E i \in DOMAIN up[d] : up'[d][j].n = up[d][i].n
NoNewTasks(d) == \A t \in tasks'[d] : t.at = "new" => t \in tasks[d]

\* Nothing: the hub is told nothing of it.
Rests(d) == /\ Same(d) /\ NoNewFrames(d) /\ NoNewTasks(d)
            /\ cmds' = cmds \/ \E l \in Commands : ~Numbered(l, d) /\ cmds' = Append(cmds, l)

\* The caller does one thing more.
Acts(d) == /\ conn[d].open /\ conn'[d].open = conn[d].open /\ turn'[d] = turn[d]
           /\ cmds' = cmds /\ tasks'[d] = {}
           /\ peer'[d].n = peer[d].n + 1
           /\ \A j \in DOMAIN up'[d] : up'[d][j].n # 0 =>
                 up'[d][j].n = peer[d].n + 1 \/ \E i \in DOMAIN up[d] : up'[d][j].n = up[d][i].n

\* A frame is read: an event goes to the hub, a request gets its task.
Reports(d) == /\ Same(d) /\ NoNewFrames(d) /\ tasks'[d] = {} /\ conn[d].open
              /\ \E f \in DOMAIN up[d] :
                    /\ up[d][f].n # 0
                    /\ cmds' = Append(cmds, Cmd("event", d, 0, up[d][f].n))
                    /\ \A j \in DOMAIN up'[d] : up'[d][j].n # 0 => up[d][f].n < up'[d][j].n
Starts(d) == /\ Same(d) /\ cmds' = cmds
             /\ \A j \in DOMAIN up'[d] : up'[d][j].n = 0
             /\ \E f \in DOMAIN up[d] : up[d][f].n # 0 /\ \A t \in tasks'[d] : t.n = up[d][f].n

\* Its request goes to the hub.
Requested(d) == /\ Same(d) /\ NoNewFrames(d)
                /\ \A t \in tasks'[d] : t.at # "new"
                /\ \A j \in DOMAIN up'[d] : up'[d][j].n = 0
                /\ \E t \in tasks[d] : /\ t.at = "new" /\ t.n = peer[d].n
                                       /\ cmds' = Append(cmds, Cmd(t.op, d, t.id, t.n)) /\ t.op \in Asked

\* Its connection closes, and its turn is let go of.
LetsGo(d) == /\ conn[d].open /\ ~conn'[d].open /\ up'[d] = <<>> /\ turn'[d] = turn[d]
             /\ tasks'[d] = tasks[d] /\ peer'[d].n = peer[d].n
             /\ cmds' = Append(cmds, Cmd("abandon", d, 0, peer[d].n + 1))

Moves(d) == Rests(d) \/ Acts(d) \/ Reports(d) \/ Starts(d) \/ Requested(d) \/ LetsGo(d)

\* Nothing of the caller changes, but for what it is told.
LEMMA RestsElsewhere ==
    ASSUME NEW d \in Callers, peer'[d].n = peer[d].n, conn'[d].open = conn[d].open, turn' = turn,
           up'[d] = up[d], NoNewTasks(d),
           cmds' = cmds \/ \E l \in Commands : ~Numbered(l, d) /\ cmds' = Append(cmds, l)
    PROVE  Rests(d)
  BY DEF Rests, Same, NoNewFrames

LEMMA MovesClient == ASSUME TypeOK, NEW c \in Clients, NEW d \in Callers, KeptUp(d), Client(c) PROVE Moves(d)
<1>1. PICK pp \in PeerRec :
           /\ peer' = [peer EXCEPT ![c] = pp]
           /\ UNCHANGED <<conn, tasks, out, cmds, turn, subs, last>>
           /\ \/ /\ c \in Callers /\ peer[c].pc = "idle" /\ pp = [peer[c] EXCEPT !.n = @ + 1]
                 /\ up' = [up EXCEPT ![c] = Append(@, Ev(peer[c].n + 1))]
              \/ /\ c \in Callers /\ peer[c].pc = "idle"
                 /\ pp = [pc |-> "waiting", asked |-> peer[c].asked + 1, heard |-> 0, n |-> peer[c].n + 1]
                 /\ \E op \in Asked :
                        up' = [up EXCEPT ![c] = Append(@, Req(peer[c].asked + 1, op, peer[c].n + 1))]
              \/ /\ c \in Watchers
                 /\ \E op \in {"status", "watch"} : up' = [up EXCEPT ![c] = Append(@, Req(1, op, 0))]
              \/ /\ pp.pc = "gone" /\ pp.n = peer[c].n /\ pp.asked = peer[c].asked
                 /\ up' = up \/ (peer[c].pc # "gone" /\ up' = [up EXCEPT ![c] = Append(@, Torn)])
  BY ClientSteps
<1>2. peer'[c] = pp /\ (\A e \in Clients \ {c} : peer'[e] = peer[e] /\ up'[e] = up[e]) /\ d \in Clients
  BY <1>1, CallersAreClients DEF TypeOK
<1>3. CASE c # d
  BY <1>1, <1>2, <1>3, RestsElsewhere DEF Moves, NoNewTasks
<1>4. ASSUME c = d, NEW f \in ToCore, up' = [up EXCEPT ![c] = Append(@, f)]
      PROVE  \A j \in DOMAIN up'[d] : up'[d][j].n = f.n \/ \E i \in DOMAIN up[d] : up'[d][j].n = up[d][i].n
  <2>1. up'[d] = Append(up[d], f) /\ up[d] \in Seq(ToCore)
    BY <1>4, Writes, UpHolds
  <2>2. \A i \in DOMAIN up'[d] : up'[d][i] = f \/ (i \in DOMAIN up[d] /\ up'[d][i] = up[d][i])
    BY <2>1, Put
  <2> QED  BY <2>2
<1>5. peer[c] \in PeerRec /\ peer[c].n \in Nat /\ peer[c].n + 1 \in Nat /\ peer[c].asked + 1 \in Nat
  BY DEF TypeOK, PeerRec
<1>6. ASSUME c = d, peer[c].pc = "idle", pp.n = peer[c].n + 1, NEW f \in ToCore, f.n = peer[c].n + 1,
             up' = [up EXCEPT ![c] = Append(@, f)]
      PROVE  Acts(d)
  <2>1. conn[d].open /\ tasks[d] = {}
    BY <1>6, Quiet
  <2> QED  BY <1>1, <1>2, <1>4, <1>6, <2>1 DEF Acts
<1>7. CASE c = d /\ up' = [up EXCEPT ![c] = Append(@, Ev(peer[c].n + 1))] /\ peer[c].pc = "idle"
           /\ pp = [peer[c] EXCEPT !.n = @ + 1]
  <2>1. Ev(peer[c].n + 1) \in ToCore /\ Ev(peer[c].n + 1).n = peer[c].n + 1
    BY <1>5, FrameToCore, OpsAreNamed DEF Ev
  <2>2. pp.n = peer[c].n + 1
    BY <1>5, <1>7 DEF PeerRec
  <2> QED  BY <1>6, <1>7, <2>1, <2>2 DEF Moves
<1>8. ASSUME c = d, peer[c].pc = "idle", NEW op \in Asked,
             up' = [up EXCEPT ![c] = Append(@, Req(peer[c].asked + 1, op, peer[c].n + 1))],
             pp = [pc |-> "waiting", asked |-> peer[c].asked + 1, heard |-> 0, n |-> peer[c].n + 1]
      PROVE  Moves(d)
  <2> DEFINE f == Req(peer[c].asked + 1, op, peer[c].n + 1)
  <2>1. f \in ToCore /\ f.n = peer[c].n + 1
    BY <1>5, FrameToCore, OpsAreNamed DEF Req
  <2> HIDE DEF f
  <2>2. up' = [up EXCEPT ![c] = Append(@, f)] /\ pp.n = peer[c].n + 1
    BY <1>8 DEF f
  <2> QED  BY <1>6, <1>8, <2>1, <2>2 DEF Moves
<1>9. ASSUME c = d, pp.n = peer[c].n, up' = up \/ up' = [up EXCEPT ![c] = Append(@, Torn)] PROVE Moves(d)
  <2>1. Torn \in ToCore /\ Torn.n = 0
    BY <1>5, FrameToCore, OpsAreNamed DEF Torn
  <2>2. NoNewFrames(d)
    BY <1>4, <1>9, <2>1 DEF NoNewFrames
  <2> QED  BY <1>1, <1>2, <1>9, <2>2 DEF Moves, Rests, Same, NoNewTasks
<1> QED  BY <1>1, <1>3, <1>7, <1>8, <1>9, CallersAreClients

LEMMA MovesListen == ASSUME TypeOK, NEW c \in Clients, NEW d \in Callers, Listen(c) PROVE Moves(d)
<1>1. d \in Clients
  BY CallersAreClients
<1>2. CASE Hears(c)
  <2>1. peer'[d].n = peer[d].n
    BY <1>1, <1>2, Heard
  <2>2. UNCHANGED <<up, conn, tasks, cmds, turn>>
    BY <1>2 DEF Hears
  <2> QED  BY <2>1, <2>2, RestsElsewhere DEF Moves, NoNewTasks
<1>3. CASE Reads(c)
  <2>1. UNCHANGED <<up, conn, tasks, cmds, turn>> /\ c # d /\ peer'[d] = peer[d]
    BY <1>1, <1>3, ReadBy, CallersAreClients
  <2> QED  BY <2>1, RestsElsewhere DEF Moves, NoNewTasks
<1>4. CASE Break(c)
  <2>1. UNCHANGED <<peer, up, conn, tasks, cmds, turn>>
    BY <1>4 DEF Break
  <2> QED  BY <2>1, RestsElsewhere DEF Moves, NoNewTasks
<1> QED  BY <1>2, <1>3, <1>4 DEF Listen

LEMMA MovesRead == ASSUME TypeOK, NEW c \in Clients, NEW d \in Callers, KeptUp(d), Read(c) PROVE Moves(d)
<1> DEFINE f == Head(up[c])
<1>1. d \in Clients /\ peer[c].n + 1 \in Nat /\ 0 \in Nat
  BY CallersAreClients DEF TypeOK
<1>2. up[c] # <<>> => /\ f \in ToCore /\ 1 \in DOMAIN up[c] /\ f = up[c][1] /\ f.n \in Nat
  BY UpHolds, Took1 DEF ToCore
<1>3. ASSUME c # d PROVE Moves(d)
  <2>1. peer' = peer /\ turn' = turn
    BY DEF Read, OnEvent, Refuse, OnRequest, Close
  <2>2. up'[d] = up[d]
    BY <1>1, <1>3, TookUp DEF Read, OnEvent, Refuse, OnRequest, Close, Next1
  <2>3. conn'[d] = conn[d]
    BY <1>1, <1>3 DEF Read, OnEvent, Refuse, OnRequest, Close, TypeOK
  <2>4. tasks'[d] = tasks[d]
    BY <1>1, <1>3 DEF Read, OnEvent, Refuse, OnRequest, Close, TypeOK
  <2>5. cmds' = cmds \/ \E l \in Commands : ~Numbered(l, d) /\ cmds' = Append(cmds, l)
    <3>1. CASE OnEvent(c)
      <4>1. Cmd("event", c, 0, f.n) \in Commands /\ Cmd("event", c, 0, f.n).c = c
        BY <1>1, <1>2, <3>1, ACommand DEF OnEvent, Next1, Cmd
      <4> QED  BY <1>3, <3>1, <4>1 DEF OnEvent, Numbered
    <3>2. CASE Close(c)
      <4>1. Cmd("abandon", c, 0, peer[c].n + 1) \in Commands /\ Cmd("abandon", c, 0, peer[c].n + 1).c = c
        BY <1>1, ACommand DEF Cmd
      <4> QED  BY <1>3, <3>2, <4>1 DEF Close, Numbered
    <3>3. CASE Refuse(c) \/ OnRequest(c)
      BY <3>3 DEF Refuse, OnRequest
    <3> QED  BY <3>1, <3>2, <3>3 DEF Read
  <2> QED  BY <2>1, <2>2, <2>3, <2>4, <2>5, RestsElsewhere DEF Moves, NoNewTasks
<1>4. ASSUME c = d, up[c] # <<>>, Took(c), UNCHANGED <<peer, conn>>, tasks'[c] = tasks[c] \/ f.of = "req"
      PROVE  /\ NoNewFrames(d) /\ \A i \in DOMAIN up'[d] : up'[d][i].n # 0 => f.n < up'[d][i].n
             /\ f.of = "req" => \A i \in DOMAIN up'[d] : up'[d][i].n = 0
             /\ f.n = 0 <=> f.of = "torn"
             /\ f.of = "ev" => tasks[d] = {}
  <2>1. up'[d] = Tail(up[d])
    BY <1>4, TookUp
  <2>2. /\ Written(d)'
        /\ \A i \in DOMAIN up'[d] : up'[d][i] = up[d][i + 1] /\ i + 1 \in DOMAIN up[d]
        /\ f.of = "req" => \A i \in DOMAIN up'[d] : up'[d][i].of = "torn"
        /\ \A i \in DOMAIN up'[d] : up'[d][i].n # 0 => f.n < up'[d][i].n
    BY <1>4, <2>1, Shorter
  <2>3. \A i \in DOMAIN up'[d] : up'[d][i].of = "torn" => up'[d][i].n = 0
    BY <2>2 DEF Written
  <2>4. (f.n = 0 <=> f.of = "torn") /\ (f.of = "ev" => tasks[d] = {})
    BY <1>2, <1>4 DEF KeptUp, Written, Underway
  <2> HIDE DEF f
  <2> QED  BY <2>2, <2>3, <2>4 DEF NoNewFrames
<1>5. ASSUME c = d, OnEvent(c) PROVE Reports(d)
  <2>1. /\ up[c] # <<>> /\ Took(c) /\ UNCHANGED <<peer, conn, tasks, turn>> /\ f.of = "ev" /\ conn[c].open
        /\ cmds' = Append(cmds, Cmd("event", d, 0, f.n))
    BY <1>5 DEF OnEvent, Next1
  <2>2. NoNewFrames(d) /\ (\A i \in DOMAIN up'[d] : up'[d][i].n # 0 => f.n < up'[d][i].n) /\ f.n # 0
        /\ tasks[d] = {}
    BY <1>4, <1>5, <2>1
  <2> QED  BY <1>2, <1>5, <2>1, <2>2 DEF Reports, Same
<1>6. ASSUME c = d, OnRequest(c) PROVE Starts(d)
  <2>1. /\ up[c] # <<>> /\ Took(c) /\ UNCHANGED <<peer, conn, cmds, turn>> /\ f.of = "req"
        /\ tasks'[c] = tasks[c] \union {NewTask(f)}
    BY <1>6 DEF OnRequest, Next1, TypeOK
  <2>2. (\A i \in DOMAIN up'[d] : up'[d][i].n = 0) /\ f.n # 0
    BY <1>4, <1>6, <2>1
  <2>3. tasks[d] = {}
    BY <1>2, <1>6, <2>1 DEF KeptUp, Written
  <2>4. \A t \in tasks'[d] : t.n = f.n
    BY <1>6, <2>1, <2>3 DEF NewTask
  <2> QED  BY <1>2, <1>6, <2>1, <2>2, <2>4 DEF Starts, Same
<1>7. ASSUME c = d, Refuse(c) PROVE Rests(d)
  <2>1. up[c] # <<>> /\ Took(c) /\ UNCHANGED <<peer, conn, tasks, cmds, turn>>
    BY <1>7 DEF Refuse, Next1
  <2> QED  BY <1>4, <1>7, <2>1 DEF Rests, Same, NoNewTasks
<1>8. ASSUME c = d, Close(c) PROVE Rests(d) \/ LetsGo(d)
  <2>1. up'[d] = <<>> /\ peer[c].pc = "gone" /\ UNCHANGED <<peer, tasks, turn>>
    <3>1. CASE Next1(c, "torn") /\ Took(c)
      <4>1. up[c] # <<>> /\ f.of = "torn" /\ up'[c] = Tail(up[c])
        BY <3>1, TookUp DEF Next1
      <4>2. 1 \in DOMAIN up[c] /\ f = up[c][1] /\ (Len(up[c]) = 1 => Tail(up[c]) = <<>>)
        BY <4>1, UpHolds, Took1
      <4> QED  BY <1>8, <4>1, <4>2 DEF KeptUp, Written, Close
    <3>2. CASE up[c] = <<>> /\ peer[c].pc = "gone" /\ UNCHANGED up
      BY <1>8, <3>2 DEF Close
    <3> QED  BY <1>8, <3>1, <3>2 DEF Close
  <2>2. /\ cmds' = cmds \/ (conn[d].open /\ cmds' = Append(cmds, Cmd("abandon", d, 0, peer[d].n + 1)))
        /\ conn' = [conn EXCEPT ![c].open = FALSE] /\ conn[c].open
    BY <1>8 DEF Close
  <2>3. ~conn'[d].open
    BY <1>8, <2>2 DEF TypeOK
  <2>4. NoNewFrames(d) /\ NoNewTasks(d)
    BY <2>1 DEF NoNewFrames, NoNewTasks
  <2> QED  BY <1>8, <2>1, <2>2, <2>3, <2>4 DEF Rests, LetsGo, Same
<1> QED  BY <1>3, <1>5, <1>6, <1>7, <1>8 DEF Read, Moves

LEMMA MovesWork ==
    ASSUME TypeOK, NEW c \in Clients, NEW t \in tasks[c], NEW d \in Callers, KeptUp(d),
           Asks(c, t) \/ Tells(c, t) \/ Forward(c, t) \/ Generates(c, t) \/ Pump(c, t)
             \/ Completes(c, t) \/ Brain(c, t)
    PROVE  Moves(d)
<1>1. /\ d \in Clients /\ t \in Tasks /\ t.id \in Nat /\ t.n \in Nat /\ t.sent + 1 \in Nat /\ t.op \in Named
      /\ 0 \in Nat
  BY CallersAreClients, ATask DEF Tasks
<1>2. UNCHANGED <<peer, up, turn>> /\ conn'[d].open = conn[d].open
  <2>1. UNCHANGED <<peer, up, turn>> /\ (~Tells(c, t) => conn' = conn)
    BY DEF Asks, Tells, Forward, Generates, Pump, Completes, Brain
  <2>2. Tells(c, t) => conn'[d].open = conn[d].open
    <3>1. conn \in [Clients -> ConnRec]
      BY ConnHolds
    <3> QED  BY <1>1, <3>1 DEF Tells, ConnRec
  <2> QED  BY <2>1, <2>2
<1>3. ASSUME c # d PROVE tasks'[d] = tasks[d]
  BY <1>1, <1>3 DEF Asks, Tells, Forward, Generates, Pump, Completes, Brain, Become, Ends, TypeOK
<1>4. ASSUME ~Asks(c, t) PROVE Rests(d)
  <2>1. cmds' = cmds \/ \E l \in Commands : ~Numbered(l, d) /\ cmds' = Append(cmds, l)
    <3>1. Cmd("event", c, 0, 0) \in Commands /\ Cmd("event", c, 0, 0).n = 0
      BY <1>1, ACommand DEF Cmd
    <3>2. cmds' = cmds \/ cmds' = Append(cmds, Cmd("event", c, 0, 0))
      BY <1>4 DEF Tells, Forward, Generates, Pump, Completes, Brain
    <3> QED  BY <3>1, <3>2 DEF Numbered
  <2>2. NoNewTasks(d)
    <3>1. CASE c # d
      BY <1>3, <3>1 DEF NoNewTasks
    <3>2. CASE c = d /\ tasks'[d] = tasks[d] \ {t}
      BY <3>2 DEF NoNewTasks
    <3>3. CASE c = d /\ tasks'[d] = tasks[d]
      BY <3>3 DEF NoNewTasks
    <3>4. ASSUME c = d, NEW u, u.at # "new", tasks'[d] = (tasks[d] \ {t}) \union {u} PROVE NoNewTasks(d)
      BY <3>4 DEF NoNewTasks
    <3>5. CASE c = d /\ Tells(c, t)
      <4>1. [t EXCEPT !.at = "watching"].at # "new"
        BY <1>1 DEF Tasks
      <4> QED  BY <1>1, <3>2, <3>4, <3>5, <4>1 DEF Tells, Ends, Become, TypeOK
    <3>6. CASE c = d /\ Forward(c, t)
      BY <1>1, <3>2, <3>3, <3>6 DEF Forward, Ends, TypeOK
    <3>7. CASE c = d /\ Generates(c, t)
      <4>1. [t EXCEPT !.at = "brain"].at # "new"
        BY <1>1 DEF Tasks
      <4> QED  BY <1>1, <3>4, <3>7, <4>1 DEF Generates, Become, TypeOK
    <3>8. CASE c = d /\ Pump(c, t)
      <4>1. t.at # "new" /\ [t EXCEPT !.sent = @ + 1].at = t.at
        BY <1>1, <3>8, TheTask DEF Tasks, Pump
      <4> QED  BY <1>1, <3>4, <3>8, <4>1 DEF Pump, Become, TypeOK
    <3>9. CASE c = d /\ Completes(c, t)
      <4>1. tasks'[d] = tasks[d] \ {t}
        BY <1>1, <3>9 DEF Completes, Pumped, Ends, TypeOK
      <4> QED  BY <3>2, <3>9, <4>1
    <3>10. CASE c = d /\ Brain(c, t)
      <4>1. \A u \in {[t EXCEPT !.said = @ + 1], [t EXCEPT !.at = "pump"], [t EXCEPT !.at = "pump", !.ok = FALSE]} :
               u.at # "new"
        BY <1>1, <3>10 DEF Tasks, Brain
      <4> QED  BY <1>1, <3>4, <3>10, <4>1 DEF Brain, Become, TypeOK
    <3> QED  BY <1>4, <3>1, <3>5, <3>6, <3>7, <3>8, <3>9, <3>10
  <2> QED  BY <1>2, <2>1, <2>2, RestsElsewhere
<1>5. ASSUME c # d, Asks(c, t) PROVE Rests(d)
  <2>1. Cmd(t.op, c, t.id, t.n) \in Commands /\ Cmd(t.op, c, t.id, t.n).c = c
    BY <1>1, ACommand DEF Cmd
  <2>2. cmds' = Append(cmds, Cmd(t.op, c, t.id, t.n))
    BY <1>5 DEF Asks
  <2>3. NoNewTasks(d)
    BY <1>3, <1>5 DEF NoNewTasks
  <2> QED  BY <1>2, <1>5, <2>1, <2>2, <2>3, RestsElsewhere DEF Numbered
<1>6. ASSUME c = d, Asks(c, t) PROVE Requested(d)
  <2>1. tasks[d] = {t} /\ t.n = peer[d].n /\ t.op \in Asked /\ \A i \in DOMAIN up[d] : up[d][i].of = "torn"
    BY <1>6, TheTask
  <2>2. t.at = "new" /\ cmds' = Append(cmds, Cmd(t.op, d, t.id, t.n))
    BY <1>6 DEF Asks
  <2> DEFINE u == [t EXCEPT !.at = "hub"]
  <2>3. u.at = "hub"
    BY <1>1 DEF Tasks
  <2>4. tasks'[d] = (tasks[d] \ {t}) \union {u}
    BY <1>1, <1>6 DEF Asks, Become, TypeOK
  <2> HIDE DEF u
  <2>5. \A v \in tasks'[d] : v.at # "new"
    BY <2>1, <2>3, <2>4
  <2>6. \A j \in DOMAIN up'[d] : up'[d][j].n = 0
    BY <1>2, <2>1, <1>6 DEF KeptUp, Written
  <2> QED  BY <1>2, <2>1, <2>2, <2>5, <2>6 DEF Requested, Same, NoNewFrames
<1> QED  BY <1>4, <1>5, <1>6 DEF Moves

-----------------------------------------------------------------------------
(* The news stay in order.                                                 *)

LEMMA CmdsHold ==
    ASSUME TypeOK
    PROVE  /\ cmds \in Seq(Commands) /\ DOMAIN cmds = 1..Len(cmds) /\ Len(cmds) \in Nat
           /\ \A i \in DOMAIN cmds : cmds[i] \in Commands /\ cmds[i].n \in Nat
<1>1. cmds \in Seq(Commands)
  BY DEF TypeOK
<1>2. DOMAIN cmds = 1..Len(cmds) /\ Len(cmds) \in Nat /\ \A i \in DOMAIN cmds : cmds[i] \in Commands
  BY <1>1
<1> QED  BY <1>1, <1>2 DEF Commands

LEMMA PlaceStays ==
    ASSUME TypeOK, NEW d \in Callers, NEW k \in Commands, Place(k, d), Moves(d)
    PROVE  Place(k, d)'
<1>1. /\ k.n \in Nat /\ peer[d].n \in Nat /\ d \in Clients
      /\ \A i \in DOMAIN up[d] : up[d][i].n \in Nat
  BY CallersAreClients, PeerHolds, UpHolds DEF Commands
<1>2. CASE Rests(d)
  BY <1>1, <1>2 DEF Rests, Same, NoNewFrames, NoNewTasks, Place, Numbered
<1>3. CASE Acts(d)
  BY <1>1, <1>3 DEF Acts, Place, Numbered
<1>4. CASE Reports(d)
  BY <1>1, <1>4 DEF Reports, Same, NoNewFrames, Place, Numbered
<1>5. CASE Starts(d)
  BY <1>1, <1>5 DEF Starts, Same, Place, Numbered
<1>6. CASE Requested(d)
  BY <1>1, <1>6 DEF Requested, Same, NoNewFrames, Place, Numbered
<1>7. CASE LetsGo(d)
  BY <1>1, <1>7 DEF LetsGo, Place, Numbered
<1> QED  BY <1>2, <1>3, <1>4, <1>5, <1>6, <1>7 DEF Moves

\* Whatever the hub is told next takes its place behind what it was told before.
LEMMA NextPlace ==
    ASSUME TypeOK, NEW d \in Callers, KeptUp(d), Moves(d)
    PROVE  \/ cmds' = cmds
           \/ \E l \in Commands :
                /\ cmds' = Append(cmds, l) /\ Place(l, d)'
                /\ \A k \in Commands : Place(k, d) => Follows(k, l, d)
                /\ \A x \in Nat : x # 0 /\ Passed(x, d) /\ Numbered(l, d)
                                  /\ (l.kind = "event" \/ turn'[d] # "over") => x < l.n
<1>1. /\ peer[d].n \in Nat /\ d \in Clients /\ 0 \in Nat /\ peer[d].n + 1 \in Nat
      /\ \A i \in DOMAIN up[d] : up[d][i].n \in Nat
  BY CallersAreClients, PeerHolds, UpHolds
<1>2. CASE Rests(d)
  BY <1>2 DEF Rests, Place, Follows, Numbered
<1>3. CASE Acts(d) \/ Starts(d)
  BY <1>3 DEF Acts, Starts
<1>4. CASE Reports(d)
  <2>1. PICK f \in DOMAIN up[d] :
                    /\ up[d][f].n # 0
                    /\ cmds' = Append(cmds, Cmd("event", d, 0, up[d][f].n))
                    /\ \A j \in DOMAIN up'[d] : up'[d][j].n # 0 => up[d][f].n < up'[d][j].n
    BY <1>4 DEF Reports
  <2>2. PICK l \in Commands : /\ l = Cmd("event", d, 0, up[d][f].n)
                              /\ l.kind = "event" /\ l.c = d /\ l.n = up[d][f].n
    <3> DEFINE v == Cmd("event", d, 0, up[d][f].n)
    <3>1. v \in Commands
      BY <1>1, ACommand
    <3>2. v.kind = "event" /\ v.c = d /\ v.n = up[d][f].n
      BY DEF Cmd
    <3> HIDE DEF v
    <3>3. v = Cmd("event", d, 0, up[d][f].n)
      BY DEF v
    <3> QED  BY <3>1, <3>2, <3>3
  <2>3. cmds' = Append(cmds, l)
    BY <2>1, <2>2
  <2>4. /\ l.n <= peer[d].n /\ tasks'[d] = {} /\ peer'[d].n = peer[d].n /\ conn[d].open
        /\ \A j \in DOMAIN up'[d] : up'[d][j].n # 0 => l.n < up'[d][j].n
    BY <1>4, <2>1, <2>2 DEF Reports, Same, KeptUp, Written
  <2>5. Place(l, d)'
    BY <2>2, <2>4 DEF Place
  <2>6. \A k \in Commands : Place(k, d) => Follows(k, l, d)
    BY <2>1, <2>2, <2>4 DEF Place, Follows
  <2>7. \A x \in Nat : x # 0 /\ Passed(x, d) => x < l.n
    BY <2>1, <2>2 DEF Passed
  <2> QED  BY <2>2, <2>3, <2>5, <2>6, <2>7
<1>5. CASE Requested(d)
  <2>1. PICK t \in tasks[d] : /\ t.at = "new" /\ t.n = peer[d].n
                             /\ cmds' = Append(cmds, Cmd(t.op, d, t.id, t.n)) /\ t.op \in Asked
    BY <1>5 DEF Requested
  <2>2. PICK l \in Commands : /\ l = Cmd(t.op, d, t.id, t.n)
                              /\ l.kind \notin {"event", "abandon"} /\ l.c = d /\ l.n = t.n
    <3>1. t.id \in Nat /\ t.n \in Nat /\ t.op \in Named
      BY <1>1, ATask DEF Tasks
    <3>2. t.op \notin {"event", "abandon"}
      BY <2>1 DEF Asked
    <3> DEFINE v == Cmd(t.op, d, t.id, t.n)
    <3>3. v \in Commands
      BY <1>1, <3>1, ACommand
    <3>4. v.kind = t.op /\ v.c = d /\ v.n = t.n
      BY DEF Cmd
    <3> HIDE DEF v
    <3>5. v = Cmd(t.op, d, t.id, t.n)
      BY DEF v
    <3> QED  BY <3>2, <3>3, <3>4, <3>5
  <2>3. cmds' = Append(cmds, l)
    BY <2>1, <2>2
  <2>4. /\ l.n <= peer'[d].n /\ turn'[d] = turn[d]
        /\ \A j \in DOMAIN up'[d] : up'[d][j].n = 0
        /\ \A u \in tasks'[d] : u.at # "new"
    BY <1>1, <1>5, <2>1, <2>2 DEF Requested, Same
  <2>5. Place(l, d)'
    BY <2>2, <2>4 DEF Place
  <2>6. \A k \in Commands : Place(k, d) => Follows(k, l, d)
    BY <2>1, <2>2 DEF Place, Follows
  <2>7. \A x \in Nat : x # 0 /\ Passed(x, d) /\ turn'[d] # "over" => x < l.n
    BY <2>1, <2>2, <2>4 DEF Passed
  <2> QED  BY <2>2, <2>3, <2>5, <2>6, <2>7
<1>6. CASE LetsGo(d)
  <2>1. PICK l \in Commands : /\ l = Cmd("abandon", d, 0, peer[d].n + 1)
                              /\ l.kind = "abandon" /\ l.c = d /\ l.n = peer[d].n + 1
    <3> DEFINE v == Cmd("abandon", d, 0, peer[d].n + 1)
    <3>1. v \in Commands
      BY <1>1, ACommand
    <3>2. v.kind = "abandon" /\ v.c = d /\ v.n = peer[d].n + 1
      BY DEF Cmd
    <3> HIDE DEF v
    <3>3. v = Cmd("abandon", d, 0, peer[d].n + 1)
      BY DEF v
    <3> QED  BY <3>1, <3>2, <3>3
  <2>2. cmds' = Append(cmds, l)
    BY <1>6, <2>1 DEF LetsGo
  <2>3. conn[d].open /\ ~conn'[d].open /\ DOMAIN up'[d] = {}
    BY <1>6 DEF LetsGo
  <2>4. Place(l, d)'
    BY <2>1, <2>3 DEF Place
  <2>5. ASSUME NEW k \in Commands, Place(k, d) PROVE Follows(k, l, d)
    <3>1. k.n \in Nat
      BY DEF Commands
    <3> QED  BY <1>1, <2>1, <2>3, <2>5, <3>1 DEF Place, Follows
  <2>6. \A x \in Nat : x # 0 /\ Passed(x, d) => x < l.n
    BY <1>1, <2>1, <2>3 DEF Passed
  <2> QED  BY <2>1, <2>2, <2>4, <2>5, <2>6
<1> QED  BY <1>2, <1>3, <1>4, <1>5, <1>6 DEF Moves

LEMMA QueuedStays ==
    ASSUME TypeOK, NEW d \in Callers, KeptUp(d), Queued(d), Moves(d)
    PROVE  Queued(d)'
<1>1. /\ cmds \in Seq(Commands) /\ DOMAIN cmds = 1..Len(cmds) /\ Len(cmds) \in Nat
      /\ \A i \in DOMAIN cmds : cmds[i] \in Commands
  BY CmdsHold
<1>2. \A k \in Commands : Place(k, d) => Place(k, d)'
  <2> SUFFICES ASSUME NEW k \in Commands, Place(k, d) PROVE Place(k, d)'
    OBVIOUS
  <2> QED  BY PlaceStays
<1>3. CASE cmds' = cmds
  BY <1>1, <1>2, <1>3 DEF Queued, Place, Follows, Numbered
<1>4. ASSUME NEW l \in Commands, cmds' = Append(cmds, l), Place(l, d)',
             \A k \in Commands : Place(k, d) => Follows(k, l, d)
      PROVE  Queued(d)'
  <2>1. /\ DOMAIN cmds' = 1..Len(cmds) + 1 /\ \A i \in DOMAIN cmds : cmds'[i] = cmds[i]
        /\ cmds'[Len(cmds) + 1] = l
        /\ \A i \in DOMAIN cmds' : i \in DOMAIN cmds \/ i = Len(cmds) + 1
    BY <1>1, <1>4, Put
  <2>2. (\A i \in DOMAIN cmds : Place(cmds[i], d))'
    <3> SUFFICES ASSUME NEW i \in DOMAIN cmds' PROVE Place(cmds[i], d)'
      OBVIOUS
    <3>1. CASE i \in DOMAIN cmds
      <4>1. Place(cmds[i], d) /\ cmds'[i] = cmds[i] /\ cmds[i] \in Commands
        BY <1>1, <2>1, <3>1 DEF Queued
      <4> QED  BY <1>2, <4>1 DEF Place, Numbered
    <3>2. CASE i = Len(cmds) + 1
      BY <1>4, <2>1, <3>2 DEF Place, Numbered
    <3> QED  BY <2>1, <3>1, <3>2
  <2>3. (\A i, j \in DOMAIN cmds : i < j => Follows(cmds[i], cmds[j], d))'
    <3> SUFFICES ASSUME NEW i \in DOMAIN cmds', NEW j \in DOMAIN cmds', i < j
                 PROVE  Follows(cmds'[i], cmds'[j], d)
      BY DEF Follows, Numbered
    <3>1. i \in DOMAIN cmds
      BY <1>1, <2>1
    <3>2. Place(cmds[i], d) /\ cmds'[i] = cmds[i]
      BY <2>1, <3>1 DEF Queued
    <3>3. CASE j \in DOMAIN cmds
      BY <2>1, <3>1, <3>2, <3>3 DEF Queued
    <3>4. CASE j = Len(cmds) + 1
      BY <1>1, <1>4, <2>1, <3>1, <3>2, <3>4
    <3> QED  BY <2>1, <3>3, <3>4
  <2> QED  BY <2>2, <2>3 DEF Queued
<1> QED  BY <1>3, <1>4, NextPlace

LEMMA PassedStays ==
    ASSUME TypeOK, NEW d \in Callers, KeptUp(d), NEW x \in Nat, Passed(x, d), Moves(d)
    PROVE  Passed(x, d)'
<1>1. /\ peer[d].n \in Nat /\ cmds \in Seq(Commands) /\ peer[d].n + 1 \in Nat
      /\ \A i \in DOMAIN up[d] : up[d][i].n \in Nat
  BY CallersAreClients, PeerHolds, UpHolds, CmdsHold
<1>2. x # 0 =>
      /\ conn'[d].open => x <= peer'[d].n
      /\ \A j \in DOMAIN up'[d] : up'[d][j].n # 0 => x < up'[d][j].n
      /\ turn'[d] # "over" => \A t \in tasks'[d] : t.at = "new" => x < t.n
      /\ turn'[d] = turn[d]
  <2>1. CASE Rests(d)
    BY <1>1, <2>1 DEF Rests, Same, NoNewFrames, NoNewTasks, Passed
  <2>2. CASE Acts(d)
    BY <1>1, <2>2 DEF Acts, Passed
  <2>3. CASE Reports(d)
    BY <1>1, <2>3 DEF Reports, Same, NoNewFrames, Passed
  <2>4. CASE Starts(d)
    BY <1>1, <2>4 DEF Starts, Same, Passed
  <2>5. CASE Requested(d)
    BY <1>1, <2>5 DEF Requested, Same, NoNewFrames, Passed
  <2>6. CASE LetsGo(d)
    BY <1>1, <2>6 DEF LetsGo, Passed
  <2> QED  BY <2>1, <2>2, <2>3, <2>4, <2>5, <2>6 DEF Moves
<1>3. ASSUME x # 0, NEW i \in DOMAIN cmds', Numbered(cmds'[i], d),
             cmds'[i].kind = "event" \/ turn'[d] # "over"
      PROVE  x < cmds'[i].n
  <2>1. CASE i \in DOMAIN cmds /\ cmds'[i] = cmds[i]
    BY <1>2, <1>3, <2>1 DEF Passed
  <2>2. ASSUME NEW l \in Commands, cmds' = Append(cmds, l),
               \A y \in Nat : y # 0 /\ Passed(y, d) /\ Numbered(l, d)
                              /\ (l.kind = "event" \/ turn'[d] # "over") => y < l.n
        PROVE  x < cmds'[i].n
    <3>1. (i \in DOMAIN cmds /\ cmds'[i] = cmds[i]) \/ cmds'[i] = l
      BY <1>1, <1>3, <2>2, Put
    <3>2. CASE cmds'[i] = l
      BY <1>3, <2>2, <3>2
    <3> QED  BY <2>1, <3>1, <3>2
  <2> QED  BY <1>3, <2>1, <2>2, NextPlace
<1> QED  BY <1>2, <1>3 DEF Passed, Numbered

-----------------------------------------------------------------------------
(* What a watcher is told, from one queue to the next.                     *)

LEMMA QueuesHold ==
    ASSUME TypeOK, NEW w \in Watchers, NEW c \in Callers
    PROVE  /\ w \in Clients /\ last[w][c] \in Nat
           /\ out[w].q \in Seq(ToPeer \union Pushes) /\ subs[w].q \in Seq(Pushes)
           /\ \A f \in ToPeer \union Pushes : Number(f, c) \in Nat
           /\ \A f \in ToPeer : Number(f, c) = 0
           /\ DOMAIN out[w].q = 1..Len(out[w].q) /\ Len(out[w].q) \in Nat
           /\ DOMAIN subs[w].q = 1..Len(subs[w].q) /\ Len(subs[w].q) \in Nat
           /\ \A i \in DOMAIN out[w].q : out[w].q[i] \in ToPeer \union Pushes
           /\ \A i \in DOMAIN subs[w].q : subs[w].q[i] \in Pushes
           /\ \A i \in DOMAIN out[w].q : Number(out[w].q[i], c) \in Nat
           /\ \A i \in DOMAIN subs[w].q : Number(subs[w].q[i], c) \in Nat
<1>1. w \in Clients
  BY CallersAreClients
<1>2. /\ out[w].q \in Seq(ToPeer \union Pushes) /\ subs[w].q \in Seq(Pushes) /\ last[w][c] \in Nat
  BY <1>1 DEF TypeOK
<1>3. /\ \A f \in ToPeer \union Pushes : Number(f, c) \in Nat
      /\ \A f \in ToPeer : Number(f, c) = 0
  BY DEF Number, ToPeer, Pushes
<1>4. /\ DOMAIN out[w].q = 1..Len(out[w].q) /\ Len(out[w].q) \in Nat
      /\ \A i \in DOMAIN out[w].q : out[w].q[i] \in ToPeer \union Pushes
  BY <1>2
<1>5. /\ DOMAIN subs[w].q = 1..Len(subs[w].q) /\ Len(subs[w].q) \in Nat
      /\ \A i \in DOMAIN subs[w].q : subs[w].q[i] \in Pushes
  BY <1>2
<1> QED  BY <1>1, <1>2, <1>3, <1>4, <1>5

\* Nothing more is told.
NothingNew(w, c) == Orderly(w, c)' /\ \A x \in Told(w, c)' : x = 0 \/ x \in Told(w, c)

LEMMA AsItWas ==
    ASSUME NEW w \in Watchers, NEW c \in Callers, Orderly(w, c),
           last'[w] = last[w], out'[w].q = out[w].q, subs'[w].q = subs[w].q
    PROVE  NothingNew(w, c)
  BY DEF NothingNew, Orderly, Told

LEMMA AnAnswer ==
    ASSUME TypeOK, NEW w \in Watchers, NEW c \in Callers, Orderly(w, c), NEW f \in ToPeer,
           last'[w] = last[w], out'[w].q = out[w].q \/ out'[w].q = Append(out[w].q, f), subs'[w].q = subs[w].q
    PROVE  NothingNew(w, c)
<1>1. CASE out'[w].q = out[w].q
  BY <1>1, AsItWas
<1>2. CASE out'[w].q = Append(out[w].q, f)
  <2> DEFINE q == out[w].q
             r == out'[w].q
             s == subs[w].q
             m == last[w][c]
  <2>1. /\ \A i \in DOMAIN r : \/ i \in DOMAIN q /\ r[i] = q[i]
                               \/ i = Len(q) + 1 /\ r[i] = f
        /\ DOMAIN q = 1..Len(q) /\ Len(q) \in Nat
    BY <1>2, QueuesHold, Put
  <2>2. Number(f, c) = 0
    BY QueuesHold
  <2>3. /\ \A i \in DOMAIN q : Before(m, Number(q[i], c))
        /\ \A i \in DOMAIN s : Before(m, Number(s[i], c))
        /\ \A i, j \in DOMAIN q : i < j => Before(Number(q[i], c), Number(q[j], c))
        /\ \A i \in DOMAIN q, j \in DOMAIN s : Before(Number(q[i], c), Number(s[j], c))
        /\ \A i, j \in DOMAIN s : i < j => Before(Number(s[i], c), Number(s[j], c))
    BY DEF Orderly
  <2> HIDE DEF q, r, s, m
  <2>4. \A i \in DOMAIN r : Number(r[i], c) = 0 \/ (i \in DOMAIN q /\ r[i] = q[i])
    BY <2>1, <2>2
  <2>5. /\ \A i \in DOMAIN r : Before(m, Number(r[i], c))
        /\ \A i, j \in DOMAIN r : i < j => Before(Number(r[i], c), Number(r[j], c))
        /\ \A i \in DOMAIN r, j \in DOMAIN s : Before(Number(r[i], c), Number(s[j], c))
    BY <2>3, <2>4 DEF Before
  <2>6. Orderly(w, c)'
    BY <2>3, <2>5 DEF Orderly, Before, q, r, s, m
  <2>7. \A x \in Told(w, c)' : x = 0 \/ x \in Told(w, c)
    BY <2>4 DEF Told, q, r, s, m
  <2> QED  BY <2>6, <2>7 DEF NothingNew
<1> QED  BY <1>1, <1>2

LEMMA ReadsOne ==
    ASSUME TypeOK, NEW w \in Watchers, NEW c \in Callers, Orderly(w, c), Reads(w)
    PROVE  NothingNew(w, c)
<1> DEFINE q == out[w].q
           r == out'[w].q
           s == subs[w].q
           m == last[w][c]
           h == Number(q[1], c)
<1>1. /\ q # <<>> /\ r = Tail(q) /\ subs' = subs
      /\ last'[w][c] = IF Number(Head(q), c) # 0 THEN Number(Head(q), c) ELSE m
  BY QueuesHold, ReadBy
<1>2. /\ \A i \in DOMAIN r : r[i] = q[i + 1] /\ i + 1 \in DOMAIN q /\ i \in Nat
      /\ 1 \in DOMAIN q /\ Head(q) = q[1]
      /\ \A i \in DOMAIN r : 1 < i + 1
      /\ \A i, j \in DOMAIN r : i < j => i + 1 < j + 1
  BY <1>1, QueuesHold, Took1
<1>3. /\ \A i \in DOMAIN q : Before(m, Number(q[i], c))
      /\ \A i \in DOMAIN s : Before(m, Number(s[i], c))
      /\ \A i, j \in DOMAIN q : i < j => Before(Number(q[i], c), Number(q[j], c))
      /\ \A i \in DOMAIN q, j \in DOMAIN s : Before(Number(q[i], c), Number(s[j], c))
      /\ \A i, j \in DOMAIN s : i < j => Before(Number(s[i], c), Number(s[j], c))
  BY DEF Orderly
<1>4. last'[w][c] = IF h # 0 THEN h ELSE m
  BY <1>1, <1>2
<1> HIDE DEF q, r, s, m, h
<1>5. \A i, j \in DOMAIN r : i < j => Before(Number(r[i], c), Number(r[j], c))
  BY <1>2, <1>3
<1>6. \A i \in DOMAIN r, j \in DOMAIN s : Before(Number(r[i], c), Number(s[j], c))
  BY <1>2, <1>3
<1>7. /\ \A i \in DOMAIN r : Before(h, Number(r[i], c)) /\ Before(m, Number(r[i], c))
      /\ \A i \in DOMAIN s : Before(h, Number(s[i], c))
  <2>1. \A i \in DOMAIN r : Before(Number(q[1], c), Number(q[i + 1], c))
    BY <1>2, <1>3
  <2> QED  BY <1>2, <1>3, <2>1 DEF h
<1>8. /\ \A i \in DOMAIN r : Before(last'[w][c], Number(r[i], c))
      /\ \A i \in DOMAIN s : Before(last'[w][c], Number(s[i], c))
  BY <1>3, <1>4, <1>7
<1>9. Orderly(w, c)'
  BY <1>1, <1>3, <1>5, <1>6, <1>8 DEF Orderly, Before, r, s
<1>10. \A x \in Told(w, c)' : x = 0 \/ x \in Told(w, c)
  <2>1. \A i \in DOMAIN r : \E j \in DOMAIN q : Number(r[i], c) = Number(q[j], c)
    BY <1>2
  <2>2. last'[w][c] = m \/ \E j \in DOMAIN q : last'[w][c] = Number(q[j], c)
    BY <1>2, <1>4 DEF h
  <2> QED  BY <1>1, <2>1, <2>2 DEF Told, q, r, s, m
<1> QED  BY <1>9, <1>10 DEF NothingNew

LEMMA Breaks ==
    ASSUME NEW w \in Watchers, NEW c \in Callers, Orderly(w, c),
           last'[w] = last[w], out'[w].q = <<>> \/ out'[w].q = out[w].q,
           subs'[w].q = <<>> \/ subs'[w].q = subs[w].q
    PROVE  NothingNew(w, c)
<1>1. DOMAIN out'[w].q = {} \/ out'[w].q = out[w].q
  OBVIOUS
<1>2. DOMAIN subs'[w].q = {} \/ subs'[w].q = subs[w].q
  OBVIOUS
<1>3. Orderly(w, c)'
  BY <1>1, <1>2 DEF Orderly, Before
<1>4. \A x \in Told(w, c)' : x = 0 \/ x \in Told(w, c)
  BY <1>1, <1>2 DEF Told
<1> QED  BY <1>3, <1>4 DEF NothingNew

\* An event goes from the hub's queue to the connection's, or is dropped between them.
LEMMA Forwards ==
    ASSUME TypeOK, NEW w \in Watchers, NEW c \in Callers, Orderly(w, c),
           last'[w] = last[w], subs[w].q # <<>>, subs'[w].q = Tail(subs[w].q),
           out'[w].q = out[w].q \/ out'[w].q = Append(out[w].q, Head(subs[w].q))
    PROVE  NothingNew(w, c)
<1> DEFINE q == out[w].q
           r == out'[w].q
           s == subs[w].q
           u == subs'[w].q
           m == last[w][c]
<1>1. /\ \A i \in DOMAIN u : u[i] = s[i + 1] /\ i + 1 \in DOMAIN s /\ i \in Nat /\ 1 < i + 1
      /\ 1 \in DOMAIN s /\ Head(s) = s[1] /\ s[1] \in ToPeer \union Pushes
      /\ \A i, j \in DOMAIN u : i < j => i + 1 < j + 1
  BY QueuesHold, Took1
<1>2. \A i \in DOMAIN r : \/ i \in DOMAIN q /\ r[i] = q[i]
                          \/ i \notin DOMAIN q /\ r[i] = s[1] /\ \A j \in DOMAIN r : j = i \/ (j < i /\ j \in DOMAIN q)
  <2>1. CASE r = q
    BY <2>1
  <2>2. CASE r = Append(q, s[1])
    <3>1. /\ DOMAIN r = 1..Len(q) + 1 /\ DOMAIN q = 1..Len(q) /\ Len(q) \in Nat
          /\ \A i \in DOMAIN q : r[i] = q[i]
          /\ r[Len(q) + 1] = s[1]
      BY <1>1, <2>2, QueuesHold, Put
    <3> HIDE DEF q, r, s
    <3> QED  BY <3>1
  <2> QED  BY <1>1, <2>1, <2>2
<1>3. /\ \A i \in DOMAIN q : Before(m, Number(q[i], c))
      /\ \A i \in DOMAIN s : Before(m, Number(s[i], c))
      /\ \A i, j \in DOMAIN q : i < j => Before(Number(q[i], c), Number(q[j], c))
      /\ \A i \in DOMAIN q, j \in DOMAIN s : Before(Number(q[i], c), Number(s[j], c))
      /\ \A i, j \in DOMAIN s : i < j => Before(Number(s[i], c), Number(s[j], c))
  BY DEF Orderly
<1>4. DOMAIN q \subseteq Nat /\ DOMAIN r \subseteq Nat /\ DOMAIN s \subseteq Nat
  <2>1. DOMAIN q \subseteq Nat /\ DOMAIN s \subseteq Nat
    BY QueuesHold
  <2>2. DOMAIN r \subseteq Nat
    <3>1. CASE r = q
      BY <2>1, <3>1
    <3>2. CASE r = Append(q, s[1])
      BY <1>1, <3>2, QueuesHold, Put
    <3> QED  BY <1>1, <3>1, <3>2
  <2> QED  BY <2>1, <2>2
<1> HIDE DEF q, r, s, u, m
<1>5. \A i \in DOMAIN r : Before(m, Number(r[i], c))
  BY <1>1, <1>2, <1>3
<1>6. \A i \in DOMAIN u : Before(m, Number(u[i], c))
  BY <1>1, <1>3
<1>7. \A i, j \in DOMAIN r : i < j => Before(Number(r[i], c), Number(r[j], c))
  <2> SUFFICES ASSUME NEW i \in DOMAIN r, NEW j \in DOMAIN r, i < j
               PROVE  Before(Number(r[i], c), Number(r[j], c))
    OBVIOUS
  <2>1. CASE j \in DOMAIN q /\ r[j] = q[j]
    <3>1. i \in DOMAIN q /\ r[i] = q[i]
      BY <1>2, <1>4, <2>1
    <3> QED  BY <1>3, <2>1, <3>1
  <2>2. CASE j \notin DOMAIN q /\ r[j] = s[1]
    <3>1. i \in DOMAIN q /\ r[i] = q[i]
      BY <1>2, <1>4, <2>2
    <3> QED  BY <1>1, <1>3, <2>2, <3>1
  <2> QED  BY <1>2, <2>1, <2>2
<1>8. \A i \in DOMAIN r, j \in DOMAIN u : Before(Number(r[i], c), Number(u[j], c))
  <2> SUFFICES ASSUME NEW i \in DOMAIN r, NEW j \in DOMAIN u PROVE Before(Number(r[i], c), Number(u[j], c))
    OBVIOUS
  <2>1. u[j] = s[j + 1] /\ j + 1 \in DOMAIN s /\ 1 < j + 1 /\ 1 \in DOMAIN s
    BY <1>1
  <2>2. CASE r[i] = s[1]
    BY <1>3, <2>1, <2>2
  <2>3. CASE i \in DOMAIN q /\ r[i] = q[i]
    BY <1>3, <2>1, <2>3
  <2> QED  BY <1>2, <2>2, <2>3
<1>9. \A i, j \in DOMAIN u : i < j => Before(Number(u[i], c), Number(u[j], c))
  BY <1>1, <1>3
<1>10. Orderly(w, c)'
  BY <1>5, <1>6, <1>7, <1>8, <1>9 DEF Orderly, Before, r, u, m
<1>11. \A x \in Told(w, c)' : x = 0 \/ x \in Told(w, c)
  <2>1. \A i \in DOMAIN r : \/ \E j \in DOMAIN q : Number(r[i], c) = Number(q[j], c)
                            \/ \E j \in DOMAIN s : Number(r[i], c) = Number(s[j], c)
    BY <1>1, <1>2
  <2>2. \A i \in DOMAIN u : \E j \in DOMAIN s : Number(u[i], c) = Number(s[j], c)
    BY <1>1
  <2> QED  BY <2>1, <2>2 DEF Told, q, r, s, u, m
<1> QED  BY <1>10, <1>11 DEF NothingNew

\* Whoever takes a step but the hub, nothing more is told of a caller.
LEMMA TellsNothing ==
    ASSUME TypeOK, NEW c \in Clients, Client(c) \/ Listen(c) \/ Read(c),
           NEW w \in Watchers, NEW d \in Callers, Orderly(w, d)
    PROVE  NothingNew(w, d)
<1>1. w \in Clients /\ c \in Clients
  BY CallersAreClients
<1>2. CASE Client(c)
  <2>1. UNCHANGED <<out, subs, last>>
    BY <1>2, ClientSteps
  <2> QED  BY <2>1, AsItWas
<1>3. CASE Hears(c)
  <2>1. c # w /\ UNCHANGED <<subs, last>>
    BY <1>3, CallersAreClients DEF Hears
  <2>2. out'[w] = out[w]
    BY <1>1, <1>3, <2>1, Heard
  <2> QED  BY <2>1, <2>2, AsItWas
<1>4. CASE Reads(c) /\ c = w
  BY <1>4, ReadsOne
<1>5. CASE Reads(c) /\ c # w
  <2>1. subs' = subs /\ out'[w] = out[w] /\ last'[w] = last[w]
    BY <1>1, <1>5, ReadBy
  <2> QED  BY <2>1, AsItWas
<1>6. CASE Break(c)
  <2>1. subs' = subs /\ last' = last /\ (out'[w].q = <<>> \/ out'[w].q = out[w].q)
    BY <1>1, <1>6 DEF Break, TypeOK
  <2> QED  BY <2>1, Breaks
<1>7. CASE Refuse(c)
  <2> DEFINE f == Err(Head(up[c]).id)
  <2>1. f \in ToPeer
    <3>1. Head(up[c]) \in ToCore
      BY <1>7, UpHolds, Took1 DEF Refuse, Next1
    <3>2. Head(up[c]).id \in Nat /\ 0 \in Nat
      BY <3>1 DEF ToCore
    <3> QED  BY <3>2, FrameToPeer
  <2>2. Send(c, f) /\ subs' = subs /\ last' = last
    BY <1>7 DEF Refuse
  <2> HIDE DEF f
  <2>3. out'[w].q = out[w].q \/ out'[w].q = Append(out[w].q, f)
    BY <1>1, <2>1, <2>2, Sent
  <2> QED  BY <2>1, <2>2, <2>3, AnAnswer
<1>8. CASE Read(c) /\ ~Refuse(c)
  <2>1. UNCHANGED <<out, subs, last>>
    BY <1>8 DEF Read, OnEvent, OnRequest, Close
  <2> QED  BY <2>1, AsItWas
<1> QED  BY <1>2, <1>3, <1>4, <1>5, <1>6, <1>7, <1>8 DEF Listen

LEMMA WorkTells ==
    ASSUME TypeOK, NEW c \in Clients, NEW t \in tasks[c],
           Asks(c, t) \/ Tells(c, t) \/ Forward(c, t) \/ Generates(c, t) \/ Pump(c, t)
             \/ Completes(c, t) \/ Brain(c, t),
           NEW w \in Watchers, NEW d \in Callers, Orderly(w, d)
    PROVE  NothingNew(w, d)
<1>1. w \in Clients /\ t.id \in Nat /\ t.sent + 1 \in Nat
  BY CallersAreClients, ATask DEF Tasks
<1>2. last' = last
  BY DEF Asks, Tells, Forward, Generates, Pump, Completes, Brain
<1>3. ASSUME NEW f \in ToPeer, Send(c, f), subs' = subs PROVE NothingNew(w, d)
  <2>1. out'[w].q = out[w].q \/ out'[w].q = Append(out[w].q, f)
    BY <1>1, <1>3, Sent
  <2> QED  BY <1>2, <1>3, <2>1, AnAnswer
<1>4. CASE Asks(c, t) \/ Generates(c, t) \/ Brain(c, t)
  <2>1. UNCHANGED <<out, subs>>
    BY <1>4 DEF Asks, Generates, Brain
  <2> QED  BY <1>2, <2>1, AsItWas
<1>5. CASE Tells(c, t) \/ Completes(c, t)
  <2>1. subs' = subs /\ Send(c, IF t.ok THEN Rep(t.id) ELSE Err(t.id))
    BY <1>5 DEF Tells, Completes
  <2>2. Rep(t.id) \in ToPeer /\ Err(t.id) \in ToPeer
    BY <1>1, FrameToPeer
  <2> QED  BY <1>3, <2>1, <2>2
<1>6. CASE Pump(c, t)
  <2>1. subs' = subs /\ Send(c, Part(t.id, t.sent + 1)) /\ Part(t.id, t.sent + 1) \in ToPeer
    BY <1>1, <1>6, FrameToPeer DEF Pump
  <2> QED  BY <1>3, <2>1
<1>7. CASE Forward(c, t) /\ c # w
  <2>1. Head(subs[c].q) \in ToPeer \union Pushes /\ Send(c, Head(subs[c].q))
    <3>1. subs[c].q \in Seq(Pushes) /\ subs[c].q # <<>>
      BY <1>7 DEF Forward, TypeOK
    <3> QED  BY <1>7, <3>1, Took1 DEF Forward
  <2>2. out'[w] = out[w]
    BY <1>1, <1>7, <2>1, Sent
  <2>3. subs'[w] = subs[w]
    BY <1>1, <1>7 DEF Forward, TypeOK
  <2> QED  BY <1>2, <2>2, <2>3, AsItWas
<1>8. CASE Forward(c, t) /\ c = w /\ out[w].open
  <2>1. subs[w].q # <<>> /\ Head(subs[w].q) \in ToPeer \union Pushes /\ Send(w, Head(subs[w].q))
    <3>1. subs[w].q \in Seq(Pushes) /\ subs[w].q # <<>>
      BY <1>1, <1>8 DEF Forward, TypeOK
    <3> QED  BY <1>8, <3>1, Took1 DEF Forward
  <2>2. subs'[w].q = Tail(subs[w].q)
    <3>1. subs \in [Clients -> SubRec]
      BY DEF TypeOK, SubRec
    <3>2. subs' = [subs EXCEPT ![w].q = Tail(@)]
      BY <1>8 DEF Forward
    <3> QED  BY <1>1, <3>1, <3>2 DEF SubRec
  <2>3. out'[w].q = out[w].q \/ out'[w].q = Append(out[w].q, Head(subs[w].q))
    BY <1>1, <2>1, Sent
  <2> QED  BY <1>2, <2>1, <2>2, <2>3, Forwards
<1>9. CASE Forward(c, t) /\ c = w /\ ~out[w].open
  <2>1. out' = out
    BY <1>9 DEF Forward, Send, Fits
  <2>2. subs'[w].q = <<>>
    BY <1>1, <1>9 DEF Forward, TypeOK
  <2> QED  BY <1>2, <2>1, <2>2, Breaks
<1> QED  BY <1>4, <1>5, <1>6, <1>7, <1>8, <1>9

\* What a watcher is told of a caller is in order, and what is still to come, comes after it.
WellTold(w, d) == Orderly(w, d) /\ \A x \in Told(w, d) : Passed(x, d)

LEMMA ToldIsNat ==
    ASSUME TypeOK, NEW w \in Watchers, NEW d \in Callers
    PROVE  Told(w, d) \subseteq Nat
  BY QueuesHold DEF Told

LEMMA StillInOrder ==
    ASSUME TypeOK, NEW w \in Watchers, NEW d \in Callers, KeptUp(d), Moves(d),
           WellTold(w, d), NothingNew(w, d)
    PROVE  WellTold(w, d)'
<1>1. Orderly(w, d)'
  BY DEF NothingNew
<1>2. (\A x \in Told(w, d) : Passed(x, d))'
  <2> SUFFICES ASSUME NEW x \in Told(w, d)' PROVE Passed(x, d)'
    OBVIOUS
  <2>1. CASE x = 0
    BY <2>1 DEF Passed
  <2>2. CASE x \in Told(w, d)
    <3>1. x \in Nat /\ Passed(x, d)
      BY <2>2, ToldIsNat DEF WellTold
    <3> QED  BY <3>1, PassedStays
  <2> QED  BY <2>1, <2>2 DEF NothingNew
<1> QED  BY <1>1, <1>2 DEF WellTold

-----------------------------------------------------------------------------
(* The hub: what was told of a caller before comes before what it tells.   *)

LEMMA HubTook ==
    ASSUME TypeOK, NEW d \in Callers, Handle
    PROVE  /\ NoNewTasks(d) /\ UNCHANGED <<peer, up, conn>> /\ (turn[d] = "over" => turn'[d] = "over")
           /\ \A i \in DOMAIN cmds' : /\ cmds'[i] = cmds[i + 1] /\ i + 1 \in DOMAIN cmds /\ 1 < i + 1
                                      /\ cmds[i + 1] \in Commands
           /\ \A i, j \in DOMAIN cmds' : i < j => i + 1 < j + 1
           /\ 1 \in DOMAIN cmds /\ Head(cmds) = cmds[1] /\ cmds[1] \in Commands
<1> DEFINE k == Head(cmds)
<1>1. /\ cmds # <<>> /\ cmds' = Tail(cmds) /\ UNCHANGED <<peer, up, conn>>
      /\ \A e \in Clients \ {k.c} : tasks'[e] = tasks[e]
      /\ tasks'[k.c] = {Answered(t, k) : t \in tasks[k.c]}
      /\ \A e \in Callers \ {k.c} : turn'[e] = turn[e]
      /\ k.c \in Callers => (turn[k.c] = "over" => turn'[k.c] = "over")
  BY Handled
<1>2. NoNewTasks(d)
  <2>1. CASE k.c # d
    BY <1>1, <2>1, CallersAreClients DEF NoNewTasks
  <2>2. ASSUME k.c = d, NEW t \in tasks[d], Answered(t, k).at = "new" PROVE Answered(t, k) = t
    <3>1. t \in Tasks
      BY CallersAreClients, ATask
    <3>2. CASE t.at = "hub" /\ t.id = k.task
      <4> DEFINE ok == Decides(k)
      <4>1. Answered(t, k) = [t EXCEPT !.at = "told", !.ok = ok]
        BY <3>2 DEF Answered
      <4> HIDE DEF ok, k
      <4>2. [t EXCEPT !.at = "told", !.ok = ok].at = "told"
        BY <3>1 DEF Tasks
      <4> QED  BY <2>2, <4>1, <4>2
    <3>3. CASE ~(t.at = "hub" /\ t.id = k.task)
      BY <3>3 DEF Answered
    <3> QED  BY <3>2, <3>3
  <2> QED  BY <1>1, <2>1, <2>2 DEF NoNewTasks
<1>3. turn[d] = "over" => turn'[d] = "over"
  BY <1>1
<1>4. /\ \A i \in DOMAIN cmds' : /\ cmds'[i] = cmds[i + 1] /\ i + 1 \in DOMAIN cmds /\ 1 < i + 1
                                 /\ cmds[i + 1] \in Commands
      /\ \A i, j \in DOMAIN cmds' : i < j => i + 1 < j + 1
      /\ 1 \in DOMAIN cmds /\ Head(cmds) = cmds[1] /\ cmds[1] \in Commands
  BY <1>1, CmdsHold, Took1
<1> QED  BY <1>1, <1>2, <1>3, <1>4

LEMMA QueuedByHub ==
    ASSUME TypeOK, NEW d \in Callers, Queued(d), Handle
    PROVE  Queued(d)'
<1>1. \A k \in Commands : Place(k, d) => Place(k, d)'
  BY HubTook DEF Place, Numbered, NoNewTasks
<1>2. (\A i \in DOMAIN cmds : Place(cmds[i], d))'
  <2> SUFFICES ASSUME NEW i \in DOMAIN cmds' PROVE Place(cmds[i], d)'
    OBVIOUS
  <2>1. cmds'[i] = cmds[i + 1] /\ Place(cmds[i + 1], d) /\ cmds[i + 1] \in Commands
    BY HubTook DEF Queued
  <2>2. PICK k \in Commands : k = cmds[i + 1]
    BY <2>1
  <2> QED  BY <1>1, <2>1, <2>2 DEF Place, Numbered
<1>3. (\A i, j \in DOMAIN cmds : i < j => Follows(cmds[i], cmds[j], d))'
  <2> SUFFICES ASSUME NEW i \in DOMAIN cmds', NEW j \in DOMAIN cmds', i < j
               PROVE  Follows(cmds'[i], cmds'[j], d)
    BY DEF Follows, Numbered
  <2> QED  BY HubTook DEF Queued
<1> QED  BY <1>2, <1>3 DEF Queued

LEMMA PassedByHub ==
    ASSUME TypeOK, NEW d \in Callers, NEW x \in Nat, Passed(x, d), Handle
    PROVE  Passed(x, d)'
  BY HubTook DEF Passed, Numbered, NoNewTasks

\* All that can still be told of a caller comes after what the hub just told of it.
LEMMA ToldPasses ==
    ASSUME TypeOK, NEW d \in Callers, Queued(d), Handle, Head(cmds).c = d
    PROVE  \E x \in Nat : x = Head(cmds).n /\ Passed(x, d)'
<1> DEFINE k == cmds[1]
<1>1. /\ k = Head(cmds) /\ Place(k, d) /\ k.n \in Nat
      /\ \A i \in DOMAIN cmds' : Follows(k, cmds[i + 1], d)
  BY HubTook, CmdsHold DEF Queued
<1>2. k.kind = "abandon" => turn'[d] = "over"
  BY <1>1, Handled
<1>3. PICK x \in Nat : x = Head(cmds).n
  BY <1>1
<1> HIDE DEF k
<1>4. x # 0 =>
      /\ conn'[d].open => x <= peer'[d].n
      /\ \A j \in DOMAIN up'[d] : up'[d][j].n # 0 => x < up'[d][j].n
      /\ turn'[d] # "over" => \A t \in tasks'[d] : t.at = "new" => x < t.n
  BY <1>1, <1>2, <1>3, HubTook DEF Place, Numbered, NoNewTasks
<1>5. ASSUME x # 0, NEW i \in DOMAIN cmds', Numbered(cmds'[i], d),
             cmds'[i].kind = "event" \/ turn'[d] # "over"
      PROVE  x < cmds'[i].n
  BY <1>1, <1>2, <1>3, <1>5, HubTook DEF Follows, Numbered
<1>6. Passed(x, d)'
  BY <1>4, <1>5 DEF Passed, Numbered
<1> QED  BY <1>3, <1>6

LEMMA Pushed ==
    ASSUME TypeOK, NEW w \in Watchers, NEW d \in Callers, Orderly(w, d), NEW e \in Pushes,
           last'[w] = last[w], out'[w].q = out[w].q, subs'[w].q = Append(subs[w].q, e),
           \A x \in Told(w, d) : Before(x, Number(e, d))
    PROVE  Orderly(w, d)' /\ \A x \in Told(w, d)' : x \in Told(w, d) \/ x = Number(e, d)
<1> DEFINE q == out[w].q
           s == subs[w].q
           u == subs'[w].q
           m == last[w][d]
<1>1. /\ \A i \in DOMAIN u : \/ i \in DOMAIN s /\ u[i] = s[i]
                             \/ i = Len(s) + 1 /\ u[i] = e
      /\ DOMAIN s = 1..Len(s) /\ Len(s) \in Nat
  <2>1. s \in Seq(Pushes) /\ u = Append(s, e)
    BY QueuesHold
  <2> HIDE DEF s, u
  <2>2. /\ DOMAIN u = 1..Len(s) + 1 /\ DOMAIN s = 1..Len(s) /\ Len(s) \in Nat
        /\ \A i \in DOMAIN s : u[i] = s[i]
        /\ u[Len(s) + 1] = e
        /\ \A i \in DOMAIN u : i \in DOMAIN s \/ i = Len(s) + 1
    BY <2>1, Put
  <2> QED  BY <2>2
<1>2. /\ \A i \in DOMAIN q : Before(m, Number(q[i], d))
      /\ \A i \in DOMAIN s : Before(m, Number(s[i], d))
      /\ \A i, j \in DOMAIN q : i < j => Before(Number(q[i], d), Number(q[j], d))
      /\ \A i \in DOMAIN q, j \in DOMAIN s : Before(Number(q[i], d), Number(s[j], d))
      /\ \A i, j \in DOMAIN s : i < j => Before(Number(s[i], d), Number(s[j], d))
  BY DEF Orderly
<1>3. /\ Before(m, Number(e, d))
      /\ \A i \in DOMAIN q : Before(Number(q[i], d), Number(e, d))
      /\ \A i \in DOMAIN s : Before(Number(s[i], d), Number(e, d))
  BY DEF Told
<1> HIDE DEF q, s, u, m
<1>5. /\ \A i \in DOMAIN u : Before(m, Number(u[i], d))
      /\ \A i \in DOMAIN q, j \in DOMAIN u : Before(Number(q[i], d), Number(u[j], d))
  BY <1>1, <1>2, <1>3
<1>6. \A i, j \in DOMAIN u : i < j => Before(Number(u[i], d), Number(u[j], d))
  <2> SUFFICES ASSUME NEW i \in DOMAIN u, NEW j \in DOMAIN u, i < j
               PROVE  Before(Number(u[i], d), Number(u[j], d))
    OBVIOUS
  <2>1. i \in DOMAIN s /\ u[i] = s[i]
    BY <1>1
  <2> QED  BY <1>1, <1>2, <1>3, <2>1
<1>7. Orderly(w, d)'
  BY <1>2, <1>5, <1>6 DEF Orderly, Before, q, u, m
<1>8. \A x \in Told(w, d)' : x \in Told(w, d) \/ x = Number(e, d)
  <2>1. \A i \in DOMAIN u : Number(u[i], d) = Number(e, d) \/ \E j \in DOMAIN s : Number(u[i], d) = Number(s[j], d)
    BY <1>1
  <2> QED  BY <2>1 DEF Told, q, s, u, m
<1> QED  BY <1>7, <1>8

LEMMA HeardFromHub ==
    ASSUME TypeOK, NEW w \in Watchers, NEW d \in Callers, Queued(d), WellTold(w, d), Handle
    PROVE  WellTold(w, d)'
<1> DEFINE k == Head(cmds)
<1>1. /\ UNCHANGED <<out, last>> /\ k \in Commands /\ w \in Clients /\ k.n \in Nat
      /\ k.kind = "watch" => subs' = [subs EXCEPT ![k.c] = [state |-> "live", q |-> <<>>]]
      /\ k.kind # "watch" =>
                 \/ subs'[w].q = <<>> \/ subs'[w].q = subs[w].q
                 \/ Announces(k) /\ subs'[w].q = Append(subs[w].q, PushOf(k.c, k.n))
  <2>1. k \in Commands => k.n \in Nat
    BY DEF Commands
  <2> HIDE DEF k
  <2> QED  BY <2>1, Handled, CallersAreClients DEF k
<1>2. Orderly(w, d) /\ \A x \in Told(w, d) : x \in Nat /\ Passed(x, d)
  BY ToldIsNat DEF WellTold
<1>3. \A x \in Told(w, d) : Passed(x, d)'
  BY <1>2, PassedByHub
<1>4. CASE NothingNew(w, d)
  <2>1. (\A x \in Told(w, d) : Passed(x, d))'
    <3> SUFFICES ASSUME NEW x \in Told(w, d)' PROVE Passed(x, d)'
      OBVIOUS
    <3> QED  BY <1>3, <1>4 DEF NothingNew, Passed
  <2> QED  BY <1>4, <2>1 DEF NothingNew, WellTold
<1>5. CASE subs'[w].q = <<>> \/ subs'[w].q = subs[w].q
  BY <1>1, <1>2, <1>4, <1>5, Breaks
<1>6. CASE k.kind = "watch"
  <2> HIDE DEF k
  <2>1. subs'[w].q = <<>> \/ subs'[w].q = subs[w].q
    <3>1. DOMAIN subs = Clients
      BY DEF TypeOK
    <3>2. subs'[w] = IF w = k.c THEN [state |-> "live", q |-> <<>>] ELSE subs[w]
      BY <1>1, <1>6, <3>1
    <3> QED  BY <3>2
  <2> QED  BY <1>5, <2>1
<1>7. CASE Announces(k) /\ subs'[w].q = Append(subs[w].q, PushOf(k.c, k.n))
  <2> DEFINE e == PushOf(k.c, k.n)
             y == Number(e, d)
  <2>1. e \in Pushes /\ k.c \in Clients
    <3>1. k.c \in Clients
      BY <1>1 DEF Commands
    <3> QED  BY <1>1, <3>1, FrameToPeer
  <2>2. y = IF k.c = d THEN k.n ELSE 0
    BY DEF Number, PushOf
  <2>3. \A x \in Told(w, d) : Before(x, y)
    <3> SUFFICES ASSUME NEW x \in Told(w, d), x # 0, k.c = d, k.n # 0 PROVE x < k.n
      BY <2>2 DEF Before
    <3>1. k.kind = "event" \/ turn[d] # "over"
      BY <1>7 DEF Announces, Decides
    <3>2. 1 \in DOMAIN cmds /\ cmds[1] = k
      BY HubTook
    <3> QED  BY <1>2, <3>1, <3>2 DEF Passed, Numbered
  <2>4. y = 0 \/ (k.c = d /\ y = k.n)
    BY <2>2
  <2>5. Orderly(w, d)' /\ \A x \in Told(w, d)' : x \in Told(w, d) \/ x = y
    <3> HIDE DEF e
    <3>1. subs'[w].q = Append(subs[w].q, e)
      BY <1>7 DEF e
    <3> QED  BY <1>1, <1>2, <2>1, <2>3, <3>1, Pushed
  <2>6. PICK z \in Nat : z = k.n /\ (k.c = d => Passed(z, d)')
    BY <1>1, ToldPasses
  <2>8. (\A x \in Told(w, d) : Passed(x, d))'
    <3> SUFFICES ASSUME NEW x \in Told(w, d)' PROVE Passed(x, d)'
      OBVIOUS
    <3>1. CASE x \in Told(w, d)
      BY <1>3, <3>1
    <3>2. CASE x = 0
      BY <3>2 DEF Passed
    <3>3. CASE k.c = d /\ x = z
      BY <2>6, <3>3
    <3> QED  BY <2>4, <2>5, <2>6, <3>1, <3>2, <3>3
  <2> QED  BY <2>5, <2>8 DEF WellTold
<1> QED  BY <1>1, <1>5, <1>6, <1>7

-----------------------------------------------------------------------------
(* From the first state on, and what it comes to.                          *)

LEMMA NewsIs == News <=> (\A d \in Callers : Queued(d)) /\ \A w \in Watchers, d \in Callers : WellTold(w, d)
  BY DEF News, WellTold

LEMMA NewsInit == Init => News
<1> SUFFICES ASSUME Init PROVE News
  OBVIOUS
<1>1. cmds = <<>> /\ DOMAIN cmds = {}
  BY DEF Init
<1>2. ASSUME NEW w \in Watchers, NEW d \in Callers
      PROVE  last[w][d] = 0 /\ DOMAIN out[w].q = {} /\ DOMAIN subs[w].q = {}
  BY CallersAreClients DEF Init
<1>3. \A d \in Callers : Queued(d)
  BY <1>1 DEF Queued
<1>4. ASSUME NEW w \in Watchers, NEW d \in Callers PROVE WellTold(w, d)
  <2>1. Told(w, d) = {0}
    BY <1>2 DEF Told
  <2>2. Orderly(w, d)
    BY <1>2 DEF Orderly
  <2> QED  BY <2>1, <2>2 DEF WellTold, Passed
<1> QED  BY <1>3, <1>4, NewsIs

LEMMA NewsStep == TypeOK /\ Exchange /\ News /\ [Next]_vars => News'
<1> SUFFICES ASSUME TypeOK, Exchange, News, [Next]_vars PROVE News'
  OBVIOUS
<1>0. (\A d \in Callers : Queued(d) /\ KeptUp(d)) /\ \A w \in Watchers, d \in Callers : WellTold(w, d) /\ Orderly(w, d)
  BY NewsIs DEF Exchange, WellTold
<1>1. ASSUME NEW c \in Clients, Client(c) \/ Listen(c) \/ Read(c) \/ Work(c) \/ Generate(c),
             NEW d \in Callers
      PROVE  Queued(d)' /\ \A w \in Watchers : WellTold(w, d)'
  <2>1. Moves(d)
    BY <1>0, <1>1, MovesClient, MovesListen, MovesRead, MovesWork DEF Work, Generate
  <2>2. ASSUME NEW w \in Watchers PROVE NothingNew(w, d)
    BY <1>0, <1>1, TellsNothing, WorkTells DEF Work, Generate
  <2>3. Queued(d)'
    BY <1>0, <2>1, QueuedStays
  <2>4. ASSUME NEW w \in Watchers PROVE WellTold(w, d)'
    BY <1>0, <2>1, <2>2, StillInOrder
  <2> QED  BY <2>3, <2>4
<1>2. ASSUME Handle, NEW d \in Callers PROVE Queued(d)' /\ \A w \in Watchers : WellTold(w, d)'
  <2>1. Queued(d)'
    BY <1>0, <1>2, QueuedByHub
  <2>2. ASSUME NEW w \in Watchers PROVE WellTold(w, d)'
    BY <1>0, <1>2, HeardFromHub
  <2> QED  BY <2>1, <2>2
<1>3. ASSUME UNCHANGED vars, NEW d \in Callers PROVE Queued(d)' /\ \A w \in Watchers : WellTold(w, d)'
  <2>1. UNCHANGED <<peer, up, conn, tasks, out, cmds, turn, subs, last>>
    BY <1>3 DEF vars
  <2>2. Queued(d)'
    BY <1>0, <2>1 DEF Queued, Place, Follows, Numbered
  <2>3. ASSUME NEW w \in Watchers PROVE WellTold(w, d)'
    BY <1>0, <2>1 DEF WellTold, Orderly, Told, Passed, Numbered, Before
  <2> QED  BY <2>2, <2>3
<1>4. \A d \in Callers : Queued(d)' /\ \A w \in Watchers : WellTold(w, d)'
  BY <1>1, <1>2, <1>3 DEF Next
<1> QED  BY <1>4 DEF News, WellTold

LEMMA Joined ==
    ASSUME NEW S, NEW s \in Seq(S), NEW u \in Seq(S)
    PROVE  /\ s \o u \in Seq(S) /\ Len(s \o u) = Len(s) + Len(u) /\ DOMAIN (s \o u) = 1..(Len(s) + Len(u))
           /\ \A i \in 1..Len(s) : (s \o u)[i] = s[i]
           /\ \A i \in DOMAIN (s \o u) : i > Len(s) => i - Len(s) \in 1..Len(u) /\ (s \o u)[i] = u[i - Len(s)]
<1> DEFINE z == s \o u
<1>1. z \in Seq(S) /\ Len(z) = Len(s) + Len(u) /\ Len(s) \in Nat /\ Len(u) \in Nat
  BY ConcatProperties
<1>2. \A i \in 1..(Len(s) + Len(u)) : z[i] = IF i <= Len(s) THEN s[i] ELSE u[i - Len(s)]
  BY ConcatProperties
<1> HIDE DEF z
<1>3. DOMAIN z = 1..(Len(s) + Len(u))
  BY <1>1
<1>4. ASSUME NEW i \in 1..Len(s) PROVE z[i] = s[i]
  <2>1. i \in 1..(Len(s) + Len(u)) /\ i <= Len(s)
    BY <1>1
  <2> QED  BY <1>2, <2>1
<1>5. ASSUME NEW i \in DOMAIN z, i > Len(s) PROVE i - Len(s) \in 1..Len(u) /\ z[i] = u[i - Len(s)]
  <2>1. i \in 1..(Len(s) + Len(u)) /\ ~(i <= Len(s)) /\ i - Len(s) \in 1..Len(u)
    BY <1>1, <1>3, <1>5
  <2> QED  BY <1>2, <2>1
<1> QED  BY <1>1, <1>3, <1>4, <1>5 DEF z

LEMMA NewsInOrder ==
    ASSUME TypeOK, NEW w \in Watchers, NEW c \in Callers, Orderly(w, c)
    PROVE  InOrder(ComingTo(w, c))
<1> DEFINE q == out[w].q
           s == subs[w].q
           m == <<last[w][c]>>
           nq == [i \in DOMAIN q |-> Number(q[i], c)]
           ns == [i \in DOMAIN s |-> Number(s[i], c)]
           a == m \o nq
           z == a \o ns
<1>1. /\ last[w][c] \in Nat /\ DOMAIN q = 1..Len(q) /\ Len(q) \in Nat
      /\ DOMAIN s = 1..Len(s) /\ Len(s) \in Nat
      /\ \A i \in DOMAIN q : Number(q[i], c) \in Nat
      /\ \A i \in DOMAIN s : Number(s[i], c) \in Nat
  BY QueuesHold
<1>2. /\ \A i \in DOMAIN q : Before(last[w][c], Number(q[i], c))
      /\ \A i \in DOMAIN s : Before(last[w][c], Number(s[i], c))
      /\ \A i, j \in DOMAIN q : i < j => Before(Number(q[i], c), Number(q[j], c))
      /\ \A i \in DOMAIN q, j \in DOMAIN s : Before(Number(q[i], c), Number(s[j], c))
      /\ \A i, j \in DOMAIN s : i < j => Before(Number(s[i], c), Number(s[j], c))
  BY DEF Orderly
<1>3. ComingTo(w, c) = z
  BY DEF ComingTo
<1> HIDE DEF q, s
<1>4. m \in Seq(Nat) /\ Len(m) = 1 /\ m[1] = last[w][c]
  BY <1>1
<1>5. nq \in Seq(Nat) /\ Len(nq) = Len(q) /\ ns \in Seq(Nat) /\ Len(ns) = Len(s)
      /\ (\A i \in 1..Len(q) : nq[i] = Number(q[i], c)) /\ (\A i \in 1..Len(s) : ns[i] = Number(s[i], c))
  BY <1>1
<1> HIDE DEF m, nq, ns
<1>6. a \in Seq(Nat) /\ Len(a) = 1 + Len(q) /\ a[1] = last[w][c]
      /\ \A i \in 1..Len(a) : i # 1 => i - 1 \in 1..Len(q) /\ a[i] = nq[i - 1]
  <2>1. /\ a \in Seq(Nat) /\ Len(a) = Len(m) + Len(nq) /\ DOMAIN a = 1..(Len(m) + Len(nq))
        /\ \A i \in 1..Len(m) : a[i] = m[i]
        /\ \A i \in DOMAIN a : i > Len(m) => i - Len(m) \in 1..Len(nq) /\ a[i] = nq[i - Len(m)]
    <3>1. m \in Seq(Nat) /\ nq \in Seq(Nat)
      BY <1>4, <1>5
    <3> QED  BY ONLY <3>1, Joined, Zenon
  <2> HIDE DEF a
  <2>2. a[1] = m[1]
    BY <1>4, <2>1
  <2>3. \A i \in 1..Len(a) : i # 1 => i \in DOMAIN a /\ i > 1
    BY <1>1, <1>4, <1>5, <2>1
  <2> QED  BY <1>4, <1>5, <2>1, <2>2, <2>3
<1> HIDE DEF a
<1>7. /\ z \in Seq(Nat) /\ DOMAIN z = 1..(Len(a) + Len(s)) /\ \A i \in 1..Len(a) : z[i] = a[i]
      /\ \A i \in DOMAIN z : i > Len(a) => i - Len(a) \in 1..Len(s) /\ z[i] = ns[i - Len(a)]
  <2>1. a \in Seq(Nat) /\ ns \in Seq(Nat)
    BY <1>5, <1>6
  <2>2. /\ z \in Seq(Nat) /\ Len(z) = Len(a) + Len(ns) /\ DOMAIN z = 1..(Len(a) + Len(ns))
        /\ \A i \in 1..Len(a) : z[i] = a[i]
        /\ \A i \in DOMAIN z : i > Len(a) => i - Len(a) \in 1..Len(ns) /\ z[i] = ns[i - Len(a)]
    BY ONLY <2>1, Joined, Zenon
  <2> HIDE DEF z
  <2> QED  BY <1>5, <2>2
<1> HIDE DEF z
<1>8. /\ \A i \in DOMAIN z : i \in Nat /\ i >= 1 /\ i <= Len(a) + Len(s)
      /\ \A i \in DOMAIN z : i <= Len(a) => i \in 1..Len(a)
      /\ Len(a) \in Nat
  BY <1>1, <1>6, <1>7
<1>9. \A i \in DOMAIN z : i <= Len(a) /\ i # 1 => i - 1 \in DOMAIN q /\ z[i] = Number(q[i - 1], c)
  BY <1>1, <1>5, <1>6, <1>7, <1>8
<1>10. \A i \in DOMAIN z : i > Len(a) => i - Len(a) \in DOMAIN s /\ z[i] = Number(s[i - Len(a)], c)
  BY <1>1, <1>5, <1>7
<1>11. z[1] = last[w][c] /\ (\A i \in DOMAIN z : 1 <= Len(a) /\ i # 1 => 1 < i)
  BY <1>1, <1>6, <1>7, <1>8
<1>12. SUFFICES ASSUME NEW i \in DOMAIN z, NEW j \in DOMAIN z, i < j PROVE Before(z[i], z[j])
  BY <1>3 DEF InOrder, Before
<1>13. CASE j <= Len(a) /\ i = 1
  <2>1. z[i] = last[w][c] /\ j - 1 \in DOMAIN q /\ z[j] = Number(q[j - 1], c)
    BY <1>12, <1>13, <1>8, <1>9, <1>11
  <2> QED  BY <1>2, <2>1
<1>14. CASE j <= Len(a) /\ i # 1
  <2>1. /\ i - 1 \in DOMAIN q /\ z[i] = Number(q[i - 1], c) /\ i - 1 < j - 1
        /\ j - 1 \in DOMAIN q /\ z[j] = Number(q[j - 1], c)
    BY <1>12, <1>14, <1>8, <1>9
  <2> QED  BY <1>2, <2>1
<1>15. CASE j > Len(a) /\ i = 1
  <2>1. z[i] = last[w][c] /\ j - Len(a) \in DOMAIN s /\ z[j] = Number(s[j - Len(a)], c)
    BY <1>12, <1>15, <1>8, <1>10, <1>11
  <2> QED  BY <1>2, <2>1
<1>16. CASE j > Len(a) /\ i # 1 /\ i <= Len(a)
  <2>1. /\ i - 1 \in DOMAIN q /\ z[i] = Number(q[i - 1], c)
        /\ j - Len(a) \in DOMAIN s /\ z[j] = Number(s[j - Len(a)], c)
    BY <1>16, <1>9, <1>10
  <2> QED  BY <1>2, <2>1
<1>17. CASE i > Len(a)
  <2>1. /\ i - Len(a) \in DOMAIN s /\ z[i] = Number(s[i - Len(a)], c) /\ i - Len(a) < j - Len(a)
        /\ j - Len(a) \in DOMAIN s /\ z[j] = Number(s[j - Len(a)], c)
    BY <1>12, <1>17, <1>8, <1>10
  <2> QED  BY <1>2, <2>1
<1> QED  BY <1>12, <1>8, <1>13, <1>14, <1>15, <1>16, <1>17

\* A watcher is told of what a turn did in the order it was done, each thing once, though an
\* event and a message take different ways through the core, and though its connection may break
\* at any point of them.
THEOREM ToldInOrder == Spec => []AsTheyHappened
<1>1. TypeOK /\ News => AsTheyHappened
  <2> SUFFICES ASSUME TypeOK, News, NEW w \in Watchers, NEW c \in Callers
               PROVE  InOrder(ComingTo(w, c))
    BY DEF AsTheyHappened
  <2>1. Orderly(w, c)
    BY DEF News
  <2> QED  BY <2>1, NewsInOrder
<1>2. Init => TypeOK /\ Exchange /\ News
  BY TypeInit, ExchangeInit, NewsInit
<1>3. TypeOK /\ Exchange /\ News /\ [Next]_vars => TypeOK' /\ Exchange' /\ News'
  BY TypeStep, ExchangeStep, NewsStep
<1> QED  BY <1>1, <1>2, <1>3, PTL DEF Spec

================================================================================
