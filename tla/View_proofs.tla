----------------------------- MODULE View_proofs -----------------------------
(***************************************************************************)
(* Machine-checked proofs about View, for a window that keeps any number   *)
(* of bubbles, pages of any size, and any conversation.                    *)
(*                                                                         *)
(* The end of a turn corrects that turn's own answer because the events    *)
(* come in the order of the turns: between an answer and the next end of a *)
(* turn there is no other turn's beginning, wherever in the queue the      *)
(* window has got to (InLine, and Awaits for what is still to be said).    *)
(*                                                                         *)
(* What is on screen of the journal is a run of it because a page is taken *)
(* only while the window waits for it, and the window waits for one page   *)
(* at a time; it ends where the oldest thing held begins (Asked, OnItsWay).*)
(***************************************************************************)
EXTENDS View, TLAPS, SequenceTheorems

Bound(m) == m.name \in {"turn_start", "turn_end"}

OfSaid(w) == w.bubbles[w.said].of

\* An end that is reached from an answer with no bound between them is of the same turn: the
\* answer that stands in the window w, or one that is still to come.
InLine(q, w) ==
    /\ \A i \in DOMAIN q : w.said # 0 /\ q[i].name = "turn_end" /\ (\A k \in DOMAIN q : k < i => ~Bound(q[k]))
                           => q[i].of = OfSaid(w)
    /\ \A i, j \in DOMAIN q : i < j /\ q[i].name = "message" /\ q[j].name = "turn_end"
                              /\ (\A k \in DOMAIN q : i < k /\ k < j => ~Bound(q[k]))
                              => q[j].of = q[i].of

\* What stands or comes with no bound behind it is the answer of the turn n.
Awaits(q, w, n) ==
    /\ w.said # 0 /\ (\A k \in DOMAIN q : ~Bound(q[k])) => OfSaid(w) = n
    /\ \A i \in DOMAIN q : q[i].name = "message" /\ (\A k \in DOMAIN q : i < k => ~Bound(q[k])) => q[i].of = n

Silent(q) == \A i \in DOMAIN q : q[i].name # "message"

Following ==
    /\ win.said <= Len(win.bubbles)
    /\ win.said # 0 => win.bubbles[win.said].who = "groow"
    /\ InLine(wire.rx, win)
    /\ wire.up /\ wire.watched /\ turn # None => Awaits(wire.rx, win, turn.n)
    /\ wire.up /\ ~wire.watched => win.said = 0 /\ Silent(wire.rx)

Follows == "astray" \notin lapses => Following

-----------------------------------------------------------------------------
(* What is asked and answered.                                             *)

HasPage(m) == m.name = "reply" /\ m.page.stamps # <<>>
Consecutive(s) == \A i \in DOMAIN s : s[i] = s[1] + (i - 1)
NoneHeld(s) == \A i \in DOMAIN s : s[i].at = 0

\* A connection and its ids: what was asked or answered on it came before what will be.
Numbers ==
    /\ pend.history \in {0, 4} /\ (pend.older = 0 \/ pend.older >= 7) /\ (link.open => link.next >= 7)
    /\ \A r \in wire.asked : r.id # 0 /\ r.id < link.next
    /\ \A i \in DOMAIN wire.rx : wire.rx[i].name = "reply" =>
           wire.rx[i].of # 0 /\ (link.open => wire.rx[i].of < link.next)

Connection ==
    /\ wire.up => link.open
    /\ ~wire.up => wire.asked = {}
    /\ \A i \in DOMAIN wire.rx : wire.rx[i].name = "gone" => i = Len(wire.rx) /\ ~wire.up

\* Nobody reads what is not written yet.
Stamps ==
    /\ win.oldest <= Len(log)
    /\ \A r \in wire.asked : r.before <= Len(log)
    /\ \A i \in DOMAIN wire.rx : HasPage(wire.rx[i]) =>
         LET s == wire.rx[i].page.stamps IN Consecutive(s) /\ s[1] # 0 /\ s[Len(s)] <= Len(log)

\* The first page is waited for with nothing held and nothing else awaited; an older one ends
\* where the oldest thing held begins.
Asked ==
    \A r \in wire.asked : r.op = "recall" =>
      /\ r.id = pend.history => NoneHeld(win.bubbles)
      /\ r.id = pend.older => pend.history = 0 /\ r.before = win.oldest /\ r.before # 0

OnItsWay ==
    \A i \in DOMAIN wire.rx : HasPage(wire.rx[i]) =>
      /\ wire.rx[i].of = pend.history => NoneHeld(win.bubbles)
      /\ wire.rx[i].of = pend.older =>
           /\ pend.history = 0
           /\ wire.rx[i].page.stamps[Len(wire.rx[i].page.stamps)] + 1 = win.oldest

Runs == {"gap", "crossed"} \intersect lapses = {} => IsARun(win.bubbles) /\ Asked /\ OnItsWay

Inv == TypeOK /\ Numbers /\ Connection /\ Stamps

-----------------------------------------------------------------------------
(* The window: what a bubble that is pushed, and a step of its own, do.    *)

LEMMA OfTwo ==
    ASSUME NEW a \in Int, NEW b \in Int
    PROVE  /\ Max({a, b}) = IF a >= b THEN a ELSE b
           /\ Min({a, b}) = IF a <= b THEN a ELSE b
  BY DEF Max, Min

LEMMA Pushed ==
    ASSUME NEW w \in Windows, NEW b \in Bubbles
    PROVE  LET v == Push(w, b)
               n == Len(w.bubbles)
           IN  \E c \in 0..n :
                 /\ v = [w EXCEPT !.bubbles = v.bubbles, !.said = v.said] /\ v \in Windows
                 /\ Len(v.bubbles) = n + 1 - c
                 /\ \A i \in 1..(n - c) : v.bubbles[i] = w.bubbles[i + c]
                 /\ v.bubbles[n + 1 - c] = b
                 /\ v.said = IF w.said > c THEN w.said - c ELSE 0
<1> DEFINE n == Len(w.bubbles)
           long == Append(w.bubbles, b)
           c == Max({0, Len(long) - Kept})
           v == Push(w, b)
<1>1. w.bubbles \in Seq(Bubbles) /\ w.said \in Nat /\ n \in Nat
  BY LenProperties DEF Windows
<1>2. long \in Seq(Bubbles) /\ Len(long) = n + 1 /\ (\A i \in 1..n : long[i] = w.bubbles[i]) /\ long[n + 1] = b
  BY <1>1, AppendProperties
<1>3. Kept \in Nat /\ Kept > 0
  BY ViewAssumption
<1>4. c \in 0..n
  <2>1. Len(long) - Kept \in Int  BY <1>1, <1>2, <1>3
  <2>2. c = IF 0 >= Len(long) - Kept THEN 0 ELSE Len(long) - Kept
    BY <2>1, OfTwo
  <2> QED  BY <2>1, <2>2, <1>1, <1>2, <1>3
<1> DEFINE cut == SubSeq(long, c + 1, Len(long))
<1>5. v = [w EXCEPT !.bubbles = cut, !.said = Shift(w.said, c)]
  BY DEF Push
<1> HIDE DEF v
<1>6. /\ cut \in Seq(Bubbles) /\ Len(cut) = n + 1 - c
      /\ \A i \in 1..(n + 1 - c) : cut[i] = long[i + c]
  <2> HIDE DEF c, long
  <2>1. c + 1 \in 1..(Len(long) + 1) /\ Len(long) \in 0..Len(long)
    BY <1>1, <1>2, <1>4
  <2>2. /\ cut \in Seq(Bubbles) /\ Len(cut) = Len(long) - (c + 1) + 1
        /\ \A i \in 1..(Len(long) - (c + 1) + 1) : cut[i] = long[c + 1 + i - 1]
    BY <2>1, <1>1, <1>2, <1>4, SubSeqProperties
  <2>3. \A i \in 1..(n + 1 - c) : cut[i] = long[i + c]
    <3> TAKE i \in 1..(n + 1 - c)
    <3>1. i \in Int /\ c \in Int /\ n \in Int  BY <1>1, <1>4
    <3>2. i \in 1..(Len(long) - (c + 1) + 1) /\ c + 1 + i - 1 = i + c  BY <3>1, <1>2
    <3>3. QED  BY <3>2, <2>2
  <2>4. Len(long) - (c + 1) + 1 = n + 1 - c  BY <1>1, <1>2, <1>4
  <2> QED  BY <2>2, <2>3, <2>4
<1> HIDE DEF cut
<1>7. v.bubbles = cut /\ v.said = (IF w.said > c THEN w.said - c ELSE 0) /\ v.said \in Nat
  <2> HIDE DEF c
  <2> QED  BY <1>1, <1>4, <1>5 DEF Windows, Shift
<1>8. v = [w EXCEPT !.bubbles = v.bubbles, !.said = v.said] /\ v \in Windows
  <2> HIDE DEF c
  <2> QED  BY <1>5, <1>6, <1>7 DEF Windows
<1>9. /\ \A i \in 1..(n - c) : v.bubbles[i] = w.bubbles[i + c]
      /\ v.bubbles[n + 1 - c] = b
  <2> HIDE DEF c, long
  <2>1. ASSUME NEW i \in 1..(n - c) PROVE v.bubbles[i] = w.bubbles[i + c]
    <3>1. i \in 1..(n + 1 - c) /\ i + c \in 1..n  BY <1>1, <1>4
    <3> QED  BY <3>1, <1>2, <1>6, <1>7
  <2>2. n + 1 - c \in 1..(n + 1 - c) /\ n + 1 - c + c = n + 1  BY <1>1, <1>4
  <2> QED  BY <2>1, <2>2, <1>2, <1>6, <1>7
<1>10. Len(v.bubbles) = n + 1 - c  BY <1>6, <1>7
<1> QED  BY <1>4, <1>7, <1>8, <1>9, <1>10 DEF v

LEMMA PushedLast ==
    ASSUME NEW w \in Windows, NEW b \in Bubbles
    PROVE  \E c \in 0..Len(w.bubbles) : /\ Len(Push(w, b).bubbles) = Len(w.bubbles) + 1 - c
                                       /\ Push(w, b).bubbles[Len(w.bubbles) + 1 - c] = b
<1> DEFINE v == Push(w, b)
           n == Len(w.bubbles)
<1> HIDE DEF v, n
<1>1. \E c \in 0..n : Len(v.bubbles) = n + 1 - c /\ v.bubbles[n + 1 - c] = b
  <2>1. \E c \in 0..n :
          /\ v = [w EXCEPT !.bubbles = v.bubbles, !.said = v.said] /\ v \in Windows
          /\ Len(v.bubbles) = n + 1 - c
          /\ \A i \in 1..(n - c) : v.bubbles[i] = w.bubbles[i + c]
          /\ v.bubbles[n + 1 - c] = b
          /\ v.said = IF w.said > c THEN w.said - c ELSE 0
    BY Pushed, Zenon DEF v, n
  <2> QED  BY ONLY <2>1
<1> QED  BY ONLY <1>1 DEF v, n

\* The window v shows nothing of the journal that w did not, and waits for the same.
Shows(v, w) ==
    /\ v \in Windows /\ v.oldest = w.oldest
    /\ IsARun(w.bubbles) => IsARun(v.bubbles)
    /\ NoneHeld(w.bubbles) => NoneHeld(v.bubbles)

\* The answer that stands in v is the one that stands in w.
Says(v, w) ==
    /\ v \in Windows
    /\ w.said <= Len(w.bubbles) =>
         /\ v.said <= Len(v.bubbles)
         /\ v.said # 0 => w.said # 0 /\ v.bubbles[v.said] = w.bubbles[w.said]

LEMMA PushShows ==
    ASSUME NEW w \in Windows, NEW b \in Bubbles, b.at = 0
    PROVE  Shows(Push(w, b), w) /\ Says(Push(w, b), w)
<1> DEFINE v == Push(w, b)
           n == Len(w.bubbles)
<1>1. PICK c \in 0..n :
        /\ v = [w EXCEPT !.bubbles = v.bubbles, !.said = v.said] /\ v \in Windows
        /\ Len(v.bubbles) = n + 1 - c
        /\ \A i \in 1..(n - c) : v.bubbles[i] = w.bubbles[i + c]
        /\ v.bubbles[n + 1 - c] = b
        /\ v.said = IF w.said > c THEN w.said - c ELSE 0
  BY Pushed
<1> HIDE DEF v
<1>2. /\ w.said \in Nat /\ n \in Nat /\ DOMAIN w.bubbles = 1..n
      /\ DOMAIN v.bubbles = 1..(n + 1 - c) /\ c \in Nat /\ c <= n /\ v.oldest = w.oldest
  <2>1. w.bubbles \in Seq(Bubbles) /\ w.said \in Nat /\ v.bubbles \in Seq(Bubbles)
    BY <1>1 DEF Windows
  <2>2. n \in Nat /\ DOMAIN w.bubbles = 1..n /\ DOMAIN v.bubbles = 1..Len(v.bubbles)
    BY <2>1, LenProperties
  <2>3. c \in Nat /\ c <= n
    BY <2>2
  <2>4. v.oldest = w.oldest
    BY ONLY w \in Windows, <1>1 DEF Windows
  <2> QED  BY <1>1, <2>1, <2>2, <2>3, <2>4
<1> HIDE DEF n
<1>3. ASSUME NEW i \in DOMAIN v.bubbles, v.bubbles[i].at # 0
      PROVE  i \in 1..(n - c) /\ i + c \in DOMAIN w.bubbles /\ v.bubbles[i] = w.bubbles[i + c]
  <2>1. i \in 1..(n + 1 - c)  BY <1>2
  <2>2. i # n + 1 - c  BY <1>1, <1>3
  <2>3. i \in 1..(n - c) /\ i + c \in 1..n  BY <2>1, <2>2, <1>2
  <2> QED  BY <2>3, <1>1, <1>2
<1>4. ASSUME IsARun(w.bubbles) PROVE IsARun(v.bubbles)
  <2> SUFFICES ASSUME NEW i \in DOMAIN v.bubbles, NEW j \in DOMAIN v.bubbles, i < j, v.bubbles[j].at # 0
               PROVE  v.bubbles[i].at # 0 /\ v.bubbles[j].at - v.bubbles[i].at = j - i
    BY DEF IsARun
  <2>1. j \in 1..(n - c) /\ j + c \in DOMAIN w.bubbles /\ v.bubbles[j] = w.bubbles[j + c]
    BY <1>3
  <2>2. i \in 1..(n - c) /\ i + c \in DOMAIN w.bubbles /\ i + c < j + c /\ (j + c) - (i + c) = j - i
    <3>1. i \in Nat /\ i >= 1 /\ j \in 1..(n - c) /\ c \in Nat /\ n \in Nat /\ i < j /\ DOMAIN w.bubbles = 1..n
      BY <1>2, <2>1
    <3> QED  BY ONLY <3>1
  <2>3. v.bubbles[i] = w.bubbles[i + c]
    BY <1>1, <2>2
  <2>4. w.bubbles[i + c].at # 0 /\ w.bubbles[j + c].at - w.bubbles[i + c].at = (j + c) - (i + c)
    BY <1>4, <2>1, <2>2 DEF IsARun
  <2> QED  BY <2>1, <2>2, <2>3, <2>4
<1>5. ASSUME NoneHeld(w.bubbles) PROVE NoneHeld(v.bubbles)
  BY <1>3, <1>5 DEF NoneHeld
<1>6. ASSUME w.said <= Len(w.bubbles)
      PROVE  /\ v.said <= Len(v.bubbles)
             /\ v.said # 0 => w.said # 0 /\ v.bubbles[v.said] = w.bubbles[w.said]
  <2>0. w.said <= n  BY <1>6 DEF n
  <2>1. CASE w.said > c
    <3>1. w.said - c \in 1..(n - c) /\ (w.said - c) + c = w.said /\ v.said = w.said - c /\ w.said # 0
      <4>1. w.said \in Nat /\ c \in Nat /\ n \in Nat /\ w.said <= n /\ w.said > c  BY <1>2, <2>0, <2>1
      <4>2. w.said - c \in 1..(n - c) /\ (w.said - c) + c = w.said /\ w.said # 0  BY ONLY <4>1
      <4> QED  BY <1>1, <2>1, <4>2
    <3>2. v.bubbles[v.said] = w.bubbles[w.said]  BY <1>1, <3>1
    <3>3. v.said <= n + 1 - c  BY <1>2, <3>1
    <3> QED  BY <1>1, <3>1, <3>2, <3>3
  <2>2. CASE ~(w.said > c)
    BY <1>1, <1>2, <2>2
  <2> QED  BY <2>1, <2>2
<1>7. Shows(v, w) /\ Says(v, w)
  BY <1>1, <1>2, <1>4, <1>5, <1>6 DEF Shows, Says
<1> QED  BY <1>7 DEF v

\* What is not on screen shows nothing and says nothing.
LEMMA Unseen ==
    ASSUME NEW v \in Windows, NEW w \in Windows, v.bubbles = w.bubbles
    PROVE  /\ v.oldest = w.oldest => Shows(v, w)
           /\ v.said = w.said => Says(v, w)
  BY DEF Shows, Says

LEMMA OneAfterAnother ==
    ASSUME NEW u \in Windows, NEW v \in Windows, NEW w \in Windows
    PROVE  /\ Shows(v, u) /\ Shows(w, v) => Shows(w, u)
           /\ Says(v, u) /\ Says(w, v) => Says(w, u)
<1>1. ASSUME Shows(v, u), Shows(w, v) PROVE Shows(w, u)
  BY <1>1 DEF Shows
<1>2. ASSUME Says(v, u), Says(w, v) PROVE Says(w, u)
  BY <1>2 DEF Says
<1> QED  BY <1>1, <1>2

LEMMA NotesAreBubbles ==
    /\ Note \in Bubbles /\ Note.at = 0
    /\ \A who \in {"you", "signal", "groow", "note"}, of \in Nat : Bubble(who, of, 0) \in Bubbles /\ Bubble(who, of, 0).at = 0
  BY DEF Note, Bubble, Bubbles

\* What an event does to the window: it is said at the bottom, and only a start, an answer and
\* an end touch what stands.
LEMMA Heard ==
    ASSUME NEW w \in Windows, NEW e \in Events
    PROVE  LET v == OnEvent(w, e) IN
           /\ Shows(v, w)
           /\ Bound(e) => v.said = 0
           /\ e.name = "message" => /\ v.said = Len(v.bubbles) /\ v.said # 0
                                    /\ v.bubbles[v.said] = Bubble("groow", e.of, 0)
           /\ e.name = "log" => Says(v, w)
<1> DEFINE v == OnEvent(w, e)
<1>1. e.name \in {"turn_start", "message", "turn_end", "log"} /\ e.of \in Nat /\ e.kind \in Kinds
  BY DEF Events
<1>2. CASE e.name = "turn_start"
  <2> DEFINE quiet == [w EXCEPT !.said = 0]
  <2>1. quiet \in Windows /\ quiet.bubbles = w.bubbles /\ quiet.oldest = w.oldest /\ quiet.said = 0
    BY DEF Windows
  <2>2. Shows(quiet, w)  BY <2>1, Unseen
  <2>3. v = TurnStart(w, e)  BY <1>2 DEF OnEvent
  <2> HIDE DEF v
  <2>4. ASSUME NEW who \in {"you", "signal"}, v = Push(quiet, Bubble(who, e.of, 0))
        PROVE  Shows(v, w) /\ v.said = 0
    <3> DEFINE b == Bubble(who, e.of, 0)
    <3>1. b \in Bubbles /\ b.at = 0  BY <1>1, NotesAreBubbles
    <3> HIDE DEF b, quiet
    <3>2. Shows(v, quiet) /\ Says(v, quiet) /\ v \in Windows
      <4>1. v = Push(quiet, b)  BY <2>4 DEF b
      <4>2. Shows(Push(quiet, b), quiet) /\ Says(Push(quiet, b), quiet)  BY <2>1, <3>1, PushShows
      <4> QED  BY <4>1, <4>2 DEF Shows
    <3>3. Shows(v, w)  BY <2>1, <2>2, <3>2, OneAfterAnother
    <3>4. v.said = 0
      BY <2>1, <3>2, LenProperties DEF Says, Windows
    <3> QED  BY <3>3, <3>4
  <2>5. ASSUME v = [quiet EXCEPT !.echoed = FALSE] PROVE Shows(v, w) /\ v.said = 0
    <3>1. v \in Windows /\ v.bubbles = w.bubbles /\ v.oldest = w.oldest /\ v.said = 0
      BY <2>5 DEF Windows
    <3> QED  BY <3>1, Unseen
  <2>6. Shows(v, w) /\ v.said = 0
    BY <2>3, <2>4, <2>5 DEF TurnStart
  <2> QED  BY <1>2, <2>6 DEF v, Bound
<1>3. CASE e.name = "message"
  <2> DEFINE b == Bubble("groow", e.of, 0)
             shown == Push(w, b)
  <2>1. b \in Bubbles /\ b.at = 0  BY <1>1, NotesAreBubbles
  <2>2. v = [shown EXCEPT !.said = Len(shown.bubbles)]
    BY <1>3 DEF OnEvent, Message
  <2> HIDE DEF b
  <2>3. Shows(shown, w)  BY <2>1, PushShows
  <2>4. PICK c \in 0..Len(w.bubbles) :
          Len(shown.bubbles) = Len(w.bubbles) + 1 - c /\ shown.bubbles[Len(w.bubbles) + 1 - c] = b
    <3>1. w \in Windows  OBVIOUS
    <3> QED  BY ONLY <3>1, <2>1, PushedLast
  <2> HIDE DEF v, shown
  <2>5. shown \in Windows /\ shown.bubbles \in Seq(Bubbles)  BY <2>3 DEF Shows, Windows
  <2>6. Len(shown.bubbles) \in Nat /\ Len(shown.bubbles) # 0 /\ shown.bubbles[Len(shown.bubbles)] = b
    <3>1. Len(w.bubbles) \in Nat  BY LenProperties DEF Windows
    <3>2. Len(w.bubbles) + 1 - c # 0 /\ Len(w.bubbles) + 1 - c \in Nat  BY <3>1
    <3> QED  BY <2>4, <3>2
  <2>7. /\ v \in Windows /\ v.bubbles = shown.bubbles /\ v.oldest = shown.oldest /\ v.said = Len(shown.bubbles)
    BY <2>2, <2>5, <2>6 DEF Windows
  <2>8. Shows(v, w)  BY <2>3, <2>5, <2>7, Unseen, OneAfterAnother
  <2> QED  BY <1>3, <2>6, <2>7, <2>8 DEF v, b, Bound
<1>4. CASE e.name = "turn_end"
  <2> DEFINE told == IF w.said \in DOMAIN w.bubbles
                     THEN [w EXCEPT !.bubbles[w.said].of = e.of]
                     ELSE Push(w, Bubble("groow", e.of, 0))
             quiet == [told EXCEPT !.said = 0]
  <2>1. v = Push(quiet, Note)  BY <1>4 DEF OnEvent, TurnEnd
  <2>2. told \in Windows /\ Shows(told, w)
    <3>1. CASE w.said \in DOMAIN w.bubbles
      <4>1. told = [w EXCEPT !.bubbles[w.said].of = e.of]  BY <3>1
      <4> HIDE DEF told
      <4>2. w.bubbles \in Seq(Bubbles) /\ e.of \in Nat  BY <1>1 DEF Windows
      <4>3. told.bubbles = [w.bubbles EXCEPT ![w.said].of = e.of] /\ told.oldest = w.oldest
        BY <4>1 DEF Windows
      <4>4. told.bubbles \in Seq(Bubbles) /\ DOMAIN told.bubbles = DOMAIN w.bubbles
        <5>1. [w.bubbles[w.said] EXCEPT !.of = e.of] \in Bubbles
          <6>1. w.bubbles[w.said] \in Bubbles  BY <3>1, <4>2, ElementOfSeq, LenProperties
          <6> QED  BY <4>2, <6>1 DEF Bubbles
        <5>2. told.bubbles = [w.bubbles EXCEPT ![w.said] = [w.bubbles[w.said] EXCEPT !.of = e.of]]
          BY <4>3
        <5> QED  BY <3>1, <4>2, <5>1, <5>2, ExceptSeq
      <4>5. told \in Windows  BY <4>1, <4>3, <4>4 DEF Windows
      <4>6. \A i \in DOMAIN told.bubbles : told.bubbles[i].at = w.bubbles[i].at
        <5> TAKE i \in DOMAIN told.bubbles
        <5>1. w.bubbles[i] \in Bubbles /\ w.bubbles[w.said] \in Bubbles
          BY <3>1, <4>2, <4>4, ElementOfSeq, LenProperties
        <5>2. CASE i = w.said
          BY <3>1, <4>3, <5>1, <5>2 DEF Bubbles
        <5>3. CASE i # w.said
          BY <4>3, <4>4, <5>3
        <5> QED  BY <5>2, <5>3
      <4> QED  BY <4>3, <4>4, <4>5, <4>6 DEF Shows, IsARun, NoneHeld
    <3>2. CASE w.said \notin DOMAIN w.bubbles
      <4>1. Shows(Push(w, Bubble("groow", e.of, 0)), w)  BY <1>1, NotesAreBubbles, PushShows
      <4> QED  BY <3>2, <4>1 DEF Shows
    <3> QED  BY <3>1, <3>2
  <2> HIDE DEF told
  <2>3. quiet \in Windows /\ quiet.bubbles = told.bubbles /\ quiet.oldest = told.oldest /\ quiet.said = 0
    BY <2>2 DEF Windows
  <2>4. Shows(quiet, w)  BY <2>2, <2>3, Unseen, OneAfterAnother
  <2> HIDE DEF quiet
  <2>5. Shows(Push(quiet, Note), quiet) /\ Says(Push(quiet, Note), quiet)  BY <2>3, NotesAreBubbles, PushShows
  <2> HIDE DEF v
  <2>6. Shows(v, w)
    <3>1. Shows(v, quiet) /\ v \in Windows  BY <2>1, <2>5 DEF Shows
    <3> QED  BY <3>1, <2>3, <2>4, OneAfterAnother
  <2>7. v.said = 0
    BY <2>1, <2>3, <2>5, LenProperties DEF Says, Windows
  <2> QED  BY <1>4, <2>6, <2>7 DEF v, Bound
<1>5. CASE e.name = "log"
  <2>1. v = Push(w, Note)  BY <1>5 DEF OnEvent
  <2>2. Shows(v, w) /\ Says(v, w)  BY <2>1, NotesAreBubbles, PushShows
  <2> QED  BY <1>5, <2>2 DEF Bound
<1> QED  BY <1>1, <1>2, <1>3, <1>4, <1>5

\* A page is a run of the journal that ends before the bound, or at the newest.
LEMMA PageRead ==
    ASSUME NEW b \in Nat, b <= Len(log), log \in Seq([of : Nat, role : Roles])
    PROVE  LET p == Recall(b) IN
           /\ p \in Pages
           /\ p.stamps # <<>> =>
                /\ Consecutive(p.stamps) /\ p.stamps[1] # 0 /\ p.stamps[Len(p.stamps)] <= Len(log)
                /\ b # 0 => p.stamps[Len(p.stamps)] + 1 = b
<1> DEFINE n == Len(log)
           m == IF b = 0 THEN n ELSE b - 1
           I == Before(b)
<1>1. n \in Nat  BY LenProperties
<1>2. Page \in Nat /\ Page > 0  BY ViewAssumption
<1>3. m \in Nat /\ m <= n /\ (b # 0 => m + 1 = b)  BY <1>1
<1> HIDE DEF n
<1>4. I = 1..m
  <2>1. CASE b = 0  BY <2>1 DEF Before, n
  <2>2. CASE b # 0
    <3>1. I = {i \in 1..n : i < b}  BY <2>2 DEF Before, n
    <3>2. \A i \in Int : i \in 1..n /\ i < b <=> i \in 1..m  BY <1>1, <1>3, <2>2
    <3> QED  BY <3>1, <3>2
  <2> QED  BY <2>1, <2>2
<1> HIDE DEF I, m
<1>5. CASE m = 0
  <2>1. I = {}  BY <1>4, <1>5
  <2>2. Recall(b).stamps = <<>> /\ Recall(b).more = (Len(<<>>) >= Page)
    BY <2>1 DEF Recall, I
  <2>3. Recall(b) = [stamps |-> Recall(b).stamps, more |-> Recall(b).more]
    BY DEF Recall
  <2> HIDE DEF I
  <2>4. Recall(b).stamps \in Seq(Nat) /\ Recall(b).more \in BOOLEAN
    BY <2>2, EmptySeq
  <2> QED  BY <2>2, <2>3, <2>4 DEF Pages
<1>6. CASE m # 0
  <2> DEFINE from == Max({1, m - Page + 1})
             recs == [i \in 1..(m - from + 1) |-> from + i - 1]
  <2>1. I # {} /\ Max(I) = m
    <3>1. m \in 1..m /\ \A y \in 1..m : m >= y  BY <1>3, <1>6
    <3>2. \A x \in 1..m : (\A y \in 1..m : x >= y) => x = m  BY <1>3, <3>1
    <3>3. Max(1..m) = m  BY <3>1, <3>2 DEF Max
    <3> QED  BY <1>4, <3>1, <3>3
  <2>2. Recall(b) = [stamps |-> recs, more |-> Len(recs) >= Page]
    BY <2>1 DEF Recall, I
  <2>3. from \in 1..m
    <3>1. m - Page + 1 \in Int /\ m - Page + 1 <= m  BY <1>2, <1>3
    <3>2. from = IF 1 >= m - Page + 1 THEN 1 ELSE m - Page + 1  BY <3>1, OfTwo
    <3> HIDE DEF from
    <3> QED  BY <1>3, <1>6, <3>1, <3>2
  <2> HIDE DEF from
  <2>4. m - from + 1 \in Nat /\ m - from + 1 >= 1 /\ from + (m - from + 1) - 1 = m
    BY <1>3, <2>3
  <2>5. recs \in Seq(Nat) /\ Len(recs) = m - from + 1
    <3>1. \A i \in 1..(m - from + 1) : from + i - 1 \in Nat  BY <1>3, <2>3
    <3>2. recs \in [1..(m - from + 1) -> Nat]  BY <3>1
    <3>0. m - from + 1 \in Nat  BY <2>4
    <3> HIDE DEF recs
    <3>3. recs \in Seq(Nat)
      BY ONLY <3>0, <3>2, SeqDef
    <3>4. Len(recs) \in Nat /\ DOMAIN recs = 1..Len(recs) /\ DOMAIN recs = 1..(m - from + 1)
      BY <3>2, <3>3, LenProperties
    <3> QED  BY <2>4, <3>3, <3>4
  <2>6. /\ recs[1] = from
        /\ recs[Len(recs)] = m
        /\ \A i \in DOMAIN recs : recs[i] = recs[1] + (i - 1)
    <3>1. 1 \in 1..(m - from + 1) /\ m - from + 1 \in 1..(m - from + 1) /\ from + 1 - 1 = from
      BY <2>3, <2>4
    <3>2. \A i \in 1..(m - from + 1) : from + i - 1 = from + (i - 1)  BY <1>3, <2>3
    <3> QED  BY <2>4, <2>5, <3>1, <3>2
  <2>7. Recall(b) \in Pages  BY <2>2, <2>5 DEF Pages
  <2>8. Recall(b).stamps = recs  BY <2>2
  <2> HIDE DEF recs
  <2>9. Consecutive(recs)  BY <2>6 DEF Consecutive
  <2>10. recs[1] # 0 /\ recs[Len(recs)] <= n /\ (b # 0 => recs[Len(recs)] + 1 = b)
    BY <1>3, <2>3, <2>6
  <2> QED  BY <2>7, <2>8, <2>9, <2>10 DEF n
<1> QED  BY <1>5, <1>6

LEMMA SameRange ==
    ASSUME NEW m \in Nat, NEW n \in Nat, 1..m = 1..n
    PROVE  m = n
<1>1. \A i \in Nat : i >= 1 /\ i <= m <=> i >= 1 /\ i <= n
  OBVIOUS
<1>2. (m = 0 \/ m <= n) /\ (n = 0 \/ n <= m)
  BY <1>1
<1> QED  BY <1>2

\* What is on screen when a page came.
LEMMA PagePut ==
    ASSUME NEW w \in Windows, NEW p \in Pages, NEW older \in BOOLEAN,
           log \in Seq([of : Nat, role : Roles]), w.oldest <= Len(log),
           p.stamps # <<>> => Consecutive(p.stamps) /\ p.stamps[1] # 0 /\ p.stamps[Len(p.stamps)] <= Len(log)
    PROVE  LET v == History(w, p, older)
               g == Len(p.stamps)
           IN  /\ v \in Windows /\ v.oldest <= Len(log) /\ g \in Nat
               /\ Len(v.bubbles) = g + Len(w.bubbles)
               /\ \A i \in 1..g : v.bubbles[i].at = p.stamps[i]
               /\ \A i \in 1..Len(w.bubbles) : v.bubbles[g + i] = w.bubbles[i]
               /\ v.said = IF older /\ w.said # 0 THEN w.said + g ELSE w.said
               /\ g = 0 => v.bubbles = w.bubbles /\ v.oldest = w.oldest
<1> DEFINE v == History(w, p, older)
           g == Len(p.stamps)
           made == [i \in DOMAIN p.stamps |-> FromRecord(p.stamps[i])]
           told == [w EXCEPT !.loading = FALSE, !.more = p.more]
<1>1. /\ p.stamps \in Seq(Nat) /\ p.more \in BOOLEAN /\ g \in Nat /\ DOMAIN p.stamps = 1..g
      /\ w.bubbles \in Seq(Bubbles) /\ Len(w.bubbles) \in Nat /\ w.said \in Nat /\ w.back \in Nat /\ w.oldest \in Nat
  BY LenProperties DEF Pages, Windows
<1>2. told \in Windows /\ told.bubbles = w.bubbles /\ told.said = w.said /\ told.oldest = w.oldest /\ told.back = w.back
  BY <1>1 DEF Windows
<1>3. made \in Seq(Bubbles) /\ Len(made) = g /\ \A i \in 1..g : made[i].at = p.stamps[i]
  <2>1. ASSUME NEW i \in 1..g
        PROVE  FromRecord(p.stamps[i]) \in Bubbles /\ FromRecord(p.stamps[i]).at = p.stamps[i]
    <3>1. p.stamps # <<>>  BY <1>1, EmptySeq
    <3>2. p.stamps[i] = p.stamps[1] + (i - 1) /\ p.stamps[g] = p.stamps[1] + (g - 1) /\ g \in 1..g
      <4> HIDE DEF g
      <4>1. \A j \in 1..g : p.stamps[j] = p.stamps[1] + (j - 1)  BY <1>1, <3>1 DEF Consecutive
      <4>2. g \in 1..g  BY <1>1
      <4> QED  BY <4>1, <4>2
    <3>3. p.stamps[1] \in Nat /\ p.stamps[i] \in Nat /\ p.stamps[1] # 0 /\ p.stamps[g] <= Len(log) /\ Len(log) \in Nat
      <4>1. 1 \in 1..g /\ i \in 1..g /\ p.stamps[1] # 0 /\ p.stamps[g] <= Len(log)  BY <1>1, <3>1, <3>2
      <4>2. \A j \in 1..g : p.stamps[j] \in Nat  BY ONLY <1>1, ElementOfSeq
      <4>3. Len(log) \in Nat  BY LenProperties
      <4> HIDE DEF g
      <4> QED  BY ONLY <4>1, <4>2, <4>3
    <3>4. p.stamps[i] \in 1..Len(log)
      <4> HIDE DEF g
      <4>1. i \in 1..g /\ g \in Nat  BY <1>1
      <4> QED  BY ONLY <3>2, <3>3, <4>1
    <3>5. log[p.stamps[i]] \in [of : Nat, role : Roles]  BY <3>4, ElementOfSeq
    <3> QED  BY <3>3, <3>5 DEF FromRecord, Bubble, Bubbles
  <2>2. made \in [1..g -> Bubbles]  BY <1>1, <2>1
  <2>3. \A i \in 1..g : made[i].at = p.stamps[i]  BY <1>1, <2>1
  <2> HIDE DEF made, g
  <2>4. made \in Seq(Bubbles)  BY ONLY <1>1, <2>2, SeqDef
  <2>5. Len(made) = g
    <3>1. Len(made) \in Nat /\ DOMAIN made = 1..Len(made)  BY ONLY <2>4, LenProperties
    <3>2. DOMAIN made = 1..g  BY ONLY <2>2
    <3>3. g \in Nat  BY <1>1
    <3> QED  BY ONLY <3>1, <3>2, <3>3, SameRange
  <2> QED  BY <2>3, <2>4, <2>5
<1>4. CASE g = 0
  <2>1. v = told
    <3>1. v = IF Len(made) = 0 THEN told ELSE v  BY DEF History
    <3> HIDE DEF v, made, told
    <3> QED  BY <1>3, <1>4, <3>1
  <2>2. v.said = IF older /\ w.said # 0 THEN w.said + g ELSE w.said
    <3> HIDE DEF v, told, g
    <3> QED  BY <1>1, <1>2, <1>4, <2>1
  <2>3. /\ Len(v.bubbles) = g + Len(w.bubbles)
        /\ \A i \in 1..Len(w.bubbles) : v.bubbles[g + i] = w.bubbles[i]
    <3> HIDE DEF v, told, g
    <3> QED  BY <1>1, <1>2, <1>4, <2>1
  <2>4. \A i \in 1..g : FALSE
    <3> HIDE DEF g
    <3> QED  BY <1>4
  <2> HIDE DEF told
  <2>5. v \in Windows /\ v.bubbles = w.bubbles /\ v.oldest = w.oldest  BY <1>2, <2>1
  <2> HIDE DEF v, g
  <2> QED  BY <1>1, <2>2, <2>3, <2>4, <2>5 DEF v, g
<1>5. CASE g # 0
  <2> DEFINE o == Oldest(w.oldest, p.stamps[1])
  <2>1. v = [told EXCEPT !.oldest = Oldest(@, p.stamps[1]),
                        !.bubbles = made \o @,
                        !.back = IF older THEN @ + Len(made) ELSE @,
                        !.said = IF older /\ @ # 0 THEN @ + Len(made) ELSE @]
    <3>1. Len(made) # 0  BY <1>3, <1>5
    <3> QED  BY <3>1 DEF History
  <2>2. o \in Nat /\ o <= Len(log)
    <3>1. p.stamps # <<>> /\ 1 \in 1..g /\ g \in 1..g  BY <1>1, <1>5, EmptySeq
    <3>2. p.stamps[1] \in Nat /\ p.stamps[g] <= Len(log) /\ p.stamps[g] = p.stamps[1] + (g - 1) /\ Len(log) \in Nat
      BY <1>1, <3>1, ElementOfSeq, LenProperties DEF Consecutive
    <3>3. p.stamps[1] <= Len(log)  BY <1>1, <1>5, <3>2
    <3> QED  BY <1>1, <3>2, <3>3 DEF Oldest
  <2> HIDE DEF o, made
  <2>3. /\ made \o w.bubbles \in Seq(Bubbles) /\ Len(made \o w.bubbles) = g + Len(w.bubbles)
        /\ \A i \in 1..(g + Len(w.bubbles)) : (made \o w.bubbles)[i] = IF i <= g THEN made[i] ELSE w.bubbles[i - g]
    <3>1. made \in Seq(Bubbles) /\ w.bubbles \in Seq(Bubbles)  BY <1>1, <1>3
    <3>2. /\ made \o w.bubbles \in Seq(Bubbles) /\ Len(made \o w.bubbles) = Len(made) + Len(w.bubbles)
          /\ \A i \in 1..(Len(made) + Len(w.bubbles)) :
               (made \o w.bubbles)[i] = IF i <= Len(made) THEN made[i] ELSE w.bubbles[i - Len(made)]
      BY ONLY <3>1, ConcatProperties
    <3> HIDE DEF g
    <3> QED  BY ONLY <1>3, <3>2
  <2>4. v = [told EXCEPT !.oldest = o, !.bubbles = made \o w.bubbles,
                        !.back = IF older THEN w.back + g ELSE w.back,
                        !.said = IF older /\ w.said # 0 THEN w.said + g ELSE w.said]
    BY <1>2, <1>3, <2>1 DEF o
  <2> HIDE DEF v, told, g
  <2>5. /\ v.bubbles = made \o w.bubbles /\ v.oldest = o
        /\ v.said = (IF older /\ w.said # 0 THEN w.said + g ELSE w.said)
        /\ v \in Windows
    <3>1. w.back + g \in Nat /\ w.said + g \in Nat  BY <1>1 DEF g
    <3>2. /\ (IF older THEN w.back + g ELSE w.back) \in Nat
          /\ (IF older /\ w.said # 0 THEN w.said + g ELSE w.said) \in Nat
      BY <1>1, <3>1
    <3> QED  BY <1>2, <2>2, <2>3, <2>4, <3>2 DEF Windows
  <2>6. \A i \in 1..g : v.bubbles[i].at = p.stamps[i]
    <3> TAKE i \in 1..g
    <3>1. i \in 1..(g + Len(w.bubbles)) /\ i <= g  BY <1>1
    <3> QED  BY <1>3, <2>3, <2>5, <3>1
  <2>7. \A i \in 1..Len(w.bubbles) : v.bubbles[g + i] = w.bubbles[i]
    <3> TAKE i \in 1..Len(w.bubbles)
    <3>1. g + i \in 1..(g + Len(w.bubbles)) /\ ~(g + i <= g) /\ (g + i) - g = i  BY <1>1
    <3> QED  BY <2>3, <2>5, <3>1
  <2> QED  BY <1>1, <1>5, <2>2, <2>3, <2>5, <2>6, <2>7 DEF v, g
<1> QED  BY <1>4, <1>5

-----------------------------------------------------------------------------
(* Types, and the connection.                                              *)

\* The parts of the type that steps change, with what their own types say.
LEMMA Parts ==
    ASSUME TypeOK
    PROVE  /\ wire.up \in BOOLEAN /\ wire.watched \in BOOLEAN /\ wire.asked \subseteq Requests /\ wire.rx \in Seq(Messages)
           /\ wire = [up |-> wire.up, watched |-> wire.watched, asked |-> wire.asked, rx |-> wire.rx]
           /\ turn.n \in Nat /\ turn.kind \in Kinds /\ turns \in Nat
           /\ link.open \in BOOLEAN /\ link.next \in Nat /\ pend.history \in Nat /\ pend.older \in Nat
           /\ win \in Windows /\ log \in Seq([of : Nat, role : Roles]) /\ queue \in Seq(Kinds)
           /\ left.input \in Nat /\ left.twist \in Nat
<1>1. wire \in Wires /\ turn \in [n : Nat, kind : Kinds, spoke : BOOLEAN] /\ turns \in Nat
  BY DEF TypeOK
<1>2. /\ link \in [open : BOOLEAN, next : Nat] /\ pend \in [history : Nat, older : Nat]
      /\ win \in Windows /\ log \in Seq([of : Nat, role : Roles]) /\ queue \in Seq(Kinds)
      /\ left \in [input : Nat, twist : Nat]
  BY DEF TypeOK
<1>3. /\ wire.up \in BOOLEAN /\ wire.watched \in BOOLEAN /\ wire.asked \subseteq Requests /\ wire.rx \in Seq(Messages)
      /\ wire = [up |-> wire.up, watched |-> wire.watched, asked |-> wire.asked, rx |-> wire.rx]
  BY ONLY <1>1 DEF Wires
<1>4. turn.n \in Nat /\ turn.kind \in Kinds  BY ONLY <1>1
<1>5. /\ link.open \in BOOLEAN /\ link.next \in Nat /\ pend.history \in Nat /\ pend.older \in Nat
      /\ left.input \in Nat /\ left.twist \in Nat
  BY ONLY <1>2
<1> QED  BY ONLY <1>1, <1>2, <1>3, <1>4, <1>5

LEMMA Spent ==
    ASSUME TypeOK, NEW what \in {"input", "twist"}, Spend(what)
    PROVE  left' \in [input : Nat, twist : Nat]
<1>1. left \in [input : Nat, twist : Nat]  BY DEF TypeOK
<1>2. CASE what = "input"  BY <1>1, <1>2 DEF Spend
<1>3. CASE what = "twist"  BY <1>1, <1>3 DEF Spend
<1> QED  BY <1>2, <1>3

LEMMA Asking ==
    ASSUME NEW op \in {"watch", "recall", "say", "status"}, NEW id \in Nat, NEW before \in Nat, NEW w \in Wires
    PROVE  Sent(w, op, id, before) \in Wires
  BY DEF Sent, Requests, Wires

LEMMA OnWire ==
    ASSUME NEW w \in Wires, NEW m \in Messages, NEW asked \in SUBSET Requests, NEW watched \in BOOLEAN
    PROVE  /\ Append(w.rx, m) \in Seq(Messages)
           /\ [w EXCEPT !.rx = Append(@, m)] \in Wires
           /\ [w EXCEPT !.asked = asked, !.rx = Append(@, m)] \in Wires
           /\ [w EXCEPT !.asked = asked, !.watched = watched, !.rx = Append(@, m)] \in Wires
<1>1. w.rx \in Seq(Messages)  BY DEF Wires
<1>2. Append(w.rx, m) \in Seq(Messages)  BY <1>1, AppendProperties
<1> QED  BY <1>2 DEF Wires

\* What is announced is put behind what is on its way, or lost.
LEMMA ToldTo ==
    ASSUME NEW e \in Messages, NEW w \in Wires
    PROVE  /\ Told(w, e) \in Wires
           /\ Told(w, e).up = w.up /\ Told(w, e).watched = w.watched /\ Told(w, e).asked = w.asked
           /\ Told(w, e).rx = IF w.watched /\ w.up THEN Append(w.rx, e) ELSE w.rx
<1>1. [w EXCEPT !.rx = Append(@, e)] \in Wires  BY OnWire DEF Wires
<1> QED  BY <1>1 DEF Told, Wires

LEMMA ToAnnounce ==
    ASSUME NEW name \in {"turn_start", "message", "turn_end", "log"}, NEW of \in Nat, NEW kind \in Kinds
    PROVE  /\ [name |-> name, of |-> of, kind |-> kind] \in Events
           /\ [name |-> name, of |-> of, kind |-> kind] \in Messages
  BY DEF Events, Messages

LEMMA Announced ==
    ASSUME TypeOK, NEW e \in Events, Announce(e)
    PROVE  wire' \in Wires /\ left' \in [input : Nat, twist : Nat] /\ lapses' \subseteq Lapses
<1>1. CASE wire' = Told(wire, e) /\ UNCHANGED <<left, lapses>>
  BY <1>1, ToldTo DEF TypeOK, Messages
<1>2. CASE Spend("twist") /\ lapses' = lapses \union {"astray"} /\ UNCHANGED wire
  BY <1>2, Spent DEF TypeOK, Lapses
<1> QED  BY <1>1, <1>2 DEF Announce

LEMMA Noted ==
    ASSUME NEW w \in Windows
    PROVE  Push(w, Note) \in Windows
  BY PushShows, NotesAreBubbles DEF Shows

LEMMA TypeStep ==
    ASSUME TypeOK, Stamps, [Next]_vars
    PROVE  TypeOK'
<1>1. CASE UNCHANGED vars
  BY <1>1 DEF TypeOK, vars
<1>2. CASE Signal
  <2>1. queue' \in Seq(Kinds)  BY <1>2, Parts, AppendProperties DEF Signal, Kinds
  <2>2. left' \in [input : Nat, twist : Nat]  BY <1>2, Spent DEF Signal
  <2> QED  BY <1>2, <2>1, <2>2 DEF Signal, TypeOK
<1>3. CASE Begin
  <2>1. Head(queue) \in Kinds /\ Tail(queue) \in Seq(Kinds)  BY <1>3, Parts, HeadTailProperties DEF Begin
  <2>2. log' \in Seq([of : Nat, role : Roles])
    <3>1. turns + 1 \in Nat /\ Head(queue) \in Roles  BY <2>1, Parts DEF Kinds, Roles
    <3>2. [of |-> turns + 1, role |-> Head(queue)] \in [of : Nat, role : Roles]  BY <3>1
    <3>3. log' = Append(log, [of |-> turns + 1, role |-> Head(queue)])  BY <1>3 DEF Begin
    <3> QED  BY <3>2, <3>3, Parts, AppendProperties
  <2>3. turns + 1 \in Nat  BY Parts
  <2>4. wire' \in Wires /\ left' \in [input : Nat, twist : Nat] /\ lapses' \subseteq Lapses
    <3>1. [name |-> "turn_start", of |-> turns + 1, kind |-> Head(queue)] \in Events  BY <2>1, <2>3, ToAnnounce
    <3> QED  BY <1>3, <3>1, Announced DEF Begin
  <2>5. turn' \in [n : Nat, kind : Kinds, spoke : BOOLEAN] /\ turns' \in Nat /\ queue' \in Seq(Kinds)
    BY <1>3, <2>1, <2>3 DEF Begin
  <2> QED  BY <1>3, <2>2, <2>4, <2>5 DEF Begin, TypeOK
<1>4. CASE Answer
  <2>1. log' \in Seq([of : Nat, role : Roles])
    <3>1. [of |-> turn.n, role |-> "assistant"] \in [of : Nat, role : Roles]  BY Parts DEF Roles
    <3>2. log' = Append(log, [of |-> turn.n, role |-> "assistant"])  BY <1>4 DEF Answer
    <3> QED  BY <3>1, <3>2, Parts, AppendProperties
  <2>2. wire' \in Wires /\ left' \in [input : Nat, twist : Nat] /\ lapses' \subseteq Lapses
    <3>1. [name |-> "message", of |-> turn.n, kind |-> turn.kind] \in Events  BY Parts, ToAnnounce
    <3> QED  BY <1>4, <3>1, Announced DEF Answer
  <2>3. turn' \in [n : Nat, kind : Kinds, spoke : BOOLEAN]  BY <1>4 DEF Answer, TypeOK
  <2> QED  BY <1>4, <2>1, <2>2, <2>3 DEF Answer, TypeOK
<1>5. CASE Finish
  <2>1. wire' \in Wires /\ left' \in [input : Nat, twist : Nat] /\ lapses' \subseteq Lapses
    <3>1. [name |-> "turn_end", of |-> turn.n, kind |-> turn.kind] \in Events  BY Parts, ToAnnounce
    <3> QED  BY <1>5, <3>1, Announced DEF Finish
  <2>2. turn' \in [n : Nat, kind : Kinds, spoke : BOOLEAN]  BY <1>5 DEF Finish, None, Kinds
  <2> QED  BY <1>5, <2>1, <2>2 DEF Finish, TypeOK
<1>6. CASE Abandon
  <2>1. wire' \in Wires
    <3>1. [name |-> "log", of |-> 0, kind |-> turn.kind] \in Messages  BY Parts, ToAnnounce
    <3> QED  BY <1>6, <3>1, ToldTo DEF Abandon, TypeOK
  <2>2. queue' \in Seq(Kinds)
    <3>1. <<turn.kind>> \in Seq(Kinds)  BY Parts
    <3> QED  BY <1>6, <3>1, Parts, ConcatProperties DEF Abandon
  <2>3. turn' \in [n : Nat, kind : Kinds, spoke : BOOLEAN]  BY <1>6 DEF Abandon, None, Kinds
  <2>4. left' \in [input : Nat, twist : Nat]  BY <1>6, Spent DEF Abandon
  <2> QED  BY <1>6, <2>1, <2>2, <2>3, <2>4 DEF Abandon, TypeOK
<1>7. CASE ThoughtAppend
  <2>1. wire' \in Wires
    <3>1. [name |-> "message", of |-> 0, kind |-> "signal"] \in Messages  BY ToAnnounce DEF Kinds
    <3> QED  BY <1>7, <3>1, ToldTo DEF ThoughtAppend, TypeOK
  <2>2. left' \in [input : Nat, twist : Nat]  BY <1>7, Spent DEF ThoughtAppend
  <2>3. lapses' \subseteq Lapses  BY <1>7 DEF ThoughtAppend, Lapse, Lapses, TypeOK
  <2> QED  BY <1>7, <2>1, <2>2, <2>3 DEF ThoughtAppend, TypeOK
<1>8. CASE Break
  <2>1. [name |-> "gone", of |-> 0] \in Messages  BY DEF Refusals, Messages
  <2>2. Append(wire.rx, [name |-> "gone", of |-> 0]) \in Seq(Messages)  BY <2>1, Parts, AppendProperties
  <2>3. wire' \in Wires  BY <1>8, <2>2, Parts DEF Break, Wires
  <2>4. left' \in [input : Nat, twist : Nat]  BY <1>8, Spent DEF Break
  <2> QED  BY <1>8, <2>3, <2>4 DEF Break, TypeOK
<1>9. ASSUME NEW r \in wire.asked, Handle(r) PROVE TypeOK'
  <2>1. r \in Requests /\ r.id \in Nat /\ r.before \in Nat /\ r.before <= Len(log)  BY Parts DEF Requests, Stamps
  <2>2. Nothing \in Pages /\ Recall(r.before) \in Pages
    <3>1. Nothing \in Pages  BY EmptySeq DEF Nothing, Pages
    <3>2. Recall(r.before) \in Pages  BY <2>1, Parts, PageRead
    <3> QED  BY <3>1, <3>2
  <2>3. Reply(r.id, Nothing) \in Messages /\ Reply(r.id, Recall(r.before)) \in Messages /\ [name |-> "failed", of |-> r.id] \in Messages
    BY <2>1, <2>2 DEF Reply, Replies, Refusals, Messages
  <2>4. queue' \in Seq(Kinds)
    <3>1. queue' = queue \/ queue' = Append(queue, "user")  BY <1>9 DEF Handle
    <3>2. queue \in Seq(Kinds) /\ "user" \in Kinds  BY Parts DEF Kinds
    <3>3. Append(queue, "user") \in Seq(Kinds)  BY ONLY <3>2, AppendProperties
    <3> QED  BY ONLY <3>1, <3>2, <3>3
  <2>5. lapses' \subseteq Lapses  BY <1>9 DEF Handle, TypeOK, Lapses
  <2>6. left' \in [input : Nat, twist : Nat]
    <3>1. left' = left \/ Spend("twist")  BY <1>9 DEF Handle
    <3> QED  BY <3>1, Spent DEF TypeOK
  <2>7. wire' \in Wires
    <3> DEFINE asked == wire.asked \ {r}
    <3>1. asked \in SUBSET Requests /\ wire \in Wires  BY Parts DEF TypeOK
    <3>2. \E m \in {Reply(r.id, Nothing), Reply(r.id, Recall(r.before)), [name |-> "failed", of |-> r.id]} :
             \/ wire' = [wire EXCEPT !.asked = asked, !.rx = Append(@, m)]
             \/ wire' = [wire EXCEPT !.asked = asked, !.watched = TRUE, !.rx = Append(@, m)]
      BY <1>9 DEF Handle
    <3> HIDE DEF asked
    <3>3. PICK m \in Messages : \/ wire' = [wire EXCEPT !.asked = asked, !.rx = Append(@, m)]
                               \/ wire' = [wire EXCEPT !.asked = asked, !.watched = TRUE, !.rx = Append(@, m)]
      BY <2>3, <3>2
    <3>4. /\ [wire EXCEPT !.asked = asked, !.rx = Append(@, m)] \in Wires
          /\ [wire EXCEPT !.asked = asked, !.watched = TRUE, !.rx = Append(@, m)] \in Wires
      BY ONLY <3>1, OnWire
    <3> QED  BY ONLY <3>3, <3>4
  <2>8. UNCHANGED <<log, turn, turns, win, pend, link, at>>  BY <1>9 DEF Handle
  <2> QED  BY <2>4, <2>5, <2>6, <2>7, <2>8 DEF TypeOK
<1>10. CASE Top /\ Connect
  <2> DEFINE first == win.bubbles = <<>>
             fresh == [up |-> TRUE, watched |-> FALSE, asked |-> {}, rx |-> <<>>]
             watch == Sent(fresh, "watch", 2, 0)
  <2>1. fresh \in Wires  BY EmptySeq DEF Wires
  <2>2. watch \in Wires  BY <2>1, Asking
  <2>3. wire' \in {Sent(watch, "recall", 4, 0), Sent(watch, "status", 4, 0), watch}  BY <1>10 DEF Connect
  <2> HIDE DEF watch
  <2>4. wire' \in Wires  BY <2>2, <2>3, Asking
  <2>5. win' \in Windows
    <3>1. [win EXCEPT !.loading = @ \/ first, !.connected = TRUE] \in Windows  BY Parts DEF Windows
    <3> QED  BY <1>10, <3>1, Noted DEF Connect
  <2>6. lapses' \subseteq Lapses  BY <1>10 DEF Connect, Lapse, Lapses, TypeOK
  <2>7. pend' \in [history : Nat, older : Nat] /\ link' \in [open : BOOLEAN, next : Nat]  BY <1>10 DEF Connect, TypeOK
  <2> QED  BY <1>10, <2>4, <2>5, <2>6, <2>7 DEF Top, Connect, TypeOK
<1>11. CASE Top /\ NotReached
  <2>1. (IF win.connected \/ win.bubbles = <<>> THEN Push(win, Note) ELSE win) \in Windows  BY Noted, Parts
  <2>2. win' \in Windows  BY <1>11, <2>1 DEF NotReached, Windows
  <2> QED  BY <1>11, <2>2 DEF Top, NotReached, TypeOK
<1>12. CASE Top /\ AskMore
  <2>1. wire' \in Wires
    <3>1. win.oldest \in Nat /\ wire \in Wires /\ link.next \in Nat  BY DEF TypeOK, Windows
    <3>2. wire' = wire \/ wire' = Sent(wire, "recall", link.next, win.oldest)  BY <1>12 DEF AskMore
    <3> QED  BY <3>1, <3>2, Asking
  <2>2. win' \in Windows
    <3> DEFINE told == [win EXCEPT !.wantMore = FALSE]
    <3>1. told \in Windows  BY Parts DEF Windows
    <3> HIDE DEF told
    <3>2. \A b \in BOOLEAN : [told EXCEPT !.loading = b] \in Windows  BY <3>1 DEF Windows
    <3>3. win' \in {told, [told EXCEPT !.loading = TRUE], [told EXCEPT !.loading = FALSE]}  BY <1>12 DEF AskMore, told
    <3> QED  BY <3>1, <3>2, <3>3
  <2>3. lapses' \subseteq Lapses  BY <1>12 DEF AskMore, Lapse, Lapses, TypeOK
  <2>4. pend' \in [history : Nat, older : Nat]
    <3>1. \A n \in Nat : [pend EXCEPT !.older = n] \in [history : Nat, older : Nat]  BY DEF TypeOK
    <3>2. pend' \in {pend, [pend EXCEPT !.older = link.next], [pend EXCEPT !.older = 0]}  BY <1>12 DEF AskMore
    <3> QED  BY <3>1, <3>2, Parts DEF TypeOK
  <2>5. link' \in [open : BOOLEAN, next : Nat]
    <3>1. link' \in {[link EXCEPT !.next = link.next + 1], [link EXCEPT !.next = link.next]}  BY <1>12 DEF AskMore
    <3>2. link \in [open : BOOLEAN, next : Nat]  BY DEF TypeOK
    <3> QED  BY ONLY <3>1, <3>2
  <2> QED  BY <1>12, <2>1, <2>2, <2>3, <2>4, <2>5 DEF Top, AskMore, TypeOK
<1>13. CASE Submit
  <2> DEFINE b == Bubble("you", 0, 0)
             shown == [Push(win, b) EXCEPT !.echoed = TRUE]
  <2>0. b \in Bubbles /\ b.at = 0  BY DEF Bubble, Bubbles
  <2> HIDE DEF b
  <2>1. Push(win, b) \in Windows  BY <2>0, PushShows, Parts DEF Shows
  <2>2. shown \in Windows  BY <2>1 DEF Windows
  <2> HIDE DEF shown
  <2>3. Push(shown, Note) \in Windows  BY <2>2, Noted
  <2>4. [Push(shown, Note) EXCEPT !.connected = FALSE] \in Windows  BY <2>3 DEF Windows
  <2>5. win' \in Windows
    <3>1. win' \in {shown, Push(shown, Note), [Push(shown, Note) EXCEPT !.connected = FALSE]}  BY <1>13 DEF Submit, shown, b
    <3> QED  BY <2>2, <2>3, <2>4, <3>1
  <2>6. wire' \in Wires
    <3>1. wire' = wire \/ wire' = Sent(wire, "say", link.next, 0)  BY <1>13 DEF Submit
    <3>2. wire \in Wires /\ link.next \in Nat /\ 0 \in Nat  BY DEF TypeOK
    <3> QED  BY ONLY <3>1, <3>2, Asking
  <2>7. link' \in [open : BOOLEAN, next : Nat]
    <3>1. \/ link' = link \/ link' = [link EXCEPT !.next = link.next + 1] \/ link' = [link EXCEPT !.open = FALSE]
      BY <1>13 DEF Submit
    <3>2. link \in [open : BOOLEAN, next : Nat]  BY DEF TypeOK
    <3>3. [link EXCEPT !.next = link.next + 1] \in [open : BOOLEAN, next : Nat]
      <4>1. \A n \in Nat : [link EXCEPT !.next = n] \in [open : BOOLEAN, next : Nat]  BY DEF TypeOK
      <4>2. link.next + 1 \in Nat  BY Parts
      <4> QED  BY <4>1, <4>2
    <3>4. [link EXCEPT !.open = FALSE] \in [open : BOOLEAN, next : Nat]  BY DEF TypeOK
    <3> QED  BY ONLY <3>1, <3>2, <3>3, <3>4
  <2>8. left' \in [input : Nat, twist : Nat] /\ at' \in {"open", "top"}  BY <1>13, Spent DEF Submit
  <2> QED  BY <1>13, <2>5, <2>6, <2>7, <2>8 DEF Submit, Key, TypeOK
<1>14. CASE Clear
  <2>1. win' \in Windows
    <3>1. [win EXCEPT !.bubbles = <<>>, !.said = 0] \in Windows /\ [win EXCEPT !.bubbles = <<>>] \in Windows
      BY Parts, EmptySeq DEF Windows
    <3> QED  BY <1>14, <3>1 DEF Clear
  <2>2. lapses' \subseteq Lapses  BY <1>14 DEF Clear, Lapse, Lapses, TypeOK
  <2>3. left' \in [input : Nat, twist : Nat]  BY <1>14, Spent DEF Clear
  <2> QED  BY <1>14, <2>1, <2>2, <2>3 DEF Clear, Key, TypeOK
<1>15. CASE ScrollBy
  <2>1. win' \in Windows
    <3>1. PICK by \in {-Stride, Stride} : win' = Scroll(win, by)  BY <1>15 DEF ScrollBy
    <3>2. by \in Int /\ win.back \in Nat /\ Len(win.bubbles) \in Nat
      <4>1. by \in Int  BY ViewAssumption
      <4>2. win.back \in Nat /\ win.bubbles \in Seq(Bubbles)  BY Parts DEF Windows
      <4> QED  BY <4>1, <4>2, LenProperties
    <3> DEFINE u == Max({win.back - by, 0})
               back == Min({u, Len(win.bubbles)})
    <3>3. u \in Nat
      <4>1. win.back - by \in Int  BY <3>2
      <4>2. u = IF win.back - by >= 0 THEN win.back - by ELSE 0  BY <4>1, OfTwo
      <4> HIDE DEF u
      <4> QED  BY <4>1, <4>2
    <3> HIDE DEF u
    <3>4. back \in Nat
      <4>1. u \in Int /\ Len(win.bubbles) \in Int  BY <3>2, <3>3
      <4>2. back = IF u <= Len(win.bubbles) THEN u ELSE Len(win.bubbles)  BY ONLY <4>1, OfTwo DEF back
      <4> HIDE DEF back
      <4> QED  BY <3>2, <3>3, <4>2
    <3>5. win' = [win EXCEPT !.back = back,
                !.wantMore = @ \/ (win.more /\ ~win.loading /\ back + NearlyTop >= Len(win.bubbles))]
      BY <3>1 DEF Scroll, u
    <3> HIDE DEF back
    <3> QED  BY <3>4, <3>5, Parts DEF Windows
  <2> QED  BY <1>15, <2>1 DEF ScrollBy, Key, TypeOK
<1>16. CASE Show
  <2>1. win' \in Windows  BY <1>16, Parts DEF Show, Windows
  <2> QED  BY <1>16, <2>1 DEF Show, Key, TypeOK
<1>17. CASE Timer
  <2>1. win' \in Windows
    <3>1. win' \in {win, [win EXCEPT !.connected = FALSE]}  BY <1>17 DEF Timer
    <3> QED  BY <3>1, Parts DEF Windows
  <2>2. wire' \in Wires
    <3>1. wire' = wire \/ wire' = Sent(wire, "status", link.next, 0)  BY <1>17 DEF Timer
    <3>2. wire \in Wires /\ link.next \in Nat /\ 0 \in Nat  BY DEF TypeOK
    <3> QED  BY ONLY <3>1, <3>2, Asking
  <2>3. link' \in [open : BOOLEAN, next : Nat]
    <3>1. link' = [link EXCEPT !.next = link.next + 1]  BY <1>17 DEF Timer
    <3>2. link \in [open : BOOLEAN, next : Nat]  BY DEF TypeOK
    <3> QED  BY ONLY <3>1, <3>2
  <2>4. left' \in [input : Nat, twist : Nat]  BY <1>17, Spent DEF Timer
  <2> QED  BY <1>17, <2>1, <2>2, <2>3, <2>4 DEF Timer, Key, TypeOK
<1>18. CASE FromCore
  <2> DEFINE m == Head(wire.rx)
  <2>1. m \in Messages /\ Tail(wire.rx) \in Seq(Messages) /\ m = wire.rx[1] /\ 1 \in DOMAIN wire.rx
    BY <1>18, Parts, HeadTailProperties, EmptySeq, LenProperties DEF FromCore
  <2>2. wire' \in Wires
    <3>1. wire' = [wire EXCEPT !.rx = Tail(wire.rx)]  BY <1>18 DEF FromCore
    <3> QED  BY <2>1, <3>1 DEF TypeOK, Wires
  <2>3. lapses' \subseteq Lapses  BY <1>18 DEF FromCore, Lapse, Lapses, TypeOK
  <2>4. pend' \in [history : Nat, older : Nat]
    <3>1. \/ pend' = pend \/ pend' = [pend EXCEPT !.history = 0] \/ pend' = [pend EXCEPT !.older = 0]
          \/ pend' = [history |-> 0, older |-> 0]
      BY <1>18 DEF FromCore, Take, Forget
    <3>2. pend \in [history : Nat, older : Nat]  BY DEF TypeOK
    <3> QED  BY ONLY <3>1, <3>2
  <2>5. link' \in [open : BOOLEAN, next : Nat]
    <3>1. link' \in {link, [link EXCEPT !.open = FALSE]}  BY <1>18 DEF FromCore
    <3> QED  BY <3>1 DEF TypeOK
  <2>6. win' \in Windows
    <3>1. CASE m.name = "reply"
      <4>1. m \in Replies  BY <2>1, <3>1 DEF Events, Refusals, Messages
      <4>2. m.page \in Pages  BY <4>1 DEF Replies
      <4>3. m.page.stamps # <<>> => Consecutive(m.page.stamps) /\ m.page.stamps[1] # 0 /\ m.page.stamps[Len(m.page.stamps)] <= Len(log)
        BY <2>1, <3>1 DEF Stamps, HasPage
      <4>4. Take(m)  BY <1>18, <3>1 DEF FromCore
      <4> HIDE DEF m
      <4>5. History(win, m.page, TRUE) \in Windows /\ History(win, m.page, FALSE) \in Windows
        BY <4>2, <4>3, Parts, PagePut DEF Stamps
      <4> QED  BY <4>4, <4>5, Parts DEF Take
    <3>2. CASE m.name = "failed"
      BY <1>18, <3>2, Noted, Parts DEF FromCore
    <3>3. CASE m.name = "gone"
      <4>1. Forget(win)  BY <1>18, <3>3 DEF FromCore
      <4>2. [win EXCEPT !.connected = FALSE, !.loading = FALSE] \in Windows  BY Parts DEF Windows
      <4> QED  BY <4>1, <4>2, Noted DEF Forget
    <3>4. CASE m.name \notin {"reply", "failed", "gone"}
      <4>1. m \in Events  BY <2>1, <3>4 DEF Replies, Refusals, Messages
      <4>2. win' = OnEvent(win, m)  BY <1>18, <3>4 DEF FromCore
      <4> HIDE DEF m
      <4> QED  BY <4>1, <4>2, Heard, Parts DEF Shows
    <3> QED  BY <3>1, <3>2, <3>3, <3>4
  <2> QED  BY <1>18, <2>2, <2>3, <2>4, <2>5, <2>6 DEF FromCore, Key, TypeOK
<1> QED
  BY <1>1, <1>2, <1>3, <1>4, <1>5, <1>6, <1>7, <1>8, <1>9, <1>10, <1>11, <1>12, <1>13, <1>14, <1>15, <1>16, <1>17, <1>18
     DEF Next, Core, Window, Top

-----------------------------------------------------------------------------
(* The kinds of steps there are, to the connection and to what is shown.   *)

\* Nothing is asked, heard or written; the window may be touched.
Quiet == UNCHANGED <<wire, link, pend, log>> /\ Shows(win', win)

\* The core says something to whoever watches, and may have written it down.
Announces == /\ UNCHANGED <<link, pend, win>> /\ Len(log) <= Len(log')
             /\ \E e \in Events : wire' = wire \/ wire' = Told(wire, e)

\* The window asks for something under the next id; only a page is waited for.
Sends == \E op \in {"recall", "say", "status"}, before \in Nat :
    /\ wire.up /\ link.open /\ wire' = Sent(wire, op, link.next, before)
    /\ link' = [link EXCEPT !.next = @ + 1] /\ log' = log /\ Shows(win', win)
    /\ \/ op # "recall" /\ before = 0 /\ pend' = pend
       \/ /\ op = "recall" /\ before = win.oldest /\ before # 0
          /\ pend' = [pend EXCEPT !.older = link.next]
          /\ pend.history # 0 => "crossed" \in lapses'

\* It would ask but the connection has ended: the id is taken, or the link dropped.
Skips == /\ ~wire.up /\ wire' = wire /\ log' = log /\ Shows(win', win)
         /\ link'.next >= link.next /\ (link'.open => link.open)
         /\ (pend' = pend \/ pend' = [pend EXCEPT !.older = 0])

LEMMA LapsesStay ==
    ASSUME [Next]_vars
    PROVE  lapses \subseteq lapses'
<1>1. ASSUME NEW r \in wire.asked, Handle(r) PROVE lapses \subseteq lapses'  BY <1>1 DEF Handle
<1>2. CASE Begin \/ Answer \/ Finish  BY <1>2 DEF Begin, Answer, Finish, Announce
<1>3. CASE Signal \/ Abandon \/ ThoughtAppend \/ Break  BY <1>3 DEF Signal, Abandon, ThoughtAppend, Break
<1>4. CASE Top  BY <1>4 DEF Top, Connect, NotReached, AskMore
<1>5. CASE Submit \/ Clear \/ ScrollBy \/ Show \/ Timer  BY <1>5 DEF Submit, Clear, ScrollBy, Show, Timer
<1>6. CASE FromCore  BY <1>6 DEF FromCore
<1> QED  BY <1>1, <1>2, <1>3, <1>4, <1>5, <1>6 DEF Next, Core, Window, vars

LEMMA LogGrows ==
    ASSUME TypeOK, NEW x \in [of : Nat, role : Roles]
    PROVE  Len(Append(log, x)) >= Len(log)
<1>1. Len(Append(log, x)) = Len(log) + 1 /\ Len(log) \in Nat  BY Parts, AppendProperties, LenProperties
<1> QED  BY <1>1

LEMMA Steps ==
    ASSUME TypeOK, TypeOK', [Next]_vars
    PROVE  \/ Quiet \/ Announces \/ Sends \/ Skips \/ Break \/ (Top /\ Connect) \/ FromCore
           \/ \E r \in wire.asked : Handle(r)
<1>0. win \in Windows /\ win' \in Windows /\ Len(log) \in Nat
  BY LenProperties DEF TypeOK
<1>1. ASSUME UNCHANGED <<wire, link, pend, log>>, win'.bubbles = win.bubbles, win'.oldest = win.oldest PROVE Quiet
  BY <1>0, <1>1, Unseen DEF Quiet
<1>2. CASE Signal  BY <1>1, <1>2 DEF Signal
<1>3. CASE UNCHANGED vars  BY <1>1, <1>3 DEF vars
<1>4. CASE Begin
  <2>0. queue \in Seq(Kinds) /\ queue # <<>> /\ turns \in Nat  BY <1>4, Parts DEF Begin
  <2>1. turns + 1 \in Nat /\ Head(queue) \in Kinds  BY ONLY <2>0, HeadTailProperties
  <2>2. Len(log) <= Len(log')
    <3>1. [of |-> turns + 1, role |-> Head(queue)] \in [of : Nat, role : Roles]  BY <2>1 DEF Kinds, Roles
    <3>2. log' = Append(log, [of |-> turns + 1, role |-> Head(queue)])  BY <1>4 DEF Begin
    <3>3. Len(log') \in Nat  BY LenProperties DEF TypeOK
    <3> QED  BY <1>0, <3>1, <3>2, <3>3, LogGrows
  <2>3. [name |-> "turn_start", of |-> turns + 1, kind |-> Head(queue)] \in Events  BY <2>1, ToAnnounce
  <2> QED  BY <1>4, <2>2, <2>3 DEF Begin, Announce, Announces
<1>5. CASE Answer
  <2>1. Len(log) <= Len(log')
    <3>1. [of |-> turn.n, role |-> "assistant"] \in [of : Nat, role : Roles]  BY Parts DEF Roles
    <3>2. log' = Append(log, [of |-> turn.n, role |-> "assistant"])  BY <1>5 DEF Answer
    <3>3. Len(log') \in Nat  BY LenProperties DEF TypeOK
    <3> QED  BY <1>0, <3>1, <3>2, <3>3, LogGrows
  <2>2. [name |-> "message", of |-> turn.n, kind |-> turn.kind] \in Events  BY Parts, ToAnnounce
  <2> QED  BY <1>5, <2>1, <2>2 DEF Answer, Announce, Announces
<1>6. CASE Finish
  <2>1. [name |-> "turn_end", of |-> turn.n, kind |-> turn.kind] \in Events  BY Parts, ToAnnounce
  <2> QED  BY <1>0, <1>6, <2>1 DEF Finish, Announce, Announces
<1>7. CASE Abandon
  <2>1. [name |-> "log", of |-> 0, kind |-> turn.kind] \in Events  BY Parts, ToAnnounce
  <2> QED  BY <1>0, <1>7, <2>1 DEF Abandon, Announces
<1>8. CASE ThoughtAppend
  <2>1. [name |-> "message", of |-> 0, kind |-> "signal"] \in Events  BY ToAnnounce DEF Kinds
  <2> QED  BY <1>0, <1>8, <2>1 DEF ThoughtAppend, Announces
<1>9. CASE Top /\ NotReached
  <2> DEFINE w == IF win.connected \/ win.bubbles = <<>> THEN Push(win, Note) ELSE win
  <2>1. w \in Windows /\ Shows(w, win)
    <3>1. Shows(Push(win, Note), win)  BY <1>0, PushShows, NotesAreBubbles
    <3> QED  BY <1>0, <3>1, Unseen DEF Shows
  <2>2. win' = [w EXCEPT !.connected = FALSE, !.wantMore = FALSE]  BY <1>9 DEF NotReached
  <2> HIDE DEF w
  <2>3. win'.bubbles = w.bubbles /\ win'.oldest = w.oldest  BY <2>1, <2>2 DEF Windows
  <2>4. Shows(win', win)  BY <1>0, <2>1, <2>3, Unseen, OneAfterAnother
  <2> QED  BY <1>9, <2>4 DEF Top, NotReached, Quiet
<1>10. CASE Top /\ AskMore
  <2>1. win'.bubbles = win.bubbles /\ win'.oldest = win.oldest  BY <1>0, <1>10 DEF AskMore, Windows
  <2>2. Shows(win', win)  BY <1>0, <2>1, Unseen
  <2> DEFINE asks == win.wantMore /\ link.open /\ win.oldest # 0
  <2>3. CASE asks /\ wire.up
    <3>1. win.oldest \in Nat  BY <1>0 DEF Windows
    <3>2. /\ wire' = Sent(wire, "recall", link.next, win.oldest) /\ pend' = [pend EXCEPT !.older = link.next]
          /\ link' = [link EXCEPT !.next = @ + 1] /\ log' = log
          /\ pend.history # 0 => "crossed" \in lapses'
      BY <1>10, <2>3 DEF Top, AskMore, Lapse
    <3>3. \E op \in {"recall", "say", "status"} : op = "recall"  OBVIOUS
    <3> QED  BY <2>2, <2>3, <3>1, <3>2, <3>3 DEF Sends
  <2>4. CASE asks /\ ~wire.up
    <3>1. /\ wire' = wire /\ log' = log /\ pend' = [pend EXCEPT !.older = 0] /\ link' = [link EXCEPT !.next = link.next + 1]
      BY <1>10, <2>4 DEF Top, AskMore
    <3>2. link'.next = link.next + 1 /\ link'.open = link.open /\ link.next \in Nat  BY <3>1 DEF TypeOK
    <3>3. link'.next >= link.next  BY <3>2
    <3> QED  BY <2>2, <2>4, <3>1, <3>2, <3>3 DEF Skips
  <2>5. CASE ~asks
    <3>1. /\ wire' = wire /\ log' = log /\ pend' = pend /\ link' = [link EXCEPT !.next = link.next]
      BY <1>10, <2>5 DEF Top, AskMore
    <3>2. link' = link  BY <3>1 DEF TypeOK
    <3> QED  BY <1>1, <2>1, <3>1, <3>2
  <2> QED  BY <2>3, <2>4, <2>5
<1>11. CASE Submit
  <2> DEFINE b == Bubble("you", 0, 0)
             shown == [Push(win, b) EXCEPT !.echoed = TRUE]
  <2>1. b \in Bubbles /\ b.at = 0  BY DEF Bubble, Bubbles
  <2> HIDE DEF b
  <2>2. Shows(Push(win, b), win) /\ Push(win, b) \in Windows  BY <1>0, <2>1, PushShows DEF Shows
  <2>3. shown \in Windows /\ shown.bubbles = Push(win, b).bubbles /\ shown.oldest = Push(win, b).oldest  BY <2>2 DEF Windows
  <2>4. Shows(shown, win)  BY <1>0, <2>2, <2>3, Unseen, OneAfterAnother
  <2> HIDE DEF shown
  <2>5. Shows(Push(shown, Note), shown) /\ Push(shown, Note) \in Windows  BY <2>3, PushShows, NotesAreBubbles DEF Shows
  <2>6. Shows(Push(shown, Note), win)  BY <1>0, <2>3, <2>4, <2>5, OneAfterAnother
  <2> DEFINE gone == [Push(shown, Note) EXCEPT !.connected = FALSE]
  <2>7. gone \in Windows /\ gone.bubbles = Push(shown, Note).bubbles /\ gone.oldest = Push(shown, Note).oldest
    BY <2>5 DEF Windows
  <2>8. Shows(gone, win)  BY <1>0, <2>5, <2>6, <2>7, Unseen, OneAfterAnother
  <2>9. win' \in {shown, Push(shown, Note), gone}  BY <1>11 DEF Submit, shown, b
  <2>10. Shows(win', win)  BY <2>4, <2>6, <2>8, <2>9
  <2>11. log' = log /\ pend' = pend  BY <1>11 DEF Submit, Key
  <2>12. CASE link.open /\ wire.up
    <3>1. wire' = Sent(wire, "say", link.next, 0) /\ link' = [link EXCEPT !.next = @ + 1]  BY <1>11, <2>12 DEF Submit
    <3>2. "say" \in {"recall", "say", "status"} /\ "say" # "recall" /\ 0 \in Nat  OBVIOUS
    <3> QED  BY <2>10, <2>11, <2>12, <3>1, <3>2 DEF Sends
  <2>13. CASE link.open /\ ~wire.up
    <3>1. wire' = wire /\ link' = [link EXCEPT !.open = FALSE]  BY <1>11, <2>13 DEF Submit
    <3>2. link'.next = link.next /\ ~link'.open /\ link.next \in Nat  BY <3>1 DEF TypeOK
    <3>3. link'.next >= link.next  BY <3>2
    <3> QED  BY <2>10, <2>11, <2>13, <3>1, <3>2, <3>3 DEF Skips
  <2>14. CASE ~link.open
    BY <1>11, <2>10, <2>11, <2>14 DEF Submit, Quiet
  <2> QED  BY <2>12, <2>13, <2>14
<1>12. CASE Clear
  <2>1. win'.bubbles = <<>> /\ win'.oldest = win.oldest  BY <1>0, <1>12 DEF Clear, Windows
  <2>2. Shows(win', win)  BY <1>0, <2>1 DEF Shows, IsARun, NoneHeld
  <2> QED  BY <1>12, <2>2 DEF Clear, Key, Quiet
<1>13. CASE ScrollBy
  <2>1. PICK by \in {-Stride, Stride} : win' = Scroll(win, by)  BY <1>13 DEF ScrollBy
  <2>2. win'.bubbles = win.bubbles /\ win'.oldest = win.oldest  BY <1>0, <2>1 DEF Scroll, Windows
  <2> QED  BY <1>1, <1>13, <2>2 DEF ScrollBy, Key
<1>14. CASE Show
  <2>1. win'.bubbles = win.bubbles /\ win'.oldest = win.oldest  BY <1>0, <1>14 DEF Show, Windows
  <2> QED  BY <1>1, <1>14, <2>1 DEF Show, Key
<1>15. CASE Timer
  <2>1. win'.bubbles = win.bubbles /\ win'.oldest = win.oldest  BY <1>0, <1>15 DEF Timer, Windows
  <2>2. Shows(win', win)  BY <1>0, <2>1, Unseen
  <2>3. log' = log /\ pend' = pend /\ link' = [link EXCEPT !.next = link.next + 1] /\ link.open  BY <1>15 DEF Timer, Key
  <2>4. CASE wire.up
    <3>1. wire' = Sent(wire, "status", link.next, 0)  BY <1>15, <2>4 DEF Timer
    <3>2. "status" \in {"recall", "say", "status"} /\ "status" # "recall" /\ 0 \in Nat  OBVIOUS
    <3> QED  BY <2>2, <2>3, <2>4, <3>1, <3>2 DEF Sends
  <2>5. CASE ~wire.up
    <3>1. link'.next = link.next + 1 /\ link'.open = link.open /\ link.next \in Nat  BY <2>3 DEF TypeOK
    <3>2. link'.next >= link.next  BY <3>1
    <3> QED  BY <1>15, <2>2, <2>3, <2>5, <3>1, <3>2 DEF Timer, Skips
  <2> QED  BY <2>4, <2>5
<1> QED
  BY <1>2, <1>3, <1>4, <1>5, <1>6, <1>7, <1>8, <1>9, <1>10, <1>11, <1>12, <1>13, <1>14, <1>15
     DEF Next, Core, Window, Top

LEMMA Behind ==
    ASSUME NEW q \in Seq(Messages), NEW m \in Messages
    PROVE  LET a == Append(q, m)
           IN  /\ a \in Seq(Messages) /\ Len(q) \in Nat /\ Len(a) = Len(q) + 1 /\ a[Len(q) + 1] = m
               /\ DOMAIN q = 1..Len(q) /\ DOMAIN a = 1..(Len(q) + 1)
               /\ \A i \in DOMAIN q : i \in DOMAIN a /\ a[i] = q[i]
               /\ \A i \in DOMAIN a : i = Len(q) + 1 \/ i \in DOMAIN q
<1> DEFINE a == Append(q, m)
<1>1. /\ a \in Seq(Messages) /\ Len(q) \in Nat /\ Len(a) = Len(q) + 1 /\ a[Len(q) + 1] = m
      /\ \A i \in 1..Len(q) : a[i] = q[i]
  BY AppendProperties, LenProperties
<1>2. DOMAIN q = 1..Len(q) /\ DOMAIN a = 1..(Len(q) + 1)  BY <1>1, LenProperties
<1> HIDE DEF a
<1>3. \A i \in 1..Len(q) : i \in 1..(Len(q) + 1)  BY <1>1
<1>4. \A i \in 1..(Len(q) + 1) : i = Len(q) + 1 \/ i \in 1..Len(q)  BY <1>1
<1> QED  BY <1>1, <1>2, <1>3, <1>4 DEF a

LEMMA Ahead ==
    ASSUME NEW q \in Seq(Messages), q # <<>>
    PROVE  /\ 1 \in DOMAIN q /\ Head(q) = q[1] /\ q[1] \in Messages /\ Len(q) \in Nat
           /\ Tail(q) \in Seq(Messages) /\ Len(Tail(q)) = Len(q) - 1
           /\ DOMAIN q = 1..Len(q) /\ DOMAIN Tail(q) = 1..(Len(q) - 1)
           /\ \A i \in DOMAIN Tail(q) : i \in Nat /\ i + 1 \in DOMAIN q /\ Tail(q)[i] = q[i + 1]
<1>1. Len(q) \in Nat /\ Len(q) # 0 /\ DOMAIN q = 1..Len(q)  BY LenProperties, EmptySeq
<1>2. /\ Head(q) = q[1] /\ Tail(q) \in Seq(Messages) /\ Len(Tail(q)) = Len(q) - 1
      /\ \A i \in 1..Len(Tail(q)) : Tail(q)[i] = q[i + 1]
  BY HeadTailProperties
<1>3. 1 \in DOMAIN q  BY <1>1
<1>4. q[1] \in Messages  BY <1>1, <1>3, ElementOfSeq
<1>5. DOMAIN Tail(q) = 1..(Len(q) - 1)  BY <1>2, LenProperties
<1>6. \A i \in 1..(Len(q) - 1) : i \in Nat /\ i + 1 \in 1..Len(q)  BY <1>1
<1> QED  BY <1>1, <1>2, <1>3, <1>4, <1>5, <1>6

LEMMA ConnectShows ==
    ASSUME TypeOK, Connect
    PROVE  Shows(win', win)
<1> DEFINE w == [win EXCEPT !.loading = @ \/ win.bubbles = <<>>, !.connected = TRUE]
<1>1. w \in Windows /\ w.bubbles = win.bubbles /\ w.oldest = win.oldest  BY Parts DEF Windows
<1>2. win' = Push(w, Note)  BY DEF Connect
<1> HIDE DEF w
<1>3. Shows(w, win)  BY <1>1, Parts, Unseen
<1>4. Shows(Push(w, Note), w) /\ Push(w, Note) \in Windows  BY <1>1, PushShows, NotesAreBubbles DEF Shows
<1> QED  BY <1>1, <1>2, <1>3, <1>4, Parts, OneAfterAnother

LEMMA FromCoreShows ==
    ASSUME TypeOK, FromCore, Head(wire.rx).name # "reply"
    PROVE  Shows(win', win)
<1> DEFINE m == Head(wire.rx)
<1>1. m \in Messages  BY Parts, Ahead DEF FromCore
<1>2. CASE m.name = "failed"
  BY <1>2, Parts, PushShows, NotesAreBubbles DEF FromCore
<1>3. CASE m.name = "gone"
  <2> DEFINE w == [win EXCEPT !.connected = FALSE, !.loading = FALSE]
  <2>1. w \in Windows /\ w.bubbles = win.bubbles /\ w.oldest = win.oldest  BY Parts DEF Windows
  <2>2. win' = Push(w, Note)  BY <1>3 DEF FromCore, Forget
  <2> HIDE DEF w
  <2>3. Shows(w, win)  BY <2>1, Parts, Unseen
  <2>4. Shows(Push(w, Note), w) /\ Push(w, Note) \in Windows  BY <2>1, PushShows, NotesAreBubbles DEF Shows
  <2> QED  BY <2>1, <2>2, <2>3, <2>4, Parts, OneAfterAnother
<1>4. CASE m.name \notin {"failed", "gone"}
  <2>1. m \in Events  BY <1>1, <1>4 DEF Replies, Refusals, Messages
  <2>2. win' = OnEvent(win, m)  BY <1>4 DEF FromCore
  <2> HIDE DEF m
  <2> QED  BY <2>1, <2>2, Parts, Heard
<1> QED  BY <1>2, <1>3, <1>4

\* What a step of reading leaves of what is waited for and shown.
LEMMA Reading ==
    ASSUME TypeOK, FromCore
    PROVE  LET m == Head(wire.rx) IN
           /\ wire.rx # <<>> /\ wire' = [wire EXCEPT !.rx = Tail(wire.rx)] /\ log' = log
           /\ wire'.rx = Tail(wire.rx) /\ wire'.up = wire.up /\ wire'.watched = wire.watched /\ wire'.asked = wire.asked
           /\ link' = IF m.name = "gone" THEN [link EXCEPT !.open = FALSE] ELSE link
           /\ \/ m.name # "reply" /\ Shows(win', win) /\ pend' \in {pend, [history |-> 0, older |-> 0]}
              \/ m.name = "reply" /\ m \in Replies /\ pend.history = m.of
                 /\ pend' = [pend EXCEPT !.history = 0] /\ win' = History(win, m.page, FALSE)
              \/ m.name = "reply" /\ m \in Replies /\ pend.history # m.of /\ pend.older = m.of
                 /\ pend' = [pend EXCEPT !.older = 0] /\ win' = History(win, m.page, TRUE)
              \/ m.name = "reply" /\ pend.history # m.of /\ pend.older # m.of /\ pend' = pend /\ win' = win
<1> DEFINE m == Head(wire.rx)
<1>1. wire.rx # <<>> /\ wire' = [wire EXCEPT !.rx = Tail(wire.rx)] /\ log' = log  BY DEF FromCore, Key
<1>2. wire'.rx = Tail(wire.rx) /\ wire'.up = wire.up /\ wire'.watched = wire.watched /\ wire'.asked = wire.asked
  BY <1>1 DEF TypeOK, Wires
<1>3. m \in Messages  BY <1>1, Parts, Ahead
<1>4. m.name = "reply" => m \in Replies  BY <1>3 DEF Messages, Events, Refusals
<1>5. link' = IF m.name = "gone" THEN [link EXCEPT !.open = FALSE] ELSE link  BY DEF FromCore
<1>6. CASE m.name # "reply"
  <2>1. pend' \in {pend, [history |-> 0, older |-> 0]}  BY <1>6 DEF FromCore, Forget
  <2> QED  BY <1>1, <1>2, <1>5, <1>6, <2>1, FromCoreShows
<1>7. CASE m.name = "reply"
  <2>1. Take(m)  BY <1>7 DEF FromCore
  <2> HIDE DEF m
  <2> QED  BY <1>1, <1>2, <1>4, <1>5, <1>7, <2>1 DEF Take, m
<1> QED  BY <1>6, <1>7

\* What is asked and answered after a message was put on the wire or a request made.
LEMMA Handled ==
    ASSUME TypeOK, Stamps, NEW r \in wire.asked, Handle(r)
    PROVE  /\ UNCHANGED <<log, turn, win, pend, link>>
           /\ r \in Requests /\ wire'.asked = wire.asked \ {r} /\ wire'.up = wire.up
           /\ wire'.watched = (wire.watched \/ r.op = "watch")
           /\ \E m \in Messages :
                /\ wire'.rx = Append(wire.rx, m) /\ m.of = r.id
                /\ \/ m.name = "reply" /\ m.page = Nothing
                   \/ m.name = "reply" /\ r.op = "recall" /\ m.page = Recall(r.before)
                   \/ m.name = "failed"
<1>1. r \in Requests /\ r.id \in Nat  BY Parts DEF Requests
<1>2. UNCHANGED <<log, turn, win, pend, link>>  BY DEF Handle
<1> DEFINE Put(m) == wire' = [wire EXCEPT !.asked = wire.asked \ {r}, !.rx = Append(wire.rx, m)]
<1>3. ASSUME NEW m, Put(m)
      PROVE  /\ wire'.asked = wire.asked \ {r} /\ wire'.up = wire.up /\ wire'.watched = wire.watched
             /\ wire'.rx = Append(wire.rx, m)
  BY <1>3 DEF TypeOK, Wires
<1>4. Nothing \in Pages  BY EmptySeq DEF Nothing, Pages
<1>5. /\ [name |-> "reply", of |-> r.id, page |-> Nothing] \in Messages
      /\ [name |-> "failed", of |-> r.id] \in Messages
  BY <1>1, <1>4 DEF Messages, Replies, Refusals
<1>6. CASE r.op = "watch"
  <2>1. /\ wire' = [wire EXCEPT !.asked = wire.asked \ {r}, !.watched = TRUE,
                                !.rx = Append(wire.rx, [name |-> "reply", of |-> r.id, page |-> Nothing])]
    BY <1>6 DEF Handle, Reply
  <2>2. /\ wire'.asked = wire.asked \ {r} /\ wire'.up = wire.up /\ wire'.watched = TRUE
        /\ wire'.rx = Append(wire.rx, [name |-> "reply", of |-> r.id, page |-> Nothing])
    BY <2>1 DEF TypeOK, Wires
  <2> QED  BY <1>1, <1>2, <1>5, <1>6, <2>2
<1>7. CASE r.op \in {"say", "status"}
  <2>1. Put([name |-> "reply", of |-> r.id, page |-> Nothing])  BY <1>7 DEF Handle, Reply
  <2> QED  BY <1>1, <1>2, <1>3, <1>5, <1>7, <2>1, Parts
<1>8. CASE r.op = "recall" /\ Put([name |-> "failed", of |-> r.id])
  BY <1>1, <1>2, <1>3, <1>5, <1>8, Parts
<1>9. CASE r.op = "recall" /\ Put([name |-> "reply", of |-> r.id, page |-> Recall(r.before)])
  <2>1. Recall(r.before) \in Pages
    BY <1>1, Parts, PageRead DEF Stamps, Requests
  <2>2. [name |-> "reply", of |-> r.id, page |-> Recall(r.before)] \in Messages
    BY <1>1, <2>1 DEF Messages, Replies
  <2> QED  BY <1>1, <1>2, <1>3, <1>9, <2>2, Parts
<1> QED  BY <1>6, <1>7, <1>8, <1>9 DEF Handle, Reply

\* What is said comes behind what is on its way, to who is there and watches.
LEMMA Announcing ==
    ASSUME TypeOK, Announces
    PROVE  /\ UNCHANGED <<link, pend, win>> /\ Len(log) <= Len(log')
           /\ wire'.asked = wire.asked /\ wire'.up = wire.up /\ wire'.watched = wire.watched
           /\ \E e \in Messages :
                /\ e \in Events /\ e.name # "reply" /\ e.name # "gone"
                /\ \/ wire'.rx = wire.rx
                   \/ wire.up /\ wire'.rx = Append(wire.rx, e)
<1>1. PICK e \in Events : wire' = wire \/ wire' = Told(wire, e)  BY DEF Announces
<1>2. e \in Messages /\ e.name # "reply" /\ e.name # "gone"  BY DEF Events, Messages
<1>3. UNCHANGED <<link, pend, win>> /\ Len(log) <= Len(log')  BY DEF Announces
<1>4. CASE wire' = wire
  BY <1>2, <1>3, <1>4
<1>5. CASE wire' = Told(wire, e)
  <2>1. wire \in Wires  BY DEF TypeOK
  <2>2. /\ wire'.up = wire.up /\ wire'.watched = wire.watched /\ wire'.asked = wire.asked
        /\ wire'.rx = IF wire.watched /\ wire.up THEN Append(wire.rx, e) ELSE wire.rx
    BY ONLY <1>2, <1>5, <2>1, ToldTo
  <2> QED  BY <1>2, <1>3, <2>2
<1> QED  BY <1>1, <1>4, <1>5

LEMMA NumbersStep ==
    ASSUME TypeOK, TypeOK', Numbers, Connection, Stamps, [Next]_vars
    PROVE  Numbers'
<1>0. /\ wire.rx \in Seq(Messages) /\ wire.asked \subseteq Requests /\ link.next \in Nat /\ link'.next \in Nat
  BY Parts DEF TypeOK
<1>1. CASE Quiet
  BY <1>1 DEF Quiet, Numbers
<1>2. CASE Announces
  <2>1. UNCHANGED <<link, pend>> /\ wire'.asked = wire.asked  BY <1>2, Announcing
  <2>2. PICK e \in Messages : e.name # "reply" /\ (wire'.rx = wire.rx \/ wire'.rx = Append(wire.rx, e))
    BY <1>2, Announcing
  <2>3. \A i \in DOMAIN wire'.rx : wire'.rx[i].name = "reply" => i \in DOMAIN wire.rx /\ wire'.rx[i] = wire.rx[i]
    <3>1. CASE wire'.rx = wire.rx  BY <3>1
    <3>2. CASE wire'.rx = Append(wire.rx, e)
      <4>1. wire.rx \in Seq(Messages)  BY <1>0
      <4> QED  BY ONLY <2>2, <3>2, <4>1, Behind
    <3> QED  BY <2>2, <3>1, <3>2
  <2> QED  BY <2>1, <2>3 DEF Numbers
<1>3. CASE Sends
  <2>1. PICK op \in {"recall", "say", "status"}, before \in Nat :
          /\ wire.up /\ link.open /\ wire' = Sent(wire, op, link.next, before)
          /\ link' = [link EXCEPT !.next = @ + 1]
          /\ \/ pend' = pend
             \/ pend' = [pend EXCEPT !.older = link.next]
    BY <1>3 DEF Sends
  <2>2. /\ wire'.asked = wire.asked \union {[op |-> op, id |-> link.next, before |-> before]} /\ wire'.rx = wire.rx
        /\ link'.next = link.next + 1 /\ link'.open /\ link.next >= 7
    BY <2>1 DEF Sent, TypeOK, Wires, Numbers
  <2>3. pend'.history \in {0, 4} /\ (pend'.older = 0 \/ pend'.older >= 7)
    BY <2>1, <2>2 DEF Numbers, TypeOK
  <2>4. \A r \in wire'.asked : r.id # 0 /\ r.id < link'.next
    <3> TAKE r \in wire'.asked
    <3>1. CASE r \in wire.asked
      <4>1. r.id \in Nat /\ r.id # 0 /\ r.id < link.next  BY <1>0, <3>1 DEF Requests, Numbers
      <4> QED  BY <1>0, <2>2, <4>1
    <3>2. CASE r = [op |-> op, id |-> link.next, before |-> before]
      BY <1>0, <2>2, <3>2
    <3> QED  BY <2>2, <3>1, <3>2
  <2>5. \A i \in DOMAIN wire'.rx : wire'.rx[i].name = "reply" => wire'.rx[i].of # 0 /\ wire'.rx[i].of < link'.next
    <3> SUFFICES ASSUME NEW i \in DOMAIN wire.rx, wire.rx[i].name = "reply"
                 PROVE  wire.rx[i].of # 0 /\ wire.rx[i].of < link'.next
      BY <2>2
    <3>1. wire.rx[i] \in Messages  BY <1>0, ElementOfSeq, LenProperties
    <3>2. wire.rx[i].of \in Nat  BY <3>1 DEF Messages, Events, Replies, Refusals
    <3>3. wire.rx[i].of # 0 /\ wire.rx[i].of < link.next  BY <2>1 DEF Numbers
    <3> QED  BY <1>0, <2>2, <3>2, <3>3
  <2>6. link'.next >= 7  BY <1>0, <2>2
  <2> QED  BY <2>3, <2>4, <2>5, <2>6 DEF Numbers
<1>4. CASE Skips
  <2>1. /\ wire' = wire /\ wire.asked = {} /\ link'.next >= link.next /\ (link'.open => link.open)
        /\ (pend' = pend \/ pend' = [pend EXCEPT !.older = 0])
    BY <1>4 DEF Skips, Connection
  <2>2. pend'.history \in {0, 4} /\ (pend'.older = 0 \/ pend'.older >= 7)
    BY <2>1 DEF Numbers, TypeOK
  <2>3. link'.open => link'.next >= 7  BY <1>0, <2>1 DEF Numbers
  <2>4. ASSUME NEW i \in DOMAIN wire.rx, wire.rx[i].name = "reply"
        PROVE  wire.rx[i].of # 0 /\ (link'.open => wire.rx[i].of < link'.next)
    <3>1. wire.rx[i] \in Messages  BY <1>0, ElementOfSeq, LenProperties
    <3>2. wire.rx[i].of \in Nat  BY <3>1 DEF Messages, Events, Replies, Refusals
    <3>3. wire.rx[i].of # 0 /\ (link.open => wire.rx[i].of < link.next)  BY <2>4 DEF Numbers
    <3> QED  BY <1>0, <2>1, <3>2, <3>3
  <2> QED  BY <2>1, <2>2, <2>3, <2>4 DEF Numbers
<1>5. CASE Break
  <2>1. wire'.asked = {} /\ wire'.rx = Append(wire.rx, [name |-> "gone", of |-> 0]) /\ UNCHANGED <<link, pend>>
    BY <1>5 DEF Break, TypeOK, Wires
  <2>2. [name |-> "gone", of |-> 0] \in Messages  BY DEF Refusals, Messages
  <2> QED  BY <1>0, <2>1, <2>2, Behind DEF Numbers
<1>6. CASE Top /\ Connect
  <2>1. /\ wire'.rx = <<>> /\ link'.next >= 7
        /\ \A r \in wire'.asked : r.id \in {2, 4}
    BY <1>6 DEF Connect, Sent
  <2>2. pend'.history \in {0, 4} /\ (pend'.older = 0 \/ pend'.older >= 7)
    BY <1>6 DEF Connect, Numbers, TypeOK
  <2>3. \A r \in wire'.asked : r.id # 0 /\ r.id < link'.next  BY <1>0, <2>1
  <2> QED  BY <2>1, <2>2, <2>3 DEF Numbers
<1>7. CASE FromCore
  <2>1. /\ wire.rx # <<>> /\ wire'.rx = Tail(wire.rx) /\ wire'.asked = wire.asked
        /\ (link' = link \/ link' = [link EXCEPT !.open = FALSE])
    BY <1>7, Reading
  <2>2. link'.next = link.next /\ (link'.open => link.open)  BY <2>1 DEF TypeOK
  <2>3. (pend'.history = pend.history \/ pend'.history = 0) /\ (pend'.older = pend.older \/ pend'.older = 0)
    <3>1. \/ pend' = pend \/ pend' = [history |-> 0, older |-> 0]
          \/ pend' = [pend EXCEPT !.history = 0] \/ pend' = [pend EXCEPT !.older = 0]
      BY <1>7, Reading
    <3>2. pend \in [history : Nat, older : Nat]  BY DEF TypeOK
    <3> QED  BY ONLY <3>1, <3>2
  <2> QED  BY <1>0, <2>1, <2>2, <2>3, Ahead DEF Numbers
<1>8. ASSUME NEW r \in wire.asked, Handle(r) PROVE Numbers'
  <2>1. /\ wire'.asked = wire.asked \ {r} /\ UNCHANGED <<link, pend>>
        /\ \E m \in Messages : wire'.rx = Append(wire.rx, m) /\ m.of = r.id
    BY <1>8, Handled
  <2>2. r.id # 0 /\ r.id < link.next  BY DEF Numbers
  <2> QED  BY <1>0, <2>1, <2>2, Behind DEF Numbers
<1> QED  BY <1>1, <1>2, <1>3, <1>4, <1>5, <1>6, <1>7, <1>8, Steps

LEMMA ConnectionStep ==
    ASSUME TypeOK, TypeOK', Connection, Stamps, [Next]_vars
    PROVE  Connection'
<1>0. wire.rx \in Seq(Messages) /\ wire.up \in BOOLEAN
  BY Parts DEF TypeOK
<1>1. CASE Quiet
  BY <1>1 DEF Quiet, Connection
<1>2. CASE Announces
  <2>1. link' = link /\ wire'.asked = wire.asked /\ wire'.up = wire.up  BY <1>2, Announcing
  <2>2. PICK e \in Messages : e.name # "gone" /\ (wire'.rx = wire.rx \/ (wire.up /\ wire'.rx = Append(wire.rx, e)))
    BY <1>2, Announcing
  <2>3. wire.rx \in Seq(Messages)  BY <1>0
  <2>4. CASE wire'.rx = wire.rx
    BY <2>1, <2>4 DEF Connection
  <2>5. CASE wire.up /\ wire'.rx = Append(wire.rx, e)
    <3>1. \A k \in DOMAIN wire'.rx : wire'.rx[k].name # "gone"
      BY <2>2, <2>3, <2>5, Behind DEF Connection
    <3> QED  BY <2>1, <2>5, <3>1 DEF Connection
  <2> QED  BY <2>2, <2>4, <2>5
<1>3. CASE Sends
  BY <1>3 DEF Sends, Sent, Connection, TypeOK, Wires
<1>4. CASE Skips
  BY <1>4 DEF Skips, Connection
<1>5. CASE Break
  <2>1. /\ wire'.asked = {} /\ wire'.rx = Append(wire.rx, [name |-> "gone", of |-> 0]) /\ link' = link
        /\ wire.up /\ ~wire'.up
    BY <1>5 DEF Break, TypeOK, Wires
  <2>2. [name |-> "gone", of |-> 0] \in Messages  BY DEF Refusals, Messages
  <2> QED  BY <1>0, <2>1, <2>2, Behind DEF Connection
<1>6. CASE Top /\ Connect
  <2>1. wire'.rx = <<>> /\ link'.open /\ wire'.up
    BY <1>6 DEF Connect, Sent
  <2> QED  BY <2>1 DEF Connection
<1>7. CASE FromCore
  <2>1. /\ wire.rx # <<>> /\ wire'.rx = Tail(wire.rx) /\ wire'.asked = wire.asked /\ wire'.up = wire.up
        /\ link' = IF Head(wire.rx).name = "gone" THEN [link EXCEPT !.open = FALSE] ELSE link
    BY <1>7, Reading
  <2>2. Head(wire.rx).name = "gone" => ~wire.up  BY <1>0, <2>1, Ahead DEF Connection
  <2>3. wire'.up => link'.open  BY <2>1, <2>2 DEF Connection
  <2>4. ASSUME NEW i \in DOMAIN wire'.rx, wire'.rx[i].name = "gone" PROVE i = Len(wire'.rx) /\ ~wire'.up
    <3>1. /\ i \in Nat /\ i + 1 \in DOMAIN wire.rx /\ wire'.rx[i] = wire.rx[i + 1] /\ Len(wire.rx) \in Nat
          /\ Len(wire'.rx) = Len(wire.rx) - 1
      BY <1>0, <2>1, Ahead
    <3>2. i + 1 = Len(wire.rx) /\ ~wire.up  BY <2>4, <3>1 DEF Connection
    <3> QED  BY <2>1, <3>1, <3>2
  <2> QED  BY <2>1, <2>3, <2>4 DEF Connection
<1>8. ASSUME NEW r \in wire.asked, Handle(r) PROVE Connection'
  <2>1. /\ wire'.asked = wire.asked \ {r} /\ UNCHANGED link /\ wire'.up = wire.up
        /\ \E m \in Messages : wire'.rx = Append(wire.rx, m) /\ m.name # "gone"
    BY <1>8, Handled
  <2>2. wire.up  BY DEF Connection
  <2> QED  BY <1>0, <2>1, <2>2, Behind DEF Connection
<1> QED  BY <1>1, <1>2, <1>3, <1>4, <1>5, <1>6, <1>7, <1>8, Steps

\* What is read stays within the journal as the journal grows.
LEMMA StillWritten ==
    ASSUME TypeOK, Stamps, NEW n \in Nat, Len(log) <= n
    PROVE  /\ win.oldest <= n
           /\ \A r \in wire.asked : r.before <= n
           /\ \A i \in DOMAIN wire.rx : HasPage(wire.rx[i]) =>
                LET s == wire.rx[i].page.stamps IN Consecutive(s) /\ s[1] # 0 /\ s[Len(s)] <= n
<1>1. /\ Len(log) \in Nat /\ win.oldest \in Nat /\ wire.asked \subseteq Requests /\ wire.rx \in Seq(Messages)
  BY Parts, LenProperties DEF Windows
<1>2. \A r \in wire.asked : r.before \in Nat /\ r.before <= Len(log)  BY <1>1 DEF Requests, Stamps
<1>3. ASSUME NEW i \in DOMAIN wire.rx, HasPage(wire.rx[i])
      PROVE  LET s == wire.rx[i].page.stamps IN Consecutive(s) /\ s[1] # 0 /\ s[Len(s)] <= n
  <2> DEFINE s == wire.rx[i].page.stamps
  <2>1. wire.rx[i] \in Messages  BY <1>1, ElementOfSeq, LenProperties
  <2>2. s \in Seq(Nat)  BY <1>3, <2>1 DEF HasPage, Messages, Events, Replies, Refusals, Pages
  <2>3. Consecutive(s) /\ s[1] # 0 /\ s[Len(s)] <= Len(log) /\ s # <<>>  BY <1>3 DEF Stamps, HasPage
  <2> HIDE DEF s
  <2>4. Len(s) \in Nat /\ Len(s) # 0  BY <2>2, <2>3, LenProperties, EmptySeq
  <2>5. s[Len(s)] \in Nat
    <3>1. Len(s) \in 1..Len(s)  BY <2>4
    <3> QED  BY <2>2, <3>1, ElementOfSeq
  <2>6. s[Len(s)] <= n  BY <1>1, <2>3, <2>5
  <2> QED  BY <2>3, <2>6 DEF s
<1>4. win.oldest <= n  BY <1>1 DEF Stamps
<1>5. \A r \in wire.asked : r.before <= n  BY <1>1, <1>2
<1> QED  BY <1>3, <1>4, <1>5

LEMMA StampsStep ==
    ASSUME TypeOK, TypeOK', Stamps, [Next]_vars
    PROVE  Stamps'
<1>0. /\ wire.rx \in Seq(Messages) /\ Len(log) \in Nat /\ Len(log') \in Nat
  BY LenProperties DEF TypeOK, Wires
<1>1. CASE Quiet
  BY <1>1 DEF Quiet, Shows, Stamps
<1>2. CASE Announces
  <2>1. win' = win /\ wire'.asked = wire.asked /\ Len(log) <= Len(log')  BY <1>2, Announcing
  <2>2. PICK e \in Messages : e.name # "reply" /\ (wire'.rx = wire.rx \/ wire'.rx = Append(wire.rx, e))
    BY <1>2, Announcing
  <2>3. \A i \in DOMAIN wire'.rx : HasPage(wire'.rx[i]) => i \in DOMAIN wire.rx /\ wire'.rx[i] = wire.rx[i]
    <3>1. CASE wire'.rx = wire.rx  BY <3>1
    <3>2. CASE wire'.rx = Append(wire.rx, e)
      <4>1. wire.rx \in Seq(Messages)  BY <1>0
      <4> QED  BY ONLY <2>2, <3>2, <4>1, Behind DEF HasPage
    <3> QED  BY <2>2, <3>1, <3>2
  <2>4. /\ win.oldest <= Len(log')
        /\ \A r \in wire.asked : r.before <= Len(log')
        /\ \A i \in DOMAIN wire.rx : HasPage(wire.rx[i]) =>
             LET s == wire.rx[i].page.stamps IN Consecutive(s) /\ s[1] # 0 /\ s[Len(s)] <= Len(log')
    BY <1>0, <2>1, StillWritten
  <2> QED  BY <2>1, <2>3, <2>4 DEF Stamps
<1>3. CASE Sends
  <2>1. PICK op \in {"recall", "say", "status"}, before \in Nat :
          /\ wire' = Sent(wire, op, link.next, before) /\ log' = log /\ Shows(win', win)
          /\ (before = 0 \/ before = win.oldest)
    BY <1>3 DEF Sends
  <2>2. wire'.asked = wire.asked \union {[op |-> op, id |-> link.next, before |-> before]} /\ wire'.rx = wire.rx
    BY <2>1 DEF Sent, TypeOK, Wires
  <2>3. before <= Len(log)  BY <1>0, <2>1 DEF Stamps
  <2>4. \A r \in wire'.asked : r.before <= Len(log')  BY <2>1, <2>2, <2>3 DEF Stamps
  <2> QED  BY <2>1, <2>2, <2>4 DEF Shows, Stamps
<1>4. CASE Skips
  BY <1>4 DEF Skips, Shows, Stamps
<1>5. CASE Break
  <2>1. wire'.asked = {} /\ wire'.rx = Append(wire.rx, [name |-> "gone", of |-> 0]) /\ UNCHANGED <<log, win>>
    BY <1>5 DEF Break, TypeOK, Wires
  <2>2. [name |-> "gone", of |-> 0] \in Messages  BY DEF Refusals, Messages
  <2> QED  BY <1>0, <2>1, <2>2, Behind DEF Stamps, HasPage
<1>6. CASE Top /\ Connect
  <2>1. wire'.rx = <<>> /\ log' = log /\ \A r \in wire'.asked : r.before = 0
    BY <1>6 DEF Top, Connect, Sent
  <2>2. win'.oldest = win.oldest  BY <1>6, ConnectShows DEF Shows
  <2>3. \A r \in wire'.asked : r.before <= Len(log')  BY <1>0, <2>1
  <2> QED  BY <2>1, <2>2, <2>3 DEF Stamps
<1>7. CASE FromCore
  <2> DEFINE m == Head(wire.rx)
  <2>1. wire.rx # <<>> /\ wire'.rx = Tail(wire.rx) /\ wire'.asked = wire.asked /\ log' = log  BY <1>7, Reading
  <2>2. win'.oldest <= Len(log)
    <3>1. CASE win'.oldest = win.oldest
      BY <3>1 DEF Stamps
    <3>2. ASSUME m.name = "reply", m \in Replies, NEW older \in BOOLEAN, win' = History(win, m.page, older)
          PROVE  win'.oldest <= Len(log)
      <4>1. m.page \in Pages  BY <3>2 DEF Replies
      <4>2. m = wire.rx[1] /\ 1 \in DOMAIN wire.rx  BY <1>0, <2>1, Ahead
      <4>3. m.page.stamps # <<>> =>
              Consecutive(m.page.stamps) /\ m.page.stamps[1] # 0 /\ m.page.stamps[Len(m.page.stamps)] <= Len(log)
        BY <3>2, <4>2 DEF Stamps, HasPage
      <4>4. win \in Windows /\ log \in Seq([of : Nat, role : Roles]) /\ win.oldest <= Len(log)  BY Parts DEF Stamps
      <4> HIDE DEF m
      <4> QED  BY <3>2, <4>1, <4>3, <4>4, PagePut
    <3> QED  BY <1>7, <3>1, <3>2, Reading DEF Shows
  <2>3. \A i \in DOMAIN wire'.rx : i + 1 \in DOMAIN wire.rx /\ wire'.rx[i] = wire.rx[i + 1]
    BY <1>0, <2>1, Ahead
  <2> QED  BY <2>1, <2>2, <2>3 DEF Stamps
<1>8. ASSUME NEW r \in wire.asked, Handle(r) PROVE Stamps'
  <2>1. wire'.asked = wire.asked \ {r} /\ UNCHANGED <<log, win>> /\ r.before \in Nat
    BY <1>8, Handled DEF Requests
  <2>2. PICK m \in Messages :
          /\ wire'.rx = Append(wire.rx, m)
          /\ m.page = Nothing \/ m.page = Recall(r.before) \/ m.name = "failed"
    BY <1>8, Handled
  <2>3. HasPage(m) => LET s == m.page.stamps IN Consecutive(s) /\ s[1] # 0 /\ s[Len(s)] <= Len(log)
    <3>1. m.page = Nothing => ~HasPage(m)  BY DEF HasPage, Nothing
    <3>2. m.name = "failed" => ~HasPage(m)  BY DEF HasPage
    <3>3. r.before <= Len(log) /\ log \in Seq([of : Nat, role : Roles])  BY Parts DEF Stamps
    <3> QED  BY <2>1, <2>2, <3>1, <3>2, <3>3, PageRead DEF HasPage
  <2>4. \A i \in DOMAIN wire'.rx : wire'.rx[i] = m \/ (i \in DOMAIN wire.rx /\ wire'.rx[i] = wire.rx[i])
    <3>1. wire.rx \in Seq(Messages) /\ wire'.rx = Append(wire.rx, m)  BY <1>0, <2>2
    <3> QED  BY ONLY <3>1, Behind
  <2> QED  BY <2>1, <2>3, <2>4 DEF Stamps
<1> QED  BY <1>1, <1>2, <1>3, <1>4, <1>5, <1>6, <1>7, <1>8, Steps

-----------------------------------------------------------------------------
(* What is on screen of the journal is a run of it.                        *)

\* The oldest stamp of a run is its first.
LEMMA FirstHeld ==
    ASSUME NEW u \in Seq(Bubbles), IsARun(u)
    PROVE  LET H == {u[i].at : i \in DOMAIN u} \ {0}
           IN  /\ H = {} => NoneHeld(u)
               /\ H # {} => 1 \in DOMAIN u /\ Min(H) = u[1].at
<1> DEFINE H == {u[i].at : i \in DOMAIN u} \ {0}
<1>1. Len(u) \in Nat /\ DOMAIN u = 1..Len(u) /\ \A i \in DOMAIN u : u[i].at \in Nat
  <2>1. Len(u) \in Nat /\ DOMAIN u = 1..Len(u)  BY LenProperties
  <2>2. \A i \in 1..Len(u) : u[i] \in Bubbles  BY ElementOfSeq
  <2> QED  BY <2>1, <2>2 DEF Bubbles
<1>2. ASSUME H = {} PROVE NoneHeld(u)
  BY <1>2 DEF NoneHeld
<1>3. ASSUME H # {} PROVE 1 \in DOMAIN u /\ Min(H) = u[1].at
  <2>1. PICK j \in DOMAIN u : u[j].at # 0  BY <1>3
  <2>2. 1 \in DOMAIN u  BY <1>1, <2>1
  <2>3. u[1].at # 0
    <3>1. j = 1 \/ 1 < j  BY <1>1, <2>1
    <3> QED  BY <2>1, <2>2, <3>1 DEF IsARun
  <2>4. \A k \in DOMAIN u : u[k].at # 0 => u[1].at <= u[k].at
    <3> SUFFICES ASSUME NEW k \in DOMAIN u, u[k].at # 0 PROVE u[1].at <= u[k].at
      OBVIOUS
    <3>1. k = 1 \/ 1 < k  BY <1>1
    <3>2. CASE k = 1  BY <1>1, <2>2, <3>2
    <3>3. CASE 1 < k
      <4>1. u[k].at - u[1].at = k - 1 /\ k \in Nat /\ u[k].at \in Nat /\ u[1].at \in Nat
        BY <1>1, <2>2, <3>3 DEF IsARun
      <4> QED  BY ONLY <4>1, <3>3
    <3> QED  BY <3>1, <3>2, <3>3
  <2>5. u[1].at \in H /\ \A y \in H : u[1].at <= y  BY <2>2, <2>3, <2>4
  <2>6. \A x \in H : (\A y \in H : x <= y) => x = u[1].at
    <3>1. H \subseteq Nat  BY <1>1
    <3> HIDE DEF H
    <3> SUFFICES ASSUME NEW x \in H, \A y \in H : x <= y PROVE x = u[1].at
      OBVIOUS
    <3>2. x \in Nat /\ u[1].at \in Nat /\ x <= u[1].at /\ u[1].at <= x  BY <2>5, <3>1
    <3> QED  BY ONLY <3>2
  <2>7. Min(H) = u[1].at
    <3> HIDE DEF H
    <3> QED  BY <2>5, <2>6 DEF Min
  <2> QED  BY <2>2, <2>7
<1> QED  BY <1>2, <1>3

LEMMA Apart ==
    ASSUME NEW a \in Int, NEW b \in Int, NEW x \in Int, NEW i \in Int, NEW j \in Int,
           a = x + (i - 1), b = x + (j - 1)
    PROVE  b - a = j - i
  OBVIOUS

LEMMA Beyond ==
    ASSUME NEW a \in Int, NEW b \in Int, NEW x \in Int, NEW g \in Int, NEW k \in Int, NEW j \in Int,
           a = (x + (g - 1)) + 1, b - a = k - 1, g + k = j
    PROVE  b = x + (j - 1)
  OBVIOUS

\* v is what u becomes when the g bubbles of a page with the stamps s are put on top, and the
\* page ends where what is held begins.
PutOnTop(u, v, s, g, n) ==
    /\ g # 0 /\ DOMAIN u = 1..n /\ DOMAIN v = 1..(g + n)
    /\ (\A i \in 1..n : u[i].at \in Nat) /\ (\A i \in 1..(g + n) : v[i].at \in Nat)
    /\ s[1] \in Nat /\ s[1] # 0 /\ \A i \in 1..g : s[i] = s[1] + (i - 1)
    /\ (\A i \in 1..g : v[i].at = s[i]) /\ (\A i \in 1..n : v[g + i] = u[i])
    /\ NoneHeld(u) \/ u[1].at = s[g] + 1

\* A page that ends where a run begins, put on top of it, is a run.
LEMMA RunOnTop ==
    ASSUME NEW u, NEW v, NEW s, NEW g \in Nat, NEW n \in Nat, PutOnTop(u, v, s, g, n), IsARun(u)
    PROVE  IsARun(v)
<1>1. DOMAIN u = 1..n /\ DOMAIN v = 1..(g + n) /\ g # 0
  BY DEF PutOnTop
<1>2. s[1] \in Nat /\ s[1] # 0 /\ \A i \in 1..g : s[i] = s[1] + (i - 1) /\ s[i] # 0
  BY DEF PutOnTop
<1>3. (\A i \in 1..n : u[i].at \in Nat) /\ (\A i \in 1..(g + n) : v[i].at \in Nat)
  BY DEF PutOnTop
<1>4. (\A i \in 1..g : v[i].at = s[i]) /\ (\A i \in 1..n : v[g + i] = u[i]) /\ (NoneHeld(u) \/ u[1].at = s[g] + 1)
  BY DEF PutOnTop
<1> SUFFICES ASSUME NEW i \in 1..(g + n), NEW j \in 1..(g + n), i < j, v[j].at # 0
             PROVE  v[i].at # 0 /\ v[j].at - v[i].at = j - i
  BY <1>1 DEF IsARun
<1>5. CASE j <= g
  <2>1. i \in 1..g /\ j \in 1..g /\ i \in Nat /\ j \in Nat  BY <1>1, <1>5
  <2>2. v[i].at = s[1] + (i - 1) /\ v[j].at = s[1] + (j - 1)  BY <1>2, <1>4, <2>1
  <2>3. s[1] \in Int /\ i \in Int /\ j \in Int /\ v[i].at \in Int /\ v[j].at \in Int /\ v[i].at # 0
    BY <1>2, <1>3, <1>4, <2>1
  <2>4. v[j].at - v[i].at = j - i  BY ONLY <2>2, <2>3, Apart
  <2> QED  BY <2>3, <2>4
<1>6. CASE ~(j <= g)
  <2>1. PICK k \in 1..n : g + k = j
    <3>1. j - g \in 1..n /\ g + (j - g) = j  BY <1>1, <1>6
    <3> QED  BY <3>1
  <2>2. v[j] = u[k] /\ u[k].at # 0  BY <1>4, <2>1
  <2>3. u[1].at = s[g] + 1
    BY <1>1, <1>4, <2>1, <2>2 DEF NoneHeld
  <2>4. g \in 1..g /\ s[g] = s[1] + (g - 1)  BY <1>1, <1>2
  <2>5. u[k].at - u[1].at = k - 1 /\ u[1].at \in Nat /\ u[k].at \in Nat
    <3>1. 1 \in 1..n /\ (k = 1 \/ 1 < k)  BY <1>1, <2>1
    <3>2. CASE k = 1  BY <1>3, <2>1, <3>1, <3>2
    <3>3. CASE 1 < k  BY <1>1, <1>3, <2>1, <2>2, <3>1, <3>3 DEF IsARun
    <3> QED  BY <3>1, <3>2, <3>3
  <2>6. CASE i <= g
    <3>1. i \in 1..g  BY <1>1, <2>6
    <3>2. v[i].at = s[1] + (i - 1)  BY <1>2, <1>4, <3>1
    <3>3. i \in Nat /\ i >= 1 /\ k \in Nat /\ g \in Nat  BY <1>1, <2>1, <3>1
    <3>4. v[i].at # 0  BY <1>2, <1>4, <3>1
    <3>5. /\ u[1].at = (s[1] + (g - 1)) + 1 /\ u[k].at - u[1].at = k - 1 /\ g + k = j /\ v[j].at = u[k].at
          /\ u[1].at \in Int /\ u[k].at \in Int /\ s[1] \in Int /\ g \in Int /\ k \in Int /\ j \in Int
      BY <1>2, <2>1, <2>2, <2>3, <2>4, <2>5, <3>3
    <3>6. v[j].at = s[1] + (j - 1)
      <4>1. u[k].at = s[1] + (j - 1)  BY ONLY <3>5, Beyond
      <4> QED  BY ONLY <3>5, <4>1
    <3>7. v[i].at \in Int /\ v[j].at \in Int /\ i \in Int  BY <1>3, <3>3
    <3>8. v[j].at - v[i].at = j - i  BY ONLY <3>2, <3>5, <3>6, <3>7, Apart
    <3> QED  BY <3>4, <3>8
  <2>7. CASE ~(i <= g)
    <3> DEFINE h == i - g
    <3>1. h \in 1..n /\ g + h = i /\ h < k  BY <1>1, <2>1, <2>7
    <3> HIDE DEF h
    <3>2. v[i] = u[h]  BY <1>4, <3>1
    <3>3. u[h].at # 0 /\ u[k].at - u[h].at = k - h  BY <1>1, <2>1, <2>2, <3>1 DEF IsARun
    <3>4. k - h = j - i  BY <1>1, <2>1, <3>1
    <3> QED  BY <2>2, <3>2, <3>3, <3>4
  <2> QED  BY <2>6, <2>7
<1> QED  BY <1>5, <1>6

LEMMA PageOnTop ==
    ASSUME TypeOK, TypeOK', Stamps, IsARun(win.bubbles), NEW p \in Pages, NEW older \in BOOLEAN,
           win' = History(win, p, older),
           p.stamps # <<>> =>
             /\ Consecutive(p.stamps) /\ p.stamps[1] # 0 /\ p.stamps[Len(p.stamps)] <= Len(log)
             /\ NoneHeld(win.bubbles) \/ win.bubbles[1].at = p.stamps[Len(p.stamps)] + 1
    PROVE  IsARun(win'.bubbles)
<1> DEFINE u == win.bubbles
           v == win'.bubbles
           s == p.stamps
<1>1. /\ u \in Seq(Bubbles) /\ v \in Seq(Bubbles) /\ s \in Seq(Nat) /\ Len(s) \in Nat /\ Len(u) \in Nat
  BY LenProperties DEF TypeOK, Windows, Pages
<1>2. /\ Len(v) = Len(s) + Len(u)
      /\ \A i \in 1..Len(s) : v[i].at = s[i]
      /\ \A i \in 1..Len(u) : v[Len(s) + i] = u[i]
      /\ Len(s) = 0 => v = u
  <2>1. win \in Windows /\ log \in Seq([of : Nat, role : Roles]) /\ win.oldest <= Len(log)  BY Parts DEF Stamps
  <2>2. s # <<>> => Consecutive(s) /\ s[1] # 0 /\ s[Len(s)] <= Len(log)  OBVIOUS
  <2> QED  BY <2>1, <2>2, PagePut
<1>3. CASE s = <<>>
  <2>1. Len(s) = 0  BY <1>3, EmptySeq
  <2> QED  BY <1>2, <2>1
<1>4. CASE s # <<>>
  <2>1. Consecutive(s) /\ s[1] # 0 /\ (NoneHeld(u) \/ u[1].at = s[Len(s)] + 1)  BY <1>4
  <2>2. IsARun(u)  OBVIOUS
  <2> HIDE DEF u, v, s
  <2>3. Len(s) # 0 /\ DOMAIN s = 1..Len(s) /\ DOMAIN u = 1..Len(u) /\ DOMAIN v = 1..(Len(s) + Len(u))
    BY <1>1, <1>2, <1>4, LenProperties, EmptySeq
  <2>4. (\A i \in 1..Len(u) : u[i].at \in Nat) /\ (\A i \in 1..(Len(s) + Len(u)) : v[i].at \in Nat)
    <3>1. (\A i \in 1..Len(u) : u[i] \in Bubbles) /\ (\A i \in 1..(Len(s) + Len(u)) : v[i] \in Bubbles)
      BY <1>1, <1>2, ElementOfSeq
    <3> QED  BY <3>1 DEF Bubbles
  <2>5. s[1] \in Nat
    <3>1. 1 \in 1..Len(s)  BY <1>1, <2>3
    <3> QED  BY <1>1, <3>1, ElementOfSeq
  <2>6. \A i \in 1..Len(s) : s[i] = s[1] + (i - 1)  BY <2>1, <2>3 DEF Consecutive
  <2>7. IsARun(v)
    <3>1. PICK g \in Nat, n \in Nat : g = Len(s) /\ n = Len(u)  BY <1>1
    <3>2. PutOnTop(u, v, s, g, n)  BY <1>2, <2>1, <2>3, <2>4, <2>5, <2>6, <3>1 DEF PutOnTop
    <3> QED  BY ONLY <2>2, <3>1, <3>2, RunOnTop
  <2> QED  BY <2>7 DEF v
<1> QED  BY <1>3, <1>4

\* Nothing is awaited under no id.
LEMMA IdsAreNumbers ==
    ASSUME TypeOK, Numbers
    PROVE  /\ \A r \in wire.asked : r.id # 0 /\ r.id \in Nat /\ r.id < link.next
           /\ \A i \in DOMAIN wire.rx : HasPage(wire.rx[i]) =>
                wire.rx[i].of # 0 /\ wire.rx[i].of \in Nat /\ (link.open => wire.rx[i].of < link.next)
<1>1. wire.rx \in Seq(Messages) /\ wire.asked \subseteq Requests  BY Parts
<1>2. \A i \in DOMAIN wire.rx : wire.rx[i] \in Messages  BY <1>1, ElementOfSeq, LenProperties
<1>3. \A i \in DOMAIN wire.rx : wire.rx[i].of \in Nat  BY <1>2 DEF Messages, Events, Replies, Refusals
<1> QED  BY <1>1, <1>3 DEF Numbers, HasPage, Requests

LEMMA RunsStep ==
    ASSUME TypeOK, TypeOK', Numbers, Connection, Stamps, Runs, [Next]_vars
    PROVE  Runs'
<1> SUFFICES ASSUME {"gap", "crossed"} \intersect lapses' = {}
             PROVE  IsARun(win'.bubbles) /\ Asked' /\ OnItsWay'
  BY DEF Runs
<1>0. IsARun(win.bubbles) /\ Asked /\ OnItsWay
  <2>1. {"gap", "crossed"} \intersect lapses = {}  BY LapsesStay
  <2> QED  BY <2>1 DEF Runs
<1>a. wire.rx \in Seq(Messages) /\ wire.asked \subseteq Requests /\ win \in Windows /\ win' \in Windows
  BY Parts DEF TypeOK
<1>1. CASE Quiet
  BY <1>0, <1>1 DEF Quiet, Shows, Asked, OnItsWay
<1>2. CASE Announces
  <2>1. UNCHANGED <<pend, win>> /\ wire'.asked = wire.asked  BY <1>2, Announcing
  <2>2. PICK e \in Messages : e.name # "reply" /\ (wire'.rx = wire.rx \/ wire'.rx = Append(wire.rx, e))
    BY <1>2, Announcing
  <2>3. \A i \in DOMAIN wire'.rx : HasPage(wire'.rx[i]) => i \in DOMAIN wire.rx /\ wire'.rx[i] = wire.rx[i]
    <3>1. CASE wire'.rx = wire.rx  BY <3>1
    <3>2. CASE wire'.rx = Append(wire.rx, e)
      <4>1. wire.rx \in Seq(Messages)  BY <1>a
      <4> QED  BY ONLY <2>2, <3>2, <4>1, Behind DEF HasPage
    <3> QED  BY <2>2, <3>1, <3>2
  <2> QED  BY <1>0, <2>1, <2>3 DEF Asked, OnItsWay
<1>3. CASE Sends
  <2>1. PICK op \in {"recall", "say", "status"}, before \in Nat :
          /\ link.open /\ wire' = Sent(wire, op, link.next, before) /\ Shows(win', win)
          /\ \/ op # "recall" /\ pend' = pend
             \/ /\ op = "recall" /\ before = win.oldest /\ before # 0
                /\ pend' = [pend EXCEPT !.older = link.next]
                /\ pend.history # 0 => "crossed" \in lapses'
    BY <1>3 DEF Sends
  <2>2. wire'.asked = wire.asked \union {[op |-> op, id |-> link.next, before |-> before]} /\ wire'.rx = wire.rx
    BY <2>1 DEF Sent, TypeOK, Wires
  <2>3. IsARun(win'.bubbles) /\ (NoneHeld(win.bubbles) => NoneHeld(win'.bubbles)) /\ win'.oldest = win.oldest
    BY <1>0, <2>1 DEF Shows
  <2>4. CASE op # "recall"
    BY <1>0, <2>1, <2>2, <2>3, <2>4 DEF Asked, OnItsWay
  <2>5. CASE op = "recall"
    <3>1. pend.history = 0 /\ before = win.oldest /\ before # 0  BY <2>1, <2>5
    <3>2. pend'.history = 0 /\ pend'.older = link.next  BY <2>1, <2>5, <3>1 DEF TypeOK
    <3>3. link.next \in Nat /\ link.next # 0  BY <2>1, Parts DEF Numbers
    <3>4. \A r \in wire.asked : r.id # pend'.history /\ r.id # pend'.older
      <4>1. \A r \in wire.asked : r.id # 0 /\ r.id \in Nat /\ r.id < link.next  BY IdsAreNumbers
      <4> QED  BY <3>2, <3>3, <4>1
    <3>5. \A i \in DOMAIN wire.rx : HasPage(wire.rx[i]) => wire.rx[i].of # pend'.history /\ wire.rx[i].of # pend'.older
      <4>1. \A i \in DOMAIN wire.rx : HasPage(wire.rx[i]) =>
              wire.rx[i].of # 0 /\ wire.rx[i].of \in Nat /\ wire.rx[i].of < link.next
        BY <2>1, IdsAreNumbers
      <4> QED  BY <3>2, <3>3, <4>1
    <3>6. Asked'  BY <2>2, <2>3, <3>1, <3>2, <3>3, <3>4 DEF Asked
    <3>7. OnItsWay'  BY <2>2, <3>5 DEF OnItsWay
    <3> QED  BY <2>3, <3>6, <3>7
  <2> QED  BY <2>4, <2>5
<1>4. CASE Skips
  <2>1. wire' = wire /\ wire.asked = {} /\ (pend' = pend \/ pend' = [pend EXCEPT !.older = 0]) /\ Shows(win', win)
    BY <1>4 DEF Skips, Connection
  <2>2. pend'.history = pend.history /\ (pend'.older = pend.older \/ pend'.older = 0)  BY <2>1 DEF TypeOK
  <2>3. \A i \in DOMAIN wire.rx : HasPage(wire.rx[i]) => wire.rx[i].of # 0  BY IdsAreNumbers
  <2> QED  BY <1>0, <2>1, <2>2, <2>3 DEF Shows, Asked, OnItsWay
<1>5. CASE Break
  <2>1. wire'.asked = {} /\ wire'.rx = Append(wire.rx, [name |-> "gone", of |-> 0]) /\ UNCHANGED <<pend, win>>
    BY <1>5 DEF Break, TypeOK, Wires
  <2>2. [name |-> "gone", of |-> 0] \in Messages  BY DEF Refusals, Messages
  <2> QED  BY <1>0, <1>a, <2>1, <2>2, Behind DEF Asked, OnItsWay, HasPage
<1>6. CASE Top /\ Connect
  <2>1. wire'.rx = <<>> /\ Shows(win', win)  BY <1>6, ConnectShows DEF Connect, Sent
  <2>2. IsARun(win'.bubbles)  BY <1>0, <2>1 DEF Shows
  <2>3. OnItsWay'  BY <2>1 DEF OnItsWay
  <2>4. ASSUME NEW r \in wire'.asked, r.op = "recall"
        PROVE  r.id = 4 /\ win.bubbles = <<>>
    BY <1>6, <2>4 DEF Connect, Sent
  <2>5. pend'.older = pend.older /\ pend.older # 4
    <3>1. pend'.older = pend.older  BY <1>6 DEF Connect, TypeOK
    <3>2. pend.older = 0 \/ pend.older >= 7  BY DEF Numbers
    <3> QED  BY <3>1, <3>2
  <2>6. win.bubbles = <<>> => NoneHeld(win'.bubbles)  BY <2>1 DEF Shows, NoneHeld
  <2>7. Asked'  BY <2>4, <2>5, <2>6 DEF Asked
  <2> QED  BY <2>2, <2>3, <2>7
<1>7. CASE FromCore
  <2> DEFINE m == Head(wire.rx)
  <2>1. wire.rx # <<>> /\ wire'.rx = Tail(wire.rx) /\ wire'.asked = wire.asked  BY <1>7, Reading
  <2>2. m = wire.rx[1] /\ 1 \in DOMAIN wire.rx /\ \A i \in DOMAIN wire'.rx : i + 1 \in DOMAIN wire.rx /\ wire'.rx[i] = wire.rx[i + 1]
    BY <1>a, <2>1, Ahead
  <2>3. \A r \in wire.asked : r.id # 0  BY IdsAreNumbers
  <2>4. \A i \in DOMAIN wire'.rx : HasPage(wire'.rx[i]) => wire'.rx[i].of # 0  BY <2>2, IdsAreNumbers
  <2>5. ASSUME Shows(win', win), pend' = pend
        PROVE  IsARun(win'.bubbles) /\ Asked' /\ OnItsWay'
    <3>1. IsARun(win'.bubbles) /\ (NoneHeld(win.bubbles) => NoneHeld(win'.bubbles)) /\ win'.oldest = win.oldest
      BY <1>0, <2>5 DEF Shows
    <3> HIDE DEF m
    <3>2. Asked'  BY <1>0, <2>1, <2>5, <3>1 DEF Asked
    <3>3. OnItsWay'  BY <1>0, <2>2, <2>5, <3>1 DEF OnItsWay
    <3> QED  BY <3>1, <3>2, <3>3
  <2>6. ASSUME IsARun(win'.bubbles), pend'.history = 0, pend'.older = 0
        PROVE  IsARun(win'.bubbles) /\ Asked' /\ OnItsWay'
    <3>1. Asked'  BY <2>1, <2>3, <2>6 DEF Asked
    <3>2. OnItsWay'  BY <2>4, <2>6 DEF OnItsWay
    <3> QED  BY <2>6, <3>1, <3>2
  <2>7. CASE m.name # "reply"
    <3>1. Shows(win', win) /\ (pend' = pend \/ pend' = [history |-> 0, older |-> 0])  BY <1>7, <2>7, Reading
    <3>2. IsARun(win'.bubbles)  BY <1>0, <3>1 DEF Shows
    <3> QED  BY <2>5, <2>6, <3>1, <3>2
  <2>8. CASE m.name = "reply" /\ pend.history # m.of /\ pend.older # m.of
    <3>1. pend' = pend /\ win' = win  BY <1>7, <2>8, Reading
    <3>2. Shows(win', win)  BY <1>a, <3>1, Unseen
    <3> QED  BY <2>5, <3>1, <3>2
  <2>9. ASSUME m.name = "reply", m.of = pend.history \/ m.of = pend.older
        PROVE  /\ m.page \in Pages
               /\ m.page.stamps # <<>> => /\ HasPage(m) /\ Consecutive(m.page.stamps) /\ m.page.stamps[1] # 0
                                          /\ m.page.stamps[Len(m.page.stamps)] <= Len(log)
    <3>1. m \in Replies  BY <1>7, <2>9, Reading
    <3> QED  BY <2>2, <2>9, <3>1 DEF Replies, HasPage, Stamps
  <2>10. CASE m.name = "reply" /\ pend.history = m.of
    <3>1. pend' = [pend EXCEPT !.history = 0] /\ win' = History(win, m.page, FALSE)  BY <1>7, <2>10, Reading
    <3>2. m.of # 0  BY <2>2, <2>10 DEF Numbers
    <3>3. pend'.history = 0 /\ pend'.older = pend.older /\ pend.history # 0  BY <2>10, <3>1, <3>2 DEF TypeOK
    <3>4. m.page.stamps # <<>> => NoneHeld(win.bubbles)  BY <1>0, <2>2, <2>9, <2>10 DEF OnItsWay
    <3>5. IsARun(win'.bubbles)
      <4> HIDE DEF m
      <4> QED  BY <1>0, <2>9, <2>10, <3>1, <3>4, PageOnTop
    <3>6. Asked'  BY <1>0, <2>1, <2>3, <3>3 DEF Asked
    <3>7. OnItsWay'
      <4> HIDE DEF m
      <4> QED  BY <1>0, <2>2, <2>4, <3>3 DEF OnItsWay
    <3> QED  BY <3>5, <3>6, <3>7
  <2>11. CASE m.name = "reply" /\ pend.history # m.of /\ pend.older = m.of
    <3>1. pend' = [pend EXCEPT !.older = 0] /\ win' = History(win, m.page, TRUE)  BY <1>7, <2>11, Reading
    <3>2. pend'.history = pend.history /\ pend'.older = 0  BY <3>1 DEF TypeOK
    <3>3. Held = {} \/ Min(Held) = win.oldest
      <4>1. "gap" \notin lapses'  OBVIOUS
      <4> QED  BY <1>7, <2>11, <4>1 DEF FromCore, Lapse
    <3>4. NoneHeld(win.bubbles) \/ win.bubbles[1].at = win.oldest
      <4>1. win.bubbles \in Seq(Bubbles)  BY <1>a DEF Windows
      <4>2. IsARun(win.bubbles)  BY <1>0
      <4> QED  BY <3>3, <4>1, <4>2, FirstHeld DEF Held
    <3>5. m.page.stamps # <<>> => pend.history = 0 /\ m.page.stamps[Len(m.page.stamps)] + 1 = win.oldest
      BY <1>0, <2>2, <2>9, <2>11 DEF OnItsWay
    <3>6. IsARun(win'.bubbles)
      <4> HIDE DEF m
      <4> QED  BY <1>0, <2>9, <2>11, <3>1, <3>4, <3>5, PageOnTop
    <3>7. CASE m.page.stamps # <<>>
      BY <2>6, <3>2, <3>5, <3>6, <3>7
    <3>8. CASE m.page.stamps = <<>>
      <4>1. win'.bubbles = win.bubbles
        <5> HIDE DEF m
        <5>1. Len(m.page.stamps) = 0  BY <3>8, EmptySeq
        <5>2. win \in Windows /\ log \in Seq([of : Nat, role : Roles]) /\ win.oldest <= Len(log)  BY Parts DEF Stamps
        <5> QED  BY <2>9, <2>11, <3>1, <3>8, <5>1, <5>2, PagePut
      <4>2. Asked'  BY <1>0, <2>1, <2>3, <3>2, <4>1 DEF Asked
      <4>3. OnItsWay'
        <5> HIDE DEF m
        <5> QED  BY <1>0, <2>2, <2>4, <3>2, <4>1 DEF OnItsWay
      <4> QED  BY <3>6, <4>2, <4>3
    <3> QED  BY <3>7, <3>8
  <2> QED  BY <2>7, <2>8, <2>10, <2>11
<1>8. ASSUME NEW r \in wire.asked, Handle(r) PROVE IsARun(win'.bubbles) /\ Asked' /\ OnItsWay'
  <2>1. wire'.asked = wire.asked \ {r} /\ UNCHANGED <<pend, win>> /\ r.before \in Nat
    BY <1>8, Handled DEF Requests
  <2>2. PICK m \in Messages :
          /\ wire'.rx = Append(wire.rx, m) /\ m.of = r.id
          /\ HasPage(m) => r.op = "recall" /\ m.page = Recall(r.before)
    BY <1>8, Handled DEF HasPage, Nothing
  <2>3. HasPage(m) => /\ m.of = pend.history => NoneHeld(win.bubbles)
                      /\ m.of = pend.older => pend.history = 0 /\ m.page.stamps[Len(m.page.stamps)] + 1 = win.oldest
    <3> SUFFICES ASSUME HasPage(m)
                 PROVE  /\ m.of = pend.history => NoneHeld(win.bubbles)
                        /\ m.of = pend.older => pend.history = 0 /\ m.page.stamps[Len(m.page.stamps)] + 1 = win.oldest
      OBVIOUS
    <3>1. r.op = "recall" /\ m.page = Recall(r.before) /\ m.of = r.id /\ Recall(r.before).stamps # <<>>
      BY <2>2 DEF HasPage
    <3>2. m.of = pend.history => NoneHeld(win.bubbles)  BY <1>0, <3>1 DEF Asked
    <3>3. m.of = pend.older => pend.history = 0 /\ r.before = win.oldest /\ r.before # 0  BY <1>0, <3>1 DEF Asked
    <3>4. r.before <= Len(log) /\ log \in Seq([of : Nat, role : Roles])  BY Parts DEF Stamps
    <3>5. r.before # 0 => Recall(r.before).stamps[Len(Recall(r.before).stamps)] + 1 = r.before
      BY <2>1, <3>1, <3>4, PageRead
    <3> QED  BY <3>1, <3>2, <3>3, <3>5
  <2>4. \A i \in DOMAIN wire'.rx : wire'.rx[i] = m \/ (i \in DOMAIN wire.rx /\ wire'.rx[i] = wire.rx[i])
    <3>1. wire.rx \in Seq(Messages) /\ wire'.rx = Append(wire.rx, m)  BY <1>a, <2>2
    <3> QED  BY ONLY <3>1, Behind
  <2>5. Asked'  BY <1>0, <2>1 DEF Asked
  <2>6. OnItsWay'  BY <1>0, <2>1, <2>3, <2>4 DEF OnItsWay
  <2> QED  BY <1>0, <2>1, <2>5, <2>6
<1> QED  BY <1>1, <1>2, <1>3, <1>4, <1>5, <1>6, <1>7, <1>8, Steps

-----------------------------------------------------------------------------
(* The end of a turn is of the answer that stands.                         *)

\* What joins the queue: an end only behind the answer it ends.
LEMMA InLineBehind ==
    ASSUME NEW q \in Seq(Messages), NEW m \in Messages, NEW w, InLine(q, w),
           m.name = "turn_end" => Awaits(q, w, m.of)
    PROVE  InLine(Append(q, m), w)
<1> DEFINE a == Append(q, m)
           n == Len(q)
<1>1. /\ n \in Nat /\ a[n + 1] = m /\ DOMAIN q = 1..n /\ DOMAIN a = 1..(n + 1)
      /\ \A i \in DOMAIN q : i \in DOMAIN a /\ a[i] = q[i]
      /\ \A i \in DOMAIN a : i = n + 1 \/ i \in DOMAIN q
  BY ONLY q \in Seq(Messages), m \in Messages, Behind
<1> HIDE DEF a, n
<1>2. \A k \in DOMAIN q : k < n + 1  BY <1>1
<1>3. ASSUME NEW i \in DOMAIN a, w.said # 0, a[i].name = "turn_end", \A k \in DOMAIN a : k < i => ~Bound(a[k])
      PROVE  a[i].of = OfSaid(w)
  <2>1. \A k \in DOMAIN q : k < i => ~Bound(q[k])  BY <1>1, <1>3
  <2>2. CASE i \in DOMAIN q  BY <1>1, <1>3, <2>1, <2>2 DEF InLine
  <2>3. CASE i = n + 1
    <3>1. \A k \in DOMAIN q : ~Bound(q[k])  BY <1>2, <2>1, <2>3
    <3>2. m.name = "turn_end"  BY <1>1, <1>3, <2>3
    <3> QED  BY <1>1, <1>3, <2>3, <3>1, <3>2 DEF Awaits
  <2> QED  BY <1>1, <2>2, <2>3
<1>4. ASSUME NEW i \in DOMAIN a, NEW j \in DOMAIN a, i < j, a[i].name = "message", a[j].name = "turn_end",
             \A k \in DOMAIN a : i < k /\ k < j => ~Bound(a[k])
      PROVE  a[j].of = a[i].of
  <2>1. \A k \in DOMAIN q : i < k /\ k < j => ~Bound(q[k])  BY <1>1, <1>4
  <2>2. i \in DOMAIN q
    <3>1. i \in Nat /\ j \in Nat /\ i < j /\ j <= n + 1  BY <1>1, <1>4
    <3>2. i # n + 1  BY <1>1, <3>1
    <3> QED  BY <1>1, <3>2
  <2>3. CASE j \in DOMAIN q  BY <1>1, <1>4, <2>1, <2>2, <2>3 DEF InLine
  <2>4. CASE j = n + 1
    <3>1. \A k \in DOMAIN q : i < k => ~Bound(q[k])  BY <1>2, <2>1, <2>4
    <3>2. m.name = "turn_end" /\ q[i].name = "message" /\ a[i] = q[i] /\ a[j] = m  BY <1>1, <1>4, <2>2, <2>4
    <3> QED  BY <2>2, <3>1, <3>2 DEF Awaits
  <2> QED  BY <1>1, <2>3, <2>4
<1>5. InLine(a, w)  BY <1>3, <1>4 DEF InLine
<1> QED  BY <1>5 DEF a

LEMMA AwaitsBehind ==
    ASSUME NEW q \in Seq(Messages), NEW m \in Messages, NEW w, NEW n,
           Bound(m) \/ (Awaits(q, w, n) /\ (m.name = "message" => m.of = n))
    PROVE  Awaits(Append(q, m), w, n)
<1> DEFINE a == Append(q, m)
           l == Len(q)
<1>1. /\ l \in Nat /\ a[l + 1] = m /\ DOMAIN q = 1..l /\ DOMAIN a = 1..(l + 1)
      /\ \A i \in DOMAIN q : i \in DOMAIN a /\ a[i] = q[i]
      /\ \A i \in DOMAIN a : i = l + 1 \/ i \in DOMAIN q
  BY ONLY q \in Seq(Messages), m \in Messages, Behind
<1> HIDE DEF a, l
<1>2. l + 1 \in DOMAIN a /\ \A k \in DOMAIN q : k < l + 1  BY <1>1
<1>3. ASSUME w.said # 0, \A k \in DOMAIN a : ~Bound(a[k]) PROVE OfSaid(w) = n
  <2>1. ~Bound(m)  BY <1>1, <1>2, <1>3
  <2>2. \A k \in DOMAIN q : ~Bound(q[k])  BY <1>1, <1>3
  <2> QED  BY <1>3, <2>1, <2>2 DEF Awaits
<1>4. ASSUME NEW i \in DOMAIN a, a[i].name = "message", \A k \in DOMAIN a : i < k => ~Bound(a[k]) PROVE a[i].of = n
  <2>1. CASE i = l + 1
    <3>1. m.name = "message" /\ a[i] = m  BY <1>1, <1>4, <2>1
    <3>2. ~Bound(m)  BY <3>1 DEF Bound
    <3> QED  BY <3>1, <3>2
  <2>2. CASE i \in DOMAIN q
    <3>1. ~Bound(m)  BY <1>1, <1>2, <1>4, <2>2
    <3>2. a[i] = q[i] /\ \A k \in DOMAIN q : i < k => ~Bound(q[k])  BY <1>1, <1>4, <2>2
    <3> QED  BY <1>4, <2>2, <3>1, <3>2 DEF Awaits
  <2> QED  BY <1>1, <2>1, <2>2
<1>5. Awaits(a, w, n)  BY <1>3, <1>4 DEF Awaits
<1> QED  BY <1>5 DEF a

\* What stands in v after the head of the queue was read: the head, or what stood in w.
Stays(v, w, m) ==
    v.said # 0 => \/ m.name = "message" /\ OfSaid(v) = m.of
                  \/ ~Bound(m) /\ w.said # 0 /\ OfSaid(v) = OfSaid(w)

LEMMA InLineAhead ==
    ASSUME NEW q \in Seq(Messages), q # <<>>, NEW v, NEW w, InLine(q, w), Stays(v, w, Head(q))
    PROVE  InLine(Tail(q), v)
<1> DEFINE a == Tail(q)
<1>1. /\ 1 \in DOMAIN q /\ Head(q) = q[1] /\ Len(q) \in Nat
      /\ DOMAIN q = 1..Len(q) /\ DOMAIN a = 1..(Len(q) - 1)
      /\ \A i \in DOMAIN a : i \in Nat /\ i + 1 \in DOMAIN q /\ a[i] = q[i + 1]
  BY Ahead
<1> HIDE DEF a
<1>2. \A k \in DOMAIN q : k = 1 \/ (k \in Nat /\ k > 1 /\ k - 1 \in DOMAIN a /\ (k - 1) + 1 = k /\ q[k] = a[k - 1])
  <2> TAKE k \in DOMAIN q
  <2>1. k \in Nat /\ k >= 1 /\ k <= Len(q)  BY <1>1
  <2>2. CASE k = 1  BY <2>2
  <2>3. CASE k # 1
    <3>1. k > 1 /\ k - 1 \in 1..(Len(q) - 1) /\ (k - 1) + 1 = k  BY <1>1, <2>1, <2>3
    <3> QED  BY <1>1, <2>1, <3>1
  <2> QED  BY <2>2, <2>3
<1>3. ASSUME NEW i \in DOMAIN a, v.said # 0, a[i].name = "turn_end", \A k \in DOMAIN a : k < i => ~Bound(a[k])
      PROVE  a[i].of = OfSaid(v)
  <2>1. i \in Nat /\ i + 1 \in DOMAIN q /\ a[i] = q[i + 1] /\ 1 < i + 1
    <3>1. i \in Nat /\ i >= 1  BY <1>1
    <3> QED  BY <1>1, <3>1
  <2>2. \A k \in DOMAIN q : 1 < k /\ k < i + 1 => ~Bound(q[k])
    <3> TAKE k \in DOMAIN q
    <3>1. CASE k > 1 /\ k - 1 \in DOMAIN a /\ q[k] = a[k - 1] /\ k \in Nat
      <4>1. k < i + 1 => k - 1 < i  BY <2>1, <3>1
      <4> QED  BY <1>3, <3>1, <4>1
    <3> QED  BY <1>2, <3>1
  <2>3. CASE q[1].name = "message" /\ OfSaid(v) = q[1].of
    BY <1>1, <1>3, <2>1, <2>2, <2>3 DEF InLine
  <2>4. CASE ~Bound(q[1]) /\ w.said # 0 /\ OfSaid(v) = OfSaid(w)
    <3>1. \A k \in DOMAIN q : k < i + 1 => ~Bound(q[k])  BY <1>2, <2>2, <2>4
    <3> QED  BY <1>3, <2>1, <2>4, <3>1 DEF InLine
  <2> QED  BY <1>1, <1>3, <2>3, <2>4 DEF Stays
<1>4. ASSUME NEW i \in DOMAIN a, NEW j \in DOMAIN a, i < j, a[i].name = "message", a[j].name = "turn_end",
             \A k \in DOMAIN a : i < k /\ k < j => ~Bound(a[k])
      PROVE  a[j].of = a[i].of
  <2>1. i \in Nat /\ j \in Nat /\ i >= 1 /\ i + 1 \in DOMAIN q /\ j + 1 \in DOMAIN q /\ a[i] = q[i + 1] /\ a[j] = q[j + 1]
    BY <1>1
  <2>2. \A k \in DOMAIN q : i + 1 < k /\ k < j + 1 => ~Bound(q[k])
    <3> TAKE k \in DOMAIN q
    <3>1. CASE k = 1  BY <2>1, <3>1
    <3>2. CASE k \in Nat /\ k > 1 /\ k - 1 \in DOMAIN a /\ q[k] = a[k - 1]
      <4>1. i + 1 < k /\ k < j + 1 => i < k - 1 /\ k - 1 < j  BY <2>1, <3>2
      <4> QED  BY <1>4, <3>2, <4>1
    <3> QED  BY <1>2, <3>1, <3>2
  <2>3. i + 1 < j + 1  BY <1>4, <2>1
  <2> QED  BY <1>4, <2>1, <2>2, <2>3 DEF InLine
<1>5. InLine(a, v)  BY <1>3, <1>4 DEF InLine
<1> QED  BY <1>5 DEF a

LEMMA AwaitsAhead ==
    ASSUME NEW q \in Seq(Messages), q # <<>>, NEW v, NEW w, NEW n, Awaits(q, w, n), Stays(v, w, Head(q))
    PROVE  Awaits(Tail(q), v, n)
<1> DEFINE a == Tail(q)
<1>1. /\ 1 \in DOMAIN q /\ Head(q) = q[1] /\ Len(q) \in Nat
      /\ DOMAIN q = 1..Len(q) /\ DOMAIN a = 1..(Len(q) - 1)
      /\ \A i \in DOMAIN a : i \in Nat /\ i + 1 \in DOMAIN q /\ a[i] = q[i + 1]
  BY Ahead
<1> HIDE DEF a
<1>2. \A k \in DOMAIN q : k = 1 \/ (k \in Nat /\ k > 1 /\ k - 1 \in DOMAIN a /\ (k - 1) + 1 = k /\ q[k] = a[k - 1])
  <2> TAKE k \in DOMAIN q
  <2>1. k \in Nat /\ k >= 1 /\ k <= Len(q)  BY <1>1
  <2>2. CASE k = 1  BY <2>2
  <2>3. CASE k # 1
    <3>1. k > 1 /\ k - 1 \in 1..(Len(q) - 1) /\ (k - 1) + 1 = k  BY <1>1, <2>1, <2>3
    <3> QED  BY <1>1, <2>1, <3>1
  <2> QED  BY <2>2, <2>3
<1>3. ASSUME v.said # 0, \A k \in DOMAIN a : ~Bound(a[k]) PROVE OfSaid(v) = n
  <2>1. \A k \in DOMAIN q : 1 < k => ~Bound(q[k])  BY <1>2, <1>3
  <2>2. CASE q[1].name = "message" /\ OfSaid(v) = q[1].of
    BY <1>1, <2>1, <2>2 DEF Awaits
  <2>3. CASE ~Bound(q[1]) /\ w.said # 0 /\ OfSaid(v) = OfSaid(w)
    <3>1. \A k \in DOMAIN q : ~Bound(q[k])  BY <1>2, <2>1, <2>3
    <3> QED  BY <2>3, <3>1 DEF Awaits
  <2> QED  BY <1>1, <1>3, <2>2, <2>3 DEF Stays
<1>4. ASSUME NEW i \in DOMAIN a, a[i].name = "message", \A k \in DOMAIN a : i < k => ~Bound(a[k]) PROVE a[i].of = n
  <2>1. i \in Nat /\ i >= 1 /\ i + 1 \in DOMAIN q /\ a[i] = q[i + 1]  BY <1>1
  <2>2. \A k \in DOMAIN q : i + 1 < k => ~Bound(q[k])
    <3> TAKE k \in DOMAIN q
    <3>1. CASE k = 1  BY <2>1, <3>1
    <3>2. CASE k \in Nat /\ k > 1 /\ k - 1 \in DOMAIN a /\ q[k] = a[k - 1]
      <4>1. i + 1 < k => i < k - 1  BY <2>1, <3>2
      <4> QED  BY <1>4, <3>2, <4>1
    <3> QED  BY <1>2, <3>1, <3>2
  <2> QED  BY <1>4, <2>1, <2>2 DEF Awaits
<1>5. Awaits(a, v, n)  BY <1>3, <1>4 DEF Awaits
<1> QED  BY <1>5 DEF a

\* The same answer stands, and the same is on its way.
LEMMA StillFollowing ==
    ASSUME TypeOK, Following, Says(win', win), wire'.rx = wire.rx, wire'.up = wire.up,
           wire'.watched = wire.watched, turn' = turn
    PROVE  Following'
<1>1. win'.said <= Len(win'.bubbles) /\ (win'.said # 0 => win.said # 0 /\ win'.bubbles[win'.said] = win.bubbles[win.said])
  BY DEF Following, Says
<1>2. win'.said # 0 => win.said # 0 /\ OfSaid(win') = OfSaid(win)
  BY <1>1 DEF OfSaid
<1>3. InLine(wire.rx, win')
  <2>1. InLine(wire.rx, win)  BY DEF Following
  <2> QED  BY <1>2, <2>1 DEF InLine
<1>4. wire.up /\ wire.watched /\ turn # None => Awaits(wire.rx, win', turn.n)
  <2> SUFFICES ASSUME wire.up /\ wire.watched /\ turn # None PROVE Awaits(wire.rx, win', turn.n)
    OBVIOUS
  <2>1. Awaits(wire.rx, win, turn.n)  BY DEF Following
  <2> QED  BY <1>2, <2>1 DEF Awaits
<1>5. wire.up /\ ~wire.watched => win'.said = 0 /\ Silent(wire.rx)
  BY <1>1 DEF Following
<1> QED  BY <1>1, <1>3, <1>4, <1>5 DEF Following

\* What the window does of its own accord leaves the answer that stands, or clears it.
LEMMA OnItsOwn ==
    ASSUME TypeOK, TypeOK', "astray" \notin lapses',
           Signal \/ (Top /\ (NotReached \/ AskMore)) \/ Submit \/ Clear \/ ScrollBy \/ Show \/ Timer \/ UNCHANGED vars
    PROVE  /\ Says(win', win) /\ wire'.rx = wire.rx /\ wire'.up = wire.up /\ wire'.watched = wire.watched
           /\ turn' = turn
<1>0. win \in Windows /\ win' \in Windows /\ wire \in Wires /\ win.said \in Nat /\ win'.said \in Nat
  BY DEF TypeOK, Windows
<1>s. \A op, id, before : LET v == Sent(wire, op, id, before)
                          IN  v.rx = wire.rx /\ v.up = wire.up /\ v.watched = wire.watched
  BY <1>0 DEF Sent, Wires
<1>1. ASSUME win'.bubbles = win.bubbles, win'.said = win.said PROVE Says(win', win)
  BY <1>0, <1>1, Unseen
<1>2. CASE Signal \/ UNCHANGED vars
  BY <1>1, <1>2 DEF Signal, vars
<1>3. CASE Top /\ NotReached
  <2> DEFINE w == IF win.connected \/ win.bubbles = <<>> THEN Push(win, Note) ELSE win
  <2>1. w \in Windows /\ Says(w, win)
    <3>1. Says(Push(win, Note), win)  BY <1>0, PushShows, NotesAreBubbles
    <3>2. Says(win, win)  BY <1>0, Unseen
    <3> QED  BY <1>0, <3>1, <3>2 DEF Says
  <2>2. win' = [w EXCEPT !.connected = FALSE, !.wantMore = FALSE]  BY <1>3 DEF NotReached
  <2> HIDE DEF w
  <2>3. win'.bubbles = w.bubbles /\ win'.said = w.said  BY <2>1, <2>2 DEF Windows
  <2>4. Says(win', win)  BY <1>0, <2>1, <2>3, Unseen, OneAfterAnother
  <2> QED  BY <1>3, <2>4 DEF Top, NotReached
<1>4. CASE Top /\ AskMore
  <2>1. win'.bubbles = win.bubbles /\ win'.said = win.said  BY <1>0, <1>4 DEF AskMore, Windows
  <2>2. wire' = wire \/ wire' = Sent(wire, "recall", link.next, win.oldest)  BY <1>4 DEF AskMore
  <2> QED  BY <1>1, <1>4, <1>s, <2>1, <2>2 DEF Top
<1>5. CASE Submit
  <2> DEFINE b == Bubble("you", 0, 0)
             shown == [Push(win, b) EXCEPT !.echoed = TRUE]
  <2>1. b \in Bubbles /\ b.at = 0  BY DEF Bubble, Bubbles
  <2> HIDE DEF b
  <2>2. Says(Push(win, b), win) /\ Push(win, b) \in Windows  BY <1>0, <2>1, PushShows DEF Says
  <2>3. shown \in Windows /\ shown.bubbles = Push(win, b).bubbles /\ shown.said = Push(win, b).said  BY <2>2 DEF Windows
  <2>4. Says(shown, win)  BY <1>0, <2>2, <2>3, Unseen, OneAfterAnother
  <2> HIDE DEF shown
  <2>5. Says(Push(shown, Note), shown) /\ Push(shown, Note) \in Windows  BY <2>3, PushShows, NotesAreBubbles DEF Says
  <2>6. Says(Push(shown, Note), win)  BY <1>0, <2>3, <2>4, <2>5, OneAfterAnother
  <2> DEFINE gone == [Push(shown, Note) EXCEPT !.connected = FALSE]
  <2>7. gone \in Windows /\ gone.bubbles = Push(shown, Note).bubbles /\ gone.said = Push(shown, Note).said
    BY <2>5 DEF Windows
  <2>8. Says(gone, win)  BY <1>0, <2>5, <2>6, <2>7, Unseen, OneAfterAnother
  <2>9. win' \in {shown, Push(shown, Note), gone}  BY <1>5 DEF Submit, shown, b
  <2>10. Says(win', win)  BY <2>4, <2>6, <2>8, <2>9
  <2>11. wire' = wire \/ wire' = Sent(wire, "say", link.next, 0)  BY <1>5 DEF Submit
  <2>12. turn' = turn  BY <1>5 DEF Submit, Key
  <2> QED  BY <1>s, <2>10, <2>11, <2>12
<1>6. CASE Clear
  <2>1. win'.bubbles = <<>> /\ win'.said = 0
    <3>1. CASE win' = [win EXCEPT !.bubbles = <<>>, !.said = 0]  BY <1>0, <3>1 DEF Windows
    <3>2. CASE win' = [win EXCEPT !.bubbles = <<>>] /\ win.said = 0  BY <1>0, <3>2 DEF Windows
    <3> QED  BY <1>6, <3>1, <3>2 DEF Clear, Lapse
  <2>2. Says(win', win)  BY <1>0, <2>1, EmptySeq DEF Says
  <2> QED  BY <1>6, <2>2 DEF Clear, Key
<1>7. CASE ScrollBy
  <2>1. PICK by \in {-Stride, Stride} : win' = Scroll(win, by)  BY <1>7 DEF ScrollBy
  <2>2. win'.bubbles = win.bubbles /\ win'.said = win.said  BY <1>0, <2>1 DEF Scroll, Windows
  <2> QED  BY <1>1, <1>7, <2>2 DEF ScrollBy, Key
<1>8. CASE Show
  <2>1. win'.bubbles = win.bubbles /\ win'.said = win.said  BY <1>0, <1>8 DEF Show, Windows
  <2> QED  BY <1>1, <1>8, <2>1 DEF Show, Key
<1>9. CASE Timer
  <2>1. win'.bubbles = win.bubbles /\ win'.said = win.said  BY <1>0, <1>9 DEF Timer, Windows
  <2>2. wire' = wire \/ wire' = Sent(wire, "status", link.next, 0)  BY <1>9 DEF Timer
  <2>3. turn' = turn  BY <1>9 DEF Timer, Key
  <2> QED  BY <1>1, <1>s, <2>1, <2>2, <2>3
<1> QED  BY <1>2, <1>3, <1>4, <1>5, <1>6, <1>7, <1>8, <1>9

\* What is read that is no event of a turn leaves the answer that stands, where it stands now.
LEMMA ReadSays ==
    ASSUME TypeOK, TypeOK', Stamps, FromCore, "astray" \notin lapses', ~Bound(Head(wire.rx)), Head(wire.rx).name # "message"
    PROVE  Says(win', win)
<1> DEFINE m == Head(wire.rx)
<1>0. win \in Windows /\ win' \in Windows /\ m \in Messages /\ m = wire.rx[1] /\ 1 \in DOMAIN wire.rx
  <2>1. wire.rx \in Seq(Messages) /\ wire.rx # <<>>  BY Parts DEF FromCore
  <2>2. m \in Messages /\ m = wire.rx[1] /\ 1 \in DOMAIN wire.rx  BY ONLY <2>1, Ahead
  <2> QED  BY <2>2 DEF TypeOK
<1>1. CASE m.name = "failed"
  BY <1>0, <1>1, PushShows, NotesAreBubbles DEF FromCore
<1>2. CASE m.name = "gone"
  <2> DEFINE w == [win EXCEPT !.connected = FALSE, !.loading = FALSE]
  <2>1. w \in Windows /\ w.bubbles = win.bubbles /\ w.said = win.said  BY <1>0 DEF Windows
  <2>2. win' = Push(w, Note)  BY <1>2 DEF FromCore, Forget
  <2> HIDE DEF w
  <2>3. Says(w, win)  BY <1>0, <2>1, Unseen
  <2>4. Says(Push(w, Note), w) /\ Push(w, Note) \in Windows  BY <2>1, PushShows, NotesAreBubbles DEF Says
  <2> QED  BY <1>0, <2>1, <2>2, <2>3, <2>4, OneAfterAnother
<1>3. CASE m.name = "log"
  <2>1. m \in Events  BY <1>0, <1>3 DEF Replies, Refusals, Messages
  <2>2. win' = OnEvent(win, m)  BY <1>3 DEF FromCore
  <2> HIDE DEF m
  <2> QED  BY <1>0, <1>3, <2>1, <2>2, Heard
<1>4. CASE m.name = "reply" /\ pend.history # m.of /\ pend.older # m.of
  <2>1. win' = win  BY <1>4, Reading
  <2> QED  BY <1>0, <2>1, Unseen
<1>5. ASSUME m.name = "reply", NEW older \in BOOLEAN, m \in Replies, win' = History(win, m.page, older),
             older \/ win.said = 0
      PROVE  Says(win', win)
  <2> DEFINE p == m.page
             g == Len(p.stamps)
  <2>1. p \in Pages  BY <1>5 DEF Replies
  <2>2. p.stamps # <<>> => Consecutive(p.stamps) /\ p.stamps[1] # 0 /\ p.stamps[Len(p.stamps)] <= Len(log)
    BY <1>0, <1>5 DEF Stamps, HasPage
  <2>3. log \in Seq([of : Nat, role : Roles]) /\ win.oldest <= Len(log)  BY Parts DEF Stamps
  <2>4. win' = History(win, p, older)  BY <1>5
  <2>5. win.said \in Nat /\ Len(win.bubbles) \in Nat  BY <1>0, LenProperties DEF Windows
  <2> HIDE DEF p
  <2>6. /\ g \in Nat /\ Len(win'.bubbles) = g + Len(win.bubbles)
        /\ \A i \in 1..Len(win.bubbles) : win'.bubbles[g + i] = win.bubbles[i]
        /\ win'.said = IF older /\ win.said # 0 THEN win.said + g ELSE win.said
    <3> DEFINE v == History(win, p, older)
    <3>1. win \in Windows  BY <1>0
    <3>2. /\ g \in Nat /\ Len(v.bubbles) = g + Len(win.bubbles)
          /\ \A i \in 1..Len(win.bubbles) : v.bubbles[g + i] = win.bubbles[i]
          /\ v.said = IF older /\ win.said # 0 THEN win.said + g ELSE win.said
      BY <2>1, <2>2, <2>3, <3>1, PagePut
    <3> QED  BY <2>4, <3>2
  <2> HIDE DEF g
  <2>7. CASE win.said = 0
    BY <1>0, <2>5, <2>6, <2>7 DEF Says
  <2>8. CASE win.said # 0
    <3>1. win'.said = win.said + g /\ win.said + g = g + win.said  BY <1>5, <2>5, <2>6, <2>8
    <3>2. win.said <= Len(win.bubbles) => win.said \in 1..Len(win.bubbles) /\ win'.said <= Len(win'.bubbles)
      BY <2>5, <2>6, <2>8, <3>1
    <3> QED  BY <1>0, <2>6, <2>8, <3>1, <3>2 DEF Says
  <2> QED  BY <2>7, <2>8
<1>6. CASE m.name = "reply" /\ pend.history = m.of
  <2>1. m \in Replies /\ win' = History(win, m.page, FALSE)  BY <1>6, Reading
  <2>2. win.said = 0  BY <1>6 DEF FromCore, Lapse
  <2> QED  BY <1>5, <1>6, <2>1, <2>2
<1>7. CASE m.name = "reply" /\ pend.history # m.of /\ pend.older = m.of
  <2>1. m \in Replies /\ win' = History(win, m.page, TRUE)  BY <1>7, Reading
  <2> QED  BY <1>5, <1>7, <2>1
<1>8. m.name \in {"turn_start", "message", "turn_end", "log", "reply", "failed", "gone"}
  BY <1>0 DEF Messages, Events, Replies, Refusals
<1> QED  BY <1>1, <1>2, <1>3, <1>4, <1>6, <1>7, <1>8 DEF Bound

\* What is announced to a window that watches: e, of the turn that is open or that begins.
LEMMA SaidToIt ==
    ASSUME TypeOK, NEW e \in Messages, Announce(e), "astray" \notin lapses'
    PROVE  /\ wire'.up = wire.up /\ wire'.watched = wire.watched
           /\ wire'.rx = IF wire.watched /\ wire.up THEN Append(wire.rx, e) ELSE wire.rx
<1>1. wire' = Told(wire, e)  BY DEF Announce
<1>2. wire \in Wires  BY DEF TypeOK
<1> QED  BY ONLY <1>1, <1>2, e \in Messages, ToldTo

LEMMA FollowsStep ==
    ASSUME TypeOK, TypeOK', Connection, Stamps, Follows, [Next]_vars
    PROVE  Follows'
<1> SUFFICES ASSUME "astray" \notin lapses' PROVE Following'
  BY DEF Follows
<1>0. Following
  BY LapsesStay DEF Follows
<1>a. wire.rx \in Seq(Messages) /\ wire \in Wires /\ wire.up \in BOOLEAN /\ wire.watched \in BOOLEAN
  BY Parts DEF TypeOK
<1>1. CASE Signal \/ (Top /\ (NotReached \/ AskMore)) \/ Submit \/ Clear \/ ScrollBy \/ Show \/ Timer \/ UNCHANGED vars
  <2>1. /\ Says(win', win) /\ wire'.rx = wire.rx /\ wire'.up = wire.up /\ wire'.watched = wire.watched
        /\ turn' = turn
    BY <1>1, OnItsOwn
  <2> QED  BY <1>0, <2>1, StillFollowing
\* A message m joins what is on its way, or there is nobody to tell it to.
<1>2. ASSUME NEW m \in Messages, win' = win, wire'.up = wire.up, wire'.watched = wire.watched,
             wire'.rx = IF wire.watched /\ wire.up THEN Append(wire.rx, m) ELSE wire.rx,
             wire.up /\ wire.watched /\ m.name = "turn_end" => Awaits(wire.rx, win, m.of),
             wire.up /\ wire.watched /\ turn' # None =>
                 Bound(m) \/ (Awaits(wire.rx, win, turn'.n) /\ (m.name = "message" => m.of = turn'.n))
      PROVE  Following'
  <2>1. InLine(wire.rx, win)  BY <1>0 DEF Following
  <2>2. InLine(wire'.rx, win)
    <3>1. CASE wire.watched /\ wire.up
      <4>1. InLine(Append(wire.rx, m), win)  BY <1>a, <1>2, <2>1, <3>1, InLineBehind
      <4> QED  BY <1>2, <3>1, <4>1
    <3>2. CASE ~(wire.watched /\ wire.up)
      BY <1>2, <2>1, <3>2
    <3> QED  BY <3>1, <3>2
  <2>3. wire.up /\ wire.watched /\ turn' # None => Awaits(wire'.rx, win, turn'.n)
    <3> SUFFICES ASSUME wire.up, wire.watched, turn' # None PROVE Awaits(wire'.rx, win, turn'.n)
      OBVIOUS
    <3>1. Bound(m) \/ (Awaits(wire.rx, win, turn'.n) /\ (m.name = "message" => m.of = turn'.n))  BY <1>2
    <3>2. wire'.rx = Append(wire.rx, m)  BY <1>2
    <3>3. Awaits(Append(wire.rx, m), win, turn'.n)  BY <1>a, <3>1, AwaitsBehind
    <3> QED  BY <3>2, <3>3
  <2>4. wire.up /\ ~wire.watched => win.said = 0 /\ Silent(wire'.rx)  BY <1>0, <1>2 DEF Following
  <2>5. win.said <= Len(win.bubbles) /\ (win.said # 0 => win.bubbles[win.said].who = "groow")  BY <1>0 DEF Following
  <2> QED  BY <1>2, <2>2, <2>3, <2>4, <2>5 DEF Following
<1>3. CASE Begin
  <2> DEFINE e == [name |-> "turn_start", of |-> turns + 1, kind |-> Head(queue)]
  <2>1. e \in Messages
    <3>0. queue \in Seq(Kinds) /\ queue # <<>> /\ turns \in Nat  BY <1>3, Parts DEF Begin
    <3>1. turns + 1 \in Nat /\ Head(queue) \in Kinds  BY ONLY <3>0, HeadTailProperties
    <3> QED  BY <3>1, ToAnnounce
  <2>2. Announce(e) /\ win' = win  BY <1>3 DEF Begin
  <2>3. Bound(e) /\ e.name # "turn_end"  BY DEF Bound
  <2> HIDE DEF e
  <2> QED  BY <1>2, <2>1, <2>2, <2>3, SaidToIt
<1>4. CASE Answer
  <2> DEFINE e == [name |-> "message", of |-> turn.n, kind |-> turn.kind]
  <2>1. e \in Messages  BY Parts, ToAnnounce
  <2>2. Announce(e) /\ win' = win /\ turn # None  BY <1>4 DEF Answer
  <2>3. e.name = "message" /\ e.of = turn.n  OBVIOUS
  <2>4. turn'.n = turn.n  BY <1>4 DEF Answer, TypeOK
  <2>5. wire.up /\ wire.watched => Awaits(wire.rx, win, turn'.n)  BY <1>0, <2>2, <2>4 DEF Following
  <2> HIDE DEF e
  <2> QED  BY <1>2, <2>1, <2>2, <2>3, <2>4, <2>5, SaidToIt
<1>5. CASE Finish
  <2> DEFINE e == [name |-> "turn_end", of |-> turn.n, kind |-> turn.kind]
  <2>1. e \in Messages  BY Parts, ToAnnounce
  <2>2. Announce(e) /\ win' = win /\ turn # None /\ turn' = None  BY <1>5 DEF Finish
  <2>3. e.of = turn.n  OBVIOUS
  <2>4. wire.up /\ wire.watched => Awaits(wire.rx, win, turn.n)  BY <1>0, <2>2 DEF Following
  <2> HIDE DEF e
  <2> QED  BY <1>2, <2>1, <2>2, <2>3, <2>4, SaidToIt
<1>6. CASE Abandon
  <2> DEFINE e == [name |-> "log", of |-> 0, kind |-> turn.kind]
  <2>1. e \in Messages  BY Parts, ToAnnounce
  <2>2. wire' = Told(wire, e) /\ win' = win /\ turn' = None  BY <1>6 DEF Abandon
  <2>3. e.name = "log"  OBVIOUS
  <2> HIDE DEF e
  <2>4. /\ wire'.up = wire.up /\ wire'.watched = wire.watched
        /\ wire'.rx = IF wire.watched /\ wire.up THEN Append(wire.rx, e) ELSE wire.rx
    BY ONLY <1>a, <2>1, <2>2, ToldTo
  <2> QED  BY <1>2, <2>1, <2>2, <2>3, <2>4
<1>7. CASE ThoughtAppend
  <2>1. ~(wire.watched /\ wire.up)  BY <1>7 DEF ThoughtAppend, Lapse
  <2>2. wire' = wire /\ win' = win /\ turn' = turn  BY <1>7, <2>1 DEF ThoughtAppend, Told
  <2> QED  BY <1>0, <2>2 DEF Following
<1>8. CASE Break
  <2> DEFINE m == [name |-> "gone", of |-> 0]
  <2>1. wire'.rx = Append(wire.rx, m) /\ ~wire'.up /\ win' = win /\ turn' = turn
    BY <1>8 DEF Break, TypeOK, Wires
  <2>2. m \in Messages /\ m.name = "gone"  BY DEF Refusals, Messages
  <2> HIDE DEF m
  <2>3. InLine(wire.rx, win)  BY <1>0 DEF Following
  <2>4. InLine(Append(wire.rx, m), win)  BY <1>a, <2>2, <2>3, InLineBehind
  <2> QED  BY <1>0, <2>1, <2>4 DEF Following
<1>9. CASE Top /\ Connect
  <2>1. wire'.rx = <<>> /\ ~wire'.watched /\ win.said = 0
    BY <1>9 DEF Connect, Sent, Lapse
  <2>2. Says(win', win)
    <3> DEFINE w == [win EXCEPT !.loading = @ \/ win.bubbles = <<>>, !.connected = TRUE]
    <3>1. win \in Windows /\ w \in Windows /\ w.bubbles = win.bubbles /\ w.said = win.said  BY Parts DEF Windows
    <3>2. win' = Push(w, Note)  BY <1>9 DEF Connect
    <3> HIDE DEF w
    <3>3. Says(w, win)  BY <3>1, Unseen
    <3>4. Says(Push(w, Note), w) /\ Push(w, Note) \in Windows  BY <3>1, PushShows, NotesAreBubbles DEF Says
    <3> QED  BY <3>1, <3>2, <3>3, <3>4, OneAfterAnother
  <2>3. win'.said = 0 /\ win'.said <= Len(win'.bubbles)
    BY <1>0, <2>1, <2>2 DEF Says, Following
  <2>4. InLine(wire'.rx, win') /\ Silent(wire'.rx)  BY <2>1, <2>3 DEF InLine, Silent
  <2> QED  BY <2>1, <2>3, <2>4 DEF Following
<1>10. CASE FromCore
  <2> DEFINE m == Head(wire.rx)
  <2>1. /\ wire.rx # <<>> /\ wire'.rx = Tail(wire.rx) /\ wire'.up = wire.up /\ wire'.watched = wire.watched
        /\ turn' = turn
    BY <1>10, Reading DEF FromCore, Key
  <2>2. m \in Messages /\ m = wire.rx[1] /\ 1 \in DOMAIN wire.rx
        /\ \A i \in DOMAIN wire'.rx : i + 1 \in DOMAIN wire.rx /\ wire'.rx[i] = wire.rx[i + 1]
    BY <1>a, <2>1, Ahead
  <2>3. win \in Windows /\ win' \in Windows  BY DEF TypeOK
  <2>4. win.said <= Len(win.bubbles)  BY <1>0 DEF Following
  <2>5. /\ win'.said <= Len(win'.bubbles)
        /\ win'.said # 0 => win'.bubbles[win'.said].who = "groow"
        /\ Stays(win', win, m)
        /\ win'.said # 0 => m.name = "message" \/ win.said # 0
    <3>1. CASE m.name = "message"
      <4>1. m \in Events  BY <2>2, <3>1 DEF Replies, Refusals, Messages
      <4>2. win' = OnEvent(win, m)  BY <1>10, <3>1 DEF FromCore
      <4> HIDE DEF m
      <4>3. win'.said = Len(win'.bubbles) /\ win'.bubbles[win'.said] = Bubble("groow", m.of, 0)
        BY <2>3, <3>1, <4>1, <4>2, Heard
      <4>4. Len(win'.bubbles) \in Nat  BY <2>3, LenProperties DEF Windows
      <4> QED  BY <3>1, <4>3, <4>4 DEF Stays, OfSaid, Bubble
    <3>2. CASE Bound(m)
      <4>1. m \in Events  BY <2>2, <3>2 DEF Bound, Replies, Refusals, Messages
      <4>2. win' = OnEvent(win, m)  BY <1>10, <3>2 DEF FromCore, Bound
      <4> HIDE DEF m
      <4>3. win'.said = 0  BY <2>3, <3>2, <4>1, <4>2, Heard
      <4>4. Len(win'.bubbles) \in Nat  BY <2>3, LenProperties DEF Windows
      <4> QED  BY <4>3, <4>4 DEF Stays
    <3>3. CASE ~Bound(m) /\ m.name # "message"
      <4>1. Says(win', win)  BY <1>10, <3>3, ReadSays
      <4>2. /\ win'.said <= Len(win'.bubbles)
            /\ win'.said # 0 => win.said # 0 /\ win'.bubbles[win'.said] = win.bubbles[win.said]
        BY <2>4, <4>1 DEF Says
      <4>3. win.said # 0 => win.bubbles[win.said].who = "groow"  BY <1>0 DEF Following
      <4> QED  BY <3>3, <4>2, <4>3 DEF Stays, OfSaid
    <3> QED  BY <3>1, <3>2, <3>3
  <2> HIDE DEF m
  <2>6. InLine(wire'.rx, win')
    <3>1. InLine(wire.rx, win)  BY <1>0 DEF Following
    <3>2. Stays(win', win, Head(wire.rx))  BY <2>5 DEF m
    <3>3. InLine(Tail(wire.rx), win')  BY <1>a, <2>1, <3>1, <3>2, InLineAhead
    <3> QED  BY <2>1, <3>3
  <2>7. wire.up /\ wire.watched /\ turn # None => Awaits(wire'.rx, win', turn.n)
    <3> SUFFICES ASSUME wire.up, wire.watched, turn # None PROVE Awaits(wire'.rx, win', turn.n)
      OBVIOUS
    <3>1. Awaits(wire.rx, win, turn.n)  BY <1>0 DEF Following
    <3>2. Stays(win', win, Head(wire.rx))  BY <2>5 DEF m
    <3>3. Awaits(Tail(wire.rx), win', turn.n)  BY <1>a, <2>1, <3>1, <3>2, AwaitsAhead
    <3> QED  BY <2>1, <3>3
  <2>8. wire.up /\ ~wire.watched => win'.said = 0 /\ Silent(wire'.rx)
    <3> SUFFICES ASSUME wire.up, ~wire.watched PROVE win'.said = 0 /\ Silent(wire'.rx)
      OBVIOUS
    <3>1. win.said = 0 /\ Silent(wire.rx)  BY <1>0 DEF Following
    <3>2. m.name # "message"  BY <2>2, <3>1 DEF Silent
    <3> QED  BY <2>2, <2>5, <3>1, <3>2 DEF Silent
  <2> QED  BY <2>1, <2>5, <2>6, <2>7, <2>8 DEF Following
<1>11. ASSUME NEW r \in wire.asked, Handle(r) PROVE Following'
  <2>1. wire.up  BY DEF Connection
  <2>2. /\ win' = win /\ turn' = turn /\ wire'.up = wire.up /\ wire'.watched = (wire.watched \/ r.op = "watch")
        /\ \E m \in Messages : wire'.rx = Append(wire.rx, m) /\ m.name \in {"reply", "failed"}
    BY <1>11, Handled
  <2>3. PICK m \in Messages : wire'.rx = Append(wire.rx, m) /\ m.name \in {"reply", "failed"}  BY <2>2
  <2>4. InLine(wire'.rx, win)
    <3>1. InLine(wire.rx, win)  BY <1>0 DEF Following
    <3>2. InLine(Append(wire.rx, m), win)  BY <1>a, <2>3, <3>1, InLineBehind
    <3> QED  BY <2>3, <3>2
  <2>5. Silent(wire.rx) => Silent(wire'.rx)
    <3>1. \A i \in DOMAIN wire'.rx : wire'.rx[i] = m \/ (i \in DOMAIN wire.rx /\ wire'.rx[i] = wire.rx[i])
      <4>1. wire.rx \in Seq(Messages) /\ wire'.rx = Append(wire.rx, m)  BY <1>a, <2>3
      <4> QED  BY ONLY <4>1, Behind
    <3> QED  BY <2>3, <3>1 DEF Silent
  <2>6. turn # None => Awaits(wire'.rx, win, turn.n)
    <3> SUFFICES ASSUME turn # None PROVE Awaits(wire'.rx, win, turn.n)
      OBVIOUS
    <3>1. CASE wire.watched
      <4>1. Awaits(wire.rx, win, turn.n)  BY <1>0, <2>1, <3>1 DEF Following
      <4>2. Awaits(Append(wire.rx, m), win, turn.n)  BY <1>a, <2>3, <4>1, AwaitsBehind
      <4> QED  BY <2>3, <4>2
    <3>2. CASE ~wire.watched
      <4>1. win.said = 0 /\ Silent(wire'.rx)  BY <1>0, <2>1, <2>5, <3>2 DEF Following
      <4> QED  BY <4>1 DEF Awaits, Silent
    <3> QED  BY <3>1, <3>2
  <2>7. ~wire'.watched => win.said = 0 /\ Silent(wire'.rx)
    BY <1>0, <2>1, <2>2, <2>5 DEF Following
  <2>8. win.said <= Len(win.bubbles) /\ (win.said # 0 => win.bubbles[win.said].who = "groow")  BY <1>0 DEF Following
  <2> QED  BY <2>1, <2>2, <2>4, <2>6, <2>7, <2>8 DEF Following
<1> QED
  BY <1>1, <1>3, <1>4, <1>5, <1>6, <1>7, <1>8, <1>9, <1>10, <1>11 DEF Next, Core, Window, Top

-----------------------------------------------------------------------------
(* The theorems.                                                           *)

LEMMA First ==
    ASSUME Init
    PROVE  Inv /\ Runs /\ Follows
<1>1. Past \in Nat /\ MaxInputs \in Nat /\ MaxTwists \in Nat  BY ViewAssumption
<1>2. log \in Seq([of : Nat, role : Roles]) /\ Len(log) \in Nat
  <2>1. [of |-> 0, role |-> "user"] \in [of : Nat, role : Roles]  BY DEF Roles
  <2>2. log \in [1..Past -> [of : Nat, role : Roles]]  BY <2>1 DEF Init
  <2>3. log \in Seq([of : Nat, role : Roles])  BY ONLY <1>1, <2>2, SeqDef
  <2> QED  BY <2>3, LenProperties
<1>3. TypeOK
  BY <1>1, <1>2, EmptySeq DEF Init, TypeOK, Windows, Wires, None, Kinds, Lapses
<1>4. Numbers /\ Connection /\ Stamps
  <2>1. /\ pend.history = 0 /\ pend.older = 0 /\ ~link.open /\ wire.asked = {} /\ wire.rx = <<>> /\ ~wire.up
        /\ win.oldest = 0
    BY DEF Init
  <2>2. Numbers  BY <2>1 DEF Numbers
  <2>3. Connection  BY <2>1 DEF Connection
  <2>4. Stamps  BY <1>2, <2>1 DEF Stamps
  <2> QED  BY <2>2, <2>3, <2>4
<1>5. IsARun(win.bubbles) /\ Asked /\ OnItsWay
  BY DEF Init, IsARun, Asked, OnItsWay
<1>6. Following
  <2>1. Len(win.bubbles) = 0  BY EmptySeq DEF Init
  <2> QED  BY <2>1 DEF Init, Following, InLine
<1> QED  BY <1>3, <1>4, <1>5, <1>6 DEF Inv, Runs, Follows

\* What the window knows has its type, and every id and every stamp on the way is one that was
\* given out: the inductive invariant the others rest on.
THEOREM WhatIsOnTheWay == Spec => []Inv
<1>1. Init => Inv  BY First
<1>2. Inv /\ [Next]_vars => Inv'
  BY TypeStep, NumbersStep, ConnectionStep, StampsStep DEF Inv
<1> QED  BY <1>1, <1>2, PTL DEF Spec

\* As long as no page was asked for while the first was awaited and none came above a gap, what
\* is on screen of the journal is a run of it: on top, in order, each record once, whatever came
\* live, was trimmed or cleared in between (history in state.rs, recall_before in app.rs).
THEOREM TheJournalIsShownInOrder == Spec => []HistoryIsARun
<1>1. Init => Runs  BY First
<1>2. Inv /\ Runs /\ [Next]_vars => Runs'
  BY TypeStep, RunsStep DEF Inv
<1>3. Runs => HistoryIsARun  BY DEF Runs, HistoryIsARun
<1> QED  BY <1>1, <1>2, <1>3, WhatIsOnTheWay, PTL DEF Spec

\* As long as nothing led the window astray, the end of a turn corrects that turn's own answer,
\* however many bubbles the window keeps and however far behind the core it reads (turn_end).
THEOREM TheAnswerThatEndsIsItsOwn == Spec => []EndCorrectsItsOwn
<1>1. Init => Follows  BY First
<1>2. Inv /\ Follows /\ [Next]_vars => Follows'
  BY TypeStep, FollowsStep DEF Inv
<1>3. Inv /\ Follows => EndCorrectsItsOwn
  <2> SUFFICES ASSUME TypeOK, Following, wire.rx # <<>>, Head(wire.rx).name = "turn_end", win.said \in DOMAIN win.bubbles
               PROVE  win.bubbles[win.said].who = "groow" /\ win.bubbles[win.said].of = Head(wire.rx).of
    BY DEF Inv, Follows, EndCorrectsItsOwn, SaidIsItsOwn
  <2>1. win.said # 0
    <3>1. DOMAIN win.bubbles = 1..Len(win.bubbles) /\ Len(win.bubbles) \in Nat  BY Parts, LenProperties DEF Windows
    <3> QED  BY <3>1
  <2>2. 1 \in DOMAIN wire.rx /\ Head(wire.rx) = wire.rx[1] /\ DOMAIN wire.rx = 1..Len(wire.rx)
    BY Parts, Ahead
  <2>3. \A k \in DOMAIN wire.rx : k < 1 => ~Bound(wire.rx[k])  BY <2>2
  <2>4. wire.rx[1].of = OfSaid(win)  BY <2>1, <2>2, <2>3 DEF Following, InLine
  <2> QED  BY <2>1, <2>2, <2>4 DEF Following, OfSaid
<1> QED  BY <1>1, <1>2, <1>3, WhatIsOnTheWay, PTL DEF Spec

================================================================================
