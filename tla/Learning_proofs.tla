--------------------------- MODULE Learning_proofs ---------------------------
(***************************************************************************)
(* What a night makes permanent is what it measured, and no turn that was  *)
(* answered is gone past without becoming practice: proved for any day,    *)
(* any number of passes and requests, and whatever goes wrong.             *)
(*                                                                         *)
(* Of the night: learning is one priority, and among equals the first      *)
(* asked is done first.  So when the brain comes to the request of a pass  *)
(* everything asked by earlier ones is over, and nothing but somebody's    *)
(* words comes between the measurement and the request to merge.           *)
(*                                                                         *)
(* Of the day: turns are felt oldest first, so what is felt is always all  *)
(* there is up to some turn; the harvest reads what is felt beyond the     *)
(* mark, and moves the mark only when everything it found is written.  A   *)
(* pass that is stopped in between leaves the mark where it was.           *)
(***************************************************************************)
EXTENDS Learning, TLAPS, FiniteSetTheorems, SequenceTheorems

\* A list, whatever it is of.
IsList(s) == \E S : s \in Seq(S)

AllWords(s) == \A i \in 1..Len(s) : s[i].kind = "generate"

\* A pass that waits for the brain, and a brain that learns nothing at the moment.
Waiting == {"training", "probing_before", "probing_after", "merging"}
Awaits(p) == p.steps # <<>> /\ p.steps[1] \in Waiting
Calm == worker.at \in {"idle", "generate"}

\* The second measurement is the last step but one, and the merge the last; what waits is
\* the step the pass is at.
LastSteps(s, n) ==
  \A i \in 1..n :
     /\ s[i] \in {"probe_after", "probing_after"} => n = i + 1 /\ s[i + 1] = "merge"
     /\ s[i] \in {"merge", "merging"} => i = n
     /\ s[i] \in Waiting => i = 1
StepsOK(s) == IsList(s) /\ LastSteps(s, Len(s))

FitsQueue(job) ==
  /\ DOMAIN job = {"kind", "priority", "mine", "limit", "seen"}
  /\ job.kind \in {"generate", "probe", "train", "consolidate", "discard"}
  /\ job.priority <= 8 /\ job.mine \in BOOLEAN /\ (job.mine => job.kind # "generate")
Shape ==
  /\ DOMAIN pass = {"steps", "rows", "newest", "before", "after", "limit"} /\ StepsOK(pass.steps)
  /\ DOMAIN worker = {"at", "job", "took"} /\ DOMAIN worker.job = {"kind", "priority", "mine", "limit", "seen"}
  /\ IsList(queue)
  /\ \A i \in 1..Len(queue) : FitsQueue(queue[i])

\* The request of the pass that waits is the last there is for learning, waiting or at work.
OneAsks ==
  /\ \A i \in 1..Len(queue) : queue[i].mine =>
        Awaits(pass) /\ ~worker.job.mine /\ \A j \in (i + 1)..Len(queue) : queue[j].kind = "generate"
  /\ worker.job.mine => Awaits(pass) /\ AllWords(queue)

\* From the second measurement on, in the pass and then in its request, the overlay is what it was.
MeasuredIsThere ==
  /\ pass.after.known => \/ pass.steps = <<>>
                         \/ pass.steps[1] = "merging"
                         \/ /\ pass.steps[1] = "merge"
                            /\ Calm /\ AllWords(queue) /\ mem.overlay = pass.after.overlay
  /\ \A i \in 1..Len(queue) : queue[i].kind = "consolidate" /\ queue[i].seen.known =>
        Calm /\ mem.overlay = queue[i].seen.overlay /\ \A j \in 1..(i - 1) : queue[j].kind = "generate"

Inv == Shape /\ OneAsks /\ MeasuredIsThere /\ ComparedIsMerged

------------------------------------------------------------------------------
(* Lists *)

\* What is left when the first is taken.
LEMMA OneLess ==
  ASSUME NEW s, IsList(s), s # <<>>
  PROVE  /\ IsList(Tail(s)) /\ Len(s) \in Nat \ {0} /\ Len(Tail(s)) = Len(s) - 1
         /\ \A i \in 1..Len(Tail(s)) : Tail(s)[i] = s[i + 1] /\ i + 1 \in 1..Len(s)
         /\ Head(s) = s[1] /\ 1 \in 1..Len(s)
<1>1. PICK S : s \in Seq(S)  BY DEF IsList
<1>2. Tail(s) \in Seq(S) /\ Len(s) \in Nat \ {0} /\ Len(Tail(s)) = Len(s) - 1
  BY <1>1, HeadTailProperties, EmptySeq
<1>3. \A i \in 1..Len(Tail(s)) : Tail(s)[i] = s[i + 1]  BY <1>1, HeadTailProperties
<1>4. Head(s) = s[1]  BY <1>1, HeadTailProperties
<1>5. QED  BY <1>2, <1>3, <1>4 DEF IsList

\* Something put in at a place: what was before it stays, what was behind it moves on.
LEMMA PutIn ==
  ASSUME NEW s, NEW x, IsList(s), NEW n \in 1..(Len(s) + 1)
  PROVE  LET t == InsertAt(s, n, x) IN
           /\ IsList(t) /\ Len(s) \in Nat /\ Len(t) = Len(s) + 1
           /\ t[n] = x
           /\ \A i \in 1..(n - 1) : t[i] = s[i]
           /\ \A i \in (n + 1)..Len(t) : t[i] = s[i - 1]
<1>1. PICK S : s \in Seq(S)  BY DEF IsList
<1> DEFINE T == S \union {x}
           a == SubSeq(s, 1, n - 1)
           b == SubSeq(s, n, Len(s))
<1>2. s \in Seq(T) /\ <<x>> \in Seq(T) /\ Len(<<x>>) = 1 /\ <<x>>[1] = x  BY <1>1, SeqMonotonic
<1>3. Len(s) \in Nat /\ \A i \in 1..Len(s) : s[i] \in T  BY <1>2, LenProperties, ElementOfSeq
<1>4. a \in Seq(T) /\ Len(a) = n - 1 /\ \A i \in 1..(n - 1) : a[i] = s[i]
  <2>1. \A i \in 1..(n - 1) : s[i] \in T  BY <1>3
  <2>2. 1 \in Int /\ n - 1 \in Int  BY <1>3
  <2>3. /\ a \in Seq(T) /\ Len(a) = IF 1 <= n - 1 THEN (n - 1) - 1 + 1 ELSE 0
        /\ \A i \in 1..((n - 1) - 1 + 1) : a[i] = s[1 + i - 1]
    BY <2>1, <2>2, SubSeqProperties
  <2>4. QED  BY <1>3, <2>3
<1>5. b \in Seq(T) /\ Len(b) = Len(s) - n + 1 /\ \A i \in 1..(Len(s) - n + 1) : b[i] = s[n + i - 1]
  <2>1. \A i \in n..Len(s) : s[i] \in T  BY <1>3
  <2>2. n \in Int /\ Len(s) \in Int  BY <1>3
  <2>3. /\ b \in Seq(T) /\ Len(b) = IF n <= Len(s) THEN Len(s) - n + 1 ELSE 0
        /\ \A i \in 1..(Len(s) - n + 1) : b[i] = s[n + i - 1]
    BY <2>1, <2>2, SubSeqProperties
  <2>4. QED  BY <1>3, <2>3
<1> DEFINE c == a \o <<x>>
<1>6. c \in Seq(T) /\ Len(c) = n /\ c[n] = x /\ \A i \in 1..(n - 1) : c[i] = s[i]
  <2>1. /\ c \in Seq(T) /\ Len(c) = Len(a) + Len(<<x>>)
        /\ \A i \in 1..(Len(a) + Len(<<x>>)) : c[i] = IF i <= Len(a) THEN a[i] ELSE <<x>>[i - Len(a)]
    BY <1>2, <1>4, ConcatProperties
  <2> HIDE DEF a, c
  <2>2. n \in Nat /\ n >= 1 /\ Len(a) = n - 1 /\ Len(<<x>>) = 1 /\ <<x>>[1] = x  BY <1>2, <1>3, <1>4
  <2> DEFINE y == <<x>>
  <2> HIDE DEF y
  <2>3. n \in 1..(Len(a) + Len(y)) /\ ~(n <= Len(a)) /\ n - Len(a) = 1 /\ y[1] = x  BY <2>2 DEF y
  <2>4. c[n] = x  BY <2>1, <2>3 DEF y
  <2>5. \A i \in 1..(n - 1) : i \in 1..(Len(a) + Len(y)) /\ i <= Len(a)  BY <2>2 DEF y
  <2>9. \A i \in 1..(Len(a) + Len(y)) : i <= Len(a) => c[i] = a[i]  BY <2>1 DEF y
  <2>6. ASSUME NEW i \in 1..(n - 1) PROVE c[i] = s[i]
    <3>1. c[i] = a[i]  BY <2>5, <2>9
    <3>2. a[i] = s[i]  BY <1>4
    <3>3. QED  BY <3>1, <3>2
  <2>7. Len(c) = n  BY <2>1, <2>2
  <2>8. QED  BY <2>1, <2>4, <2>6, <2>7
<1> DEFINE t == c \o b
<1>7. /\ t \in Seq(T) /\ Len(t) = Len(c) + Len(b)
      /\ \A i \in 1..(Len(c) + Len(b)) : t[i] = IF i <= Len(c) THEN c[i] ELSE b[i - Len(c)]
  <2>1. b \in Seq(T) /\ c \in Seq(T)  BY <1>5, <1>6
  <2> HIDE DEF a, b, c
  <2>2. QED  BY <2>1, ConcatProperties
<1>8. InsertAt(s, n, x) = t  BY DEF InsertAt
<1> HIDE DEF a, b, c, t
<1>9. Len(t) = Len(s) + 1 /\ t[n] = x /\ \A i \in 1..(n - 1) : t[i] = s[i]  BY <1>3, <1>5, <1>6, <1>7
<1>10. \A i \in (n + 1)..Len(t) : t[i] = s[i - 1]
  <2> SUFFICES ASSUME NEW i \in (n + 1)..Len(t) PROVE t[i] = s[i - 1]  OBVIOUS
  <2>1. i \in 1..(Len(c) + Len(b)) /\ ~(i <= Len(c)) /\ i - Len(c) \in 1..(Len(s) - n + 1)
    BY <1>3, <1>5, <1>6, <1>7, <1>9
  <2>2. t[i] = b[i - n]  BY <1>6, <1>7, <2>1
  <2>3. b[i - n] = s[n + (i - n) - 1]  BY <1>5, <1>6, <2>1
  <2>4. QED  BY <1>3, <2>2, <2>3
<1>11. IsList(t)  BY <1>7 DEF IsList
<1>12. QED  BY <1>3, <1>8, <1>9, <1>10, <1>11

\* The queue takes a request somewhere, and one for learning at its end.
LEMMA Queued ==
  ASSUME NEW q, NEW job, IsList(q), \A i \in 1..Len(q) : q[i].priority <= 8
  PROVE  \E n \in 1..(Len(q) + 1) : Enqueue(q, job) = InsertAt(q, n, job) /\ (job.priority = 8 => n = Len(q) + 1)
<1>1. PICK S : q \in Seq(S)  BY DEF IsList
<1>2. Len(q) \in Nat /\ DOMAIN q = 1..Len(q)  BY <1>1, LenProperties
<1> DEFINE ahead == {i \in DOMAIN q : q[i].priority <= job.priority}
<1>3. IsFiniteSet(DOMAIN q) /\ Cardinality(DOMAIN q) = Len(q)
  <2>1. 1 \in Int /\ Len(q) \in Int /\ Len(q) >= 0  BY <1>2
  <2>2. IsFiniteSet(1..Len(q)) /\ Cardinality(1..Len(q)) = IF 1 > Len(q) THEN 0 ELSE Len(q) - 1 + 1
    BY <2>1, FS_Interval
  <2>3. QED  BY <1>2, <2>1, <2>2
<1>4. Cardinality(ahead) \in Nat /\ Cardinality(ahead) <= Len(q)
  BY <1>3, FS_Subset, FS_CardinalityType
<1>5. job.priority = 8 => ahead = DOMAIN q  BY <1>2
<1>6. Enqueue(q, job) = InsertAt(q, Cardinality(ahead) + 1, job)  BY DEF Enqueue
<1> HIDE DEF ahead
<1>7. Cardinality(ahead) + 1 \in 1..(Len(q) + 1)  BY <1>2, <1>4
<1>8. QED  BY <1>2, <1>3, <1>5, <1>6, <1>7

\* The steps of a pass, taken one by one: over, and under way.
LEMMA LastStepsGoOn ==
  ASSUME NEW s, NEW n \in Nat, n # 0, LastSteps(s, n), NEW t, \A i \in 1..(n - 1) : t[i] = s[i + 1]
  PROVE  /\ LastSteps(t, n - 1)
         /\ s[1] \in {"merge", "merging"} => n = 1
         /\ s[1] = "probing_after" => n = 2 /\ t[1] = "merge"
         /\ n > 1 => t[1] \notin Waiting
<1>1. LastSteps(t, n - 1)
  <2> SUFFICES ASSUME NEW i \in 1..(n - 1)
               PROVE  /\ t[i] \in {"probe_after", "probing_after"} => n - 1 = i + 1 /\ t[i + 1] = "merge"
                      /\ t[i] \in {"merge", "merging"} => i = n - 1
                      /\ t[i] \in Waiting => i = 1
    BY DEF LastSteps
  <2>1. t[i] = s[i + 1] /\ i + 1 \in 1..n  OBVIOUS
  <2>2. /\ s[i + 1] \in {"probe_after", "probing_after"} => n = i + 1 + 1 /\ s[i + 1 + 1] = "merge"
        /\ s[i + 1] \in {"merge", "merging"} => i + 1 = n
        /\ s[i + 1] \notin Waiting
    BY <2>1 DEF LastSteps
  <2>3. n = i + 1 + 1 => t[i + 1] = s[i + 1 + 1]  OBVIOUS
  <2>4. QED  BY <2>1, <2>2, <2>3
<1>2. 1 \in 1..n  OBVIOUS
<1>3. s[1] = "probing_after" => n = 2 /\ s[2] = "merge"  BY <1>2 DEF LastSteps
<1>4. n > 1 => t[1] = s[2] /\ s[2] \notin Waiting  BY DEF LastSteps
<1>5. QED  BY <1>1, <1>2, <1>3, <1>4 DEF LastSteps

LEMMA LastStepsUnderWay ==
  ASSUME NEW s, NEW n \in Nat, n # 0, LastSteps(s, n), NEW t, \A i \in 2..n : t[i] = s[i],
         \/ t[1] \notin {"probe_after", "probing_after", "merge", "merging"}
         \/ s[1] = "probe_after" /\ t[1] = "probing_after"
         \/ s[1] = "merge" /\ t[1] = "merging"
  PROVE  LastSteps(t, n)
<1> SUFFICES ASSUME NEW i \in 1..n
             PROVE  /\ t[i] \in {"probe_after", "probing_after"} => n = i + 1 /\ t[i + 1] = "merge"
                    /\ t[i] \in {"merge", "merging"} => i = n
                    /\ t[i] \in Waiting => i = 1
  BY DEF LastSteps
<1>1. /\ s[i] \in {"probe_after", "probing_after"} => n = i + 1 /\ s[i + 1] = "merge"
      /\ s[i] \in {"merge", "merging"} => i = n
      /\ s[i] \in Waiting => i = 1
  BY DEF LastSteps
<1>2. n = i + 1 => t[i + 1] = s[i + 1]  OBVIOUS
<1>3. CASE i = 1  BY <1>1, <1>2, <1>3
<1>4. CASE i # 1
  <2>1. t[i] = s[i]  BY <1>4
  <2>2. QED  BY <1>1, <1>2, <2>1
<1>5. QED  BY <1>3, <1>4

\* No list is as long as none but none.
LEMMA NoneIsEmpty == ASSUME NEW s, IsList(s) PROVE Len(s) = 0 <=> s = <<>>
<1>1. PICK S : s \in Seq(S)  BY DEF IsList
<1>2. QED  BY <1>1, EmptySeq

\* One more in front.
LEMMA InFront ==
  ASSUME NEW s, IsList(s), NEW x
  PROVE  LET t == <<x>> \o s IN
           /\ IsList(t) /\ Len(s) \in Nat /\ Len(t) = Len(s) + 1 /\ t[1] = x
           /\ \A i \in 2..(Len(s) + 1) : t[i] = s[i - 1]
<1>1. PICK S : s \in Seq(S)  BY DEF IsList
<1> DEFINE T == S \union {x}
<1>2. s \in Seq(T)  BY <1>1, SeqMonotonic
<1>3. <<x>> \in Seq(T) /\ Len(<<x>>) = 1 /\ <<x>>[1] = x  OBVIOUS
<1>4. Len(s) \in Nat  BY <1>2, LenProperties
<1> DEFINE u == <<x>>
<1> HIDE DEF u, T
<1>5. /\ u \o s \in Seq(T) /\ Len(u \o s) = Len(u) + Len(s)
      /\ \A i \in 1..(Len(u) + Len(s)) : (u \o s)[i] = IF i <= Len(u) THEN u[i] ELSE s[i - Len(u)]
  BY <1>2, <1>3, ConcatProperties DEF u
<1>6. Len(u) = 1 /\ u[1] = x  BY <1>3 DEF u
<1> DEFINE t == u \o s
<1>7. t \in Seq(T) /\ Len(t) = 1 + Len(s) /\ \A i \in 1..(1 + Len(s)) : t[i] = IF i <= 1 THEN u[i] ELSE s[i - 1]
  BY <1>5, <1>6
<1> HIDE DEF t
<1>8. t[1] = x /\ \A i \in 2..(Len(s) + 1) : t[i] = s[i - 1]  BY <1>4, <1>6, <1>7
<1>9. IsList(t)  BY <1>7 DEF IsList
<1>10. QED  BY <1>4, <1>7, <1>8, <1>9 DEF t, u

LEMMA StepsGoOn ==
  ASSUME NEW s, StepsOK(s), s # <<>>
  PROVE  /\ Head(s) = s[1] /\ StepsOK(Tail(s))
         /\ s[1] \in {"merge", "merging"} => Tail(s) = <<>>
         /\ s[1] = "probing_after" => Tail(s) # <<>> /\ Tail(s)[1] = "merge"
         /\ Tail(s) # <<>> => Tail(s)[1] \notin Waiting
<1> DEFINE t == Tail(s)
           n == Len(s)
<1>1. /\ IsList(t) /\ n \in Nat /\ n # 0 /\ Len(t) = n - 1
      /\ \A i \in 1..Len(t) : t[i] = s[i + 1]
      /\ Head(s) = s[1] /\ LastSteps(s, n)
  BY OneLess DEF StepsOK
<1>2. Len(t) = 0 <=> t = <<>>  BY <1>1, NoneIsEmpty
<1> HIDE DEF t, n
<1>3. /\ LastSteps(t, n - 1)
      /\ s[1] \in {"merge", "merging"} => n = 1
      /\ s[1] = "probing_after" => n = 2 /\ t[1] = "merge"
      /\ n > 1 => t[1] \notin Waiting
  BY <1>1, LastStepsGoOn
<1>4. StepsOK(t)  BY <1>1, <1>3 DEF StepsOK
<1>5. /\ s[1] \in {"merge", "merging"} => t = <<>>
      /\ s[1] = "probing_after" => t # <<>> /\ t[1] = "merge"
      /\ t # <<>> => t[1] \notin Waiting
  BY <1>1, <1>2, <1>3
<1>6. QED  BY <1>1, <1>4, <1>5 DEF t

LEMMA StepsUnderWay ==
  ASSUME NEW s, StepsOK(s), s # <<>>, NEW step,
         \/ step \notin {"probe_after", "probing_after", "merge", "merging"}
         \/ s[1] = "probe_after" /\ step = "probing_after"
         \/ s[1] = "merge" /\ step = "merging"
  PROVE  LET t == <<step>> \o Tail(s) IN StepsOK(t) /\ t # <<>> /\ t[1] = step
<1> DEFINE r == Tail(s)
           t == <<step>> \o r
           n == Len(s)
<1>1. /\ IsList(r) /\ n \in Nat /\ n # 0 /\ Len(r) = n - 1
      /\ \A i \in 1..Len(r) : r[i] = s[i + 1]
      /\ LastSteps(s, n)
  BY OneLess DEF StepsOK
<1> HIDE DEF r, n
<1>2. IsList(t) /\ Len(t) = Len(r) + 1 /\ t[1] = step /\ \A i \in 2..(Len(r) + 1) : t[i] = r[i - 1]
  BY <1>1, InFront
<1>3. Len(t) = 0 <=> t = <<>>  BY <1>2, NoneIsEmpty
<1> HIDE DEF t
<1>4. \A i \in 2..n : t[i] = s[i]
  <2> SUFFICES ASSUME NEW i \in 2..n PROVE t[i] = s[i]  OBVIOUS
  <2>1. i - 1 \in 1..Len(r) /\ i \in 2..(Len(r) + 1)  BY <1>1
  <2>2. t[i] = r[i - 1] /\ r[i - 1] = s[i - 1 + 1]  BY <1>1, <1>2, <2>1
  <2>3. QED  BY <2>2
<1>5. LastSteps(t, n)  BY <1>1, <1>2, <1>4, LastStepsUnderWay
<1>6. Len(t) = n /\ n # 0  BY <1>1, <1>2
<1>7. StepsOK(t) /\ t # <<>>  BY <1>2, <1>3, <1>5, <1>6 DEF StepsOK
<1>8. QED  BY <1>2, <1>7 DEF t, r

------------------------------------------------------------------------------
(* The kinds of step there are *)

PassShape(p) == DOMAIN p = {"steps", "rows", "newest", "before", "after", "limit"} /\ StepsOK(p.steps)
SameBrain == UNCHANGED <<queue, worker, mem>>

\* Life goes on; a pass does what it does without the brain.
Aside == SameBrain /\ UNCHANGED pass
OnItsOwn == /\ SameBrain /\ ~Awaits(pass) /\ ~Awaits(pass') /\ PassShape(pass')
            /\ ~pass'.after.known
\* It asks: of a merge or a drop it says what was measured.
AsksFor ==
  /\ UNCHANGED <<worker, mem>> /\ ~Awaits(pass) /\ Awaits(pass') /\ PassShape(pass') /\ pass'.after = pass.after
  /\ pass.after.known => pass.steps[1] = "merge" /\ pass'.steps[1] = "merging"
  /\ \E kind \in {"train", "probe", "consolidate", "discard"} :
       queue' = Enqueue(queue, [kind |-> kind, priority |-> 8, mine |-> TRUE, limit |-> pass.limit, seen |-> pass.after])
  /\ pass.steps # <<>>
\* Somebody talks.
Talks == /\ UNCHANGED <<pass, worker, mem>>
         /\ queue' = Enqueue(queue, [kind |-> "generate", priority |-> 2, mine |-> FALSE, limit |-> 0, seen |-> Unknown])
\* The brain takes the next thing up.
Begins == /\ UNCHANGED <<pass, mem>> /\ worker = Idle /\ queue # <<>> /\ queue' = Tail(queue)
          /\ worker' = [Idle EXCEPT !.at = FirstStep(Head(queue).kind), !.job = Head(queue)]
\* It goes on with what it learns, or is done with what it did.
Works == /\ UNCHANGED <<pass, queue>> /\ ~Calm /\ ~Calm' /\ worker'.at # "merge"
         /\ DOMAIN worker' = DOMAIN worker /\ worker'.job = worker.job
Ends == /\ UNCHANGED queue /\ worker' = Idle
        /\ \E seen : /\ pass' = IF worker.job.mine THEN Answered(pass, seen) ELSE pass
                     /\ seen.known => mem' = mem /\ seen.overlay = mem.overlay
        /\ Calm => mem' = mem
\* Nobody waits any more; or everything is gone.
IsLeft == /\ UNCHANGED mem /\ pass' = NoPass
          /\ queue' = [i \in DOMAIN queue |-> [queue[i] EXCEPT !.mine = FALSE]]
          /\ worker' = IF worker = Idle THEN Idle ELSE [worker EXCEPT !.job.mine = FALSE]
IsGone == pass' = NoPass /\ queue' = <<>> /\ worker' = Idle

\* The passes as they are laid out.
LEMMA LaidOut == ASSUME NEW name PROVE StepsOK(Steps(name)) /\ Steps(name)[1] = "feel"
<1>1. StepsOK(<<"feel", "harvest", "train">>)
  <2>1. IsList(<<"feel", "harvest", "train">>)
    <3>1. <<"feel", "harvest", "train">> \in Seq({"feel", "harvest", "train"})  OBVIOUS
    <3>2. QED  BY <3>1 DEF IsList
  <2>2. LastSteps(<<"feel", "harvest", "train">>, 3)  BY DEF LastSteps, Waiting
  <2>3. QED  BY <2>1, <2>2 DEF StepsOK
<1>2. StepsOK(<<"feel", "harvest", "probe_before", "train", "probe_after", "merge">>)
  <2> DEFINE s == <<"feel", "harvest", "probe_before", "train", "probe_after", "merge">>
  <2>1. IsList(s)
    <3>1. s \in Seq({"feel", "harvest", "probe_before", "train", "probe_after", "merge"})  OBVIOUS
    <3>2. QED  BY <3>1 DEF IsList
  <2>2. /\ s[1] = "feel" /\ s[2] = "harvest" /\ s[3] = "probe_before" /\ s[4] = "train"
        /\ s[5] = "probe_after" /\ s[6] = "merge" /\ Len(s) = 6
    OBVIOUS
  <2> HIDE DEF s
  <2>3. LastSteps(s, 6)
    <3> SUFFICES ASSUME NEW i \in 1..6
                 PROVE  /\ s[i] \in {"probe_after", "probing_after"} => 6 = i + 1 /\ s[i + 1] = "merge"
                        /\ s[i] \in {"merge", "merging"} => i = 6
                        /\ s[i] \in Waiting => i = 1
      BY DEF LastSteps
    <3>1. i = 1 \/ i = 2 \/ i = 3 \/ i = 4 \/ i = 5 \/ i = 6  OBVIOUS
    <3>2. QED  BY <2>2, <3>1 DEF Waiting
  <2>4. StepsOK(s)  BY <2>1, <2>2, <2>3 DEF StepsOK
  <2>5. QED  BY <2>4 DEF s
<1>3. QED  BY <1>1, <1>2 DEF Steps

\* What a pass makes of an answer.
LEMMA AnsweredIs ==
  ASSUME PassShape(pass), Awaits(pass), NEW seen
  PROVE  LET p == Answered(pass, seen) IN
           /\ PassShape(p) /\ p.steps = Tail(pass.steps)
           /\ p.after = IF pass.steps[1] = "probing_after" THEN (IF pass.before THEN seen ELSE Unknown) ELSE pass.after
<1>1. pass.steps # <<>> /\ Head(pass.steps) = pass.steps[1] /\ StepsOK(Tail(pass.steps))
  BY StepsGoOn DEF PassShape, Awaits
<1>2. CASE pass.steps[1] = "probing_before"
  BY <1>1, <1>2 DEF Answered, Advance, PassShape
<1>3. CASE pass.steps[1] = "probing_after"
  BY <1>1, <1>3 DEF Answered, Advance, PassShape
<1>4. CASE pass.steps[1] \notin {"probing_before", "probing_after"}
  BY <1>1, <1>4 DEF Answered, Advance, PassShape
<1>5. QED  BY <1>2, <1>3, <1>4

\* Every step is of one of these kinds.
LEMMA EveryStepIs ==
  ASSUME Inv, [Next]_vars
  PROVE  Aside \/ OnItsOwn \/ AsksFor \/ Talks \/ Begins \/ Works \/ Ends \/ IsLeft \/ IsGone
<1>0. Shape /\ PassShape(pass) /\ OneAsks /\ MeasuredIsThere  BY DEF Inv, Shape, PassShape
<1>1. ASSUME TakeTurn \/ UNCHANGED vars PROVE Aside
  BY <1>1 DEF TakeTurn, vars, brain, Aside, SameBrain
<1>2. ASSUME StartPass PROVE OnItsOwn
  <2>1. PICK name : pass' = [NoPass EXCEPT !.steps = Steps(name), !.limit = IF name = "nap" THEN NapMax ELSE NightMax]
    BY <1>2 DEF StartPass
  <2>2. pass = NoPass /\ SameBrain  BY <1>2 DEF StartPass, brain, SameBrain
  <2>3. pass'.steps = Steps(name) /\ pass'.after = Unknown
        /\ DOMAIN pass' = {"steps", "rows", "newest", "before", "after", "limit"}
    BY <2>1 DEF NoPass
  <2>4. ~Awaits(pass)  BY <2>2 DEF Awaits, NoPass
  <2>5. ~Awaits(pass') /\ PassShape(pass')  BY <2>3, LaidOut DEF Awaits, PassShape, Waiting
  <2>6. QED  BY <2>2, <2>3, <2>4, <2>5 DEF OnItsOwn, Unknown
<1>3. ASSUME EndPass PROVE OnItsOwn
  <2>1. pass.steps = <<>> /\ pass' = NoPass /\ SameBrain  BY <1>3 DEF EndPass, brain, SameBrain
  <2>2. IsList(<<>>) /\ Len(<<>>) = 0
    <3>1. <<>> \in Seq({}) /\ Len(<<>>) = 0  BY EmptySeq
    <3>2. QED  BY <3>1 DEF IsList
  <2>3. StepsOK(<<>>)  BY <2>2 DEF StepsOK, LastSteps
  <2>4. NoPass.steps = <<>> /\ DOMAIN NoPass = {"steps", "rows", "newest", "before", "after", "limit"}
        /\ NoPass.after = Unknown
    BY DEF NoPass
  <2>5. PassShape(NoPass) /\ ~Awaits(NoPass)  BY <2>3, <2>4 DEF PassShape, Awaits
  <2>6. QED  BY <2>1, <2>4, <2>5 DEF OnItsOwn, Awaits, Unknown
<1>20. ASSUME pass.steps # <<>>, Head(pass.steps) \in {"feel", "feeling", "harvest", "harvesting"},
              NEW step \in {"feeling", "harvesting"},
              /\ DOMAIN pass' = DOMAIN pass /\ pass'.after = pass.after
              /\ \/ pass'.steps = pass.steps \/ pass'.steps = Tail(pass.steps)
                 \/ pass'.steps = <<step>> \o Tail(pass.steps),
              SameBrain
       PROVE  OnItsOwn
  <2>1. Head(pass.steps) = pass.steps[1] /\ StepsOK(Tail(pass.steps))  BY <1>0, <1>20, StepsGoOn DEF PassShape
  <2>2. ~pass.after.known  BY <1>0, <1>20, <2>1 DEF MeasuredIsThere
  <2>3. ~Awaits(pass)  BY <1>20, <2>1 DEF Awaits, Waiting
  <2>4. StepsOK(pass'.steps) /\ ~Awaits(pass')
    <3>1. CASE pass'.steps = pass.steps  BY <1>0, <2>3, <3>1 DEF PassShape, Awaits
    <3>2. CASE pass'.steps = Tail(pass.steps)
      <4>1. Tail(pass.steps) # <<>> => Tail(pass.steps)[1] \notin Waiting  BY <1>0, <1>20, StepsGoOn DEF PassShape
      <4>2. QED  BY <2>1, <3>2, <4>1 DEF Awaits
    <3>3. CASE pass'.steps = <<step>> \o Tail(pass.steps)
      <4>1. step \notin {"probe_after", "probing_after", "merge", "merging"} /\ step \notin Waiting
        BY <1>20 DEF Waiting
      <4>2. StepsOK(pass'.steps) /\ pass'.steps[1] = step  BY <1>0, <1>20, <3>3, <4>1, StepsUnderWay DEF PassShape
      <4>3. QED  BY <4>1, <4>2 DEF Awaits
    <3>4. QED  BY <1>20, <3>1, <3>2, <3>3
  <2>5. PassShape(pass')  BY <1>0, <1>20, <2>4 DEF PassShape
  <2>6. QED  BY <1>20, <2>2, <2>3, <2>4, <2>5 DEF OnItsOwn
<1>4. ASSUME Feel \/ Harvest \/ Felt \/ Harvested PROVE OnItsOwn
  <2>1. SameBrain /\ pass.steps # <<>> /\ Head(pass.steps) \in {"feel", "feeling", "harvest", "harvesting"}
    BY <1>4 DEF Feel, Harvest, Felt, Harvested, At, brain, SameBrain
  <2>2. \/ \E rows : pass' = [Onto("feeling") EXCEPT !.rows = rows]
        \/ \E rows, newest : pass' = [Onto("harvesting") EXCEPT !.newest = newest, !.rows = rows]
        \/ pass' = Advance(pass)
        \/ \E rows : pass' = [pass EXCEPT !.rows = rows]
    <3>1. CASE Feel  BY <3>1 DEF Feel
    <3>2. CASE Harvest  BY <3>2 DEF Harvest
    <3>3. CASE Felt
      <4>1. CASE pass' = Advance(pass)  BY <4>1
      <4>2. CASE \E t : pass' = [pass EXCEPT !.rows = @ \ {t}]  BY <4>2
      <4>3. QED  BY <3>3, <4>1, <4>2 DEF Felt
    <3>4. CASE Harvested
      <4>1. CASE pass' = Advance(pass)  BY <4>1
      <4>2. CASE \E x : pass' = [pass EXCEPT !.rows = @ \ {x}]  BY <4>2
      <4>3. QED  BY <3>4, <4>1, <4>2 DEF Harvested, Write
    <3>5. QED  BY <1>4, <3>1, <3>2, <3>3, <3>4
  <2>3. CASE \E rows : pass' = [Onto("feeling") EXCEPT !.rows = rows]
    <3>1. DOMAIN pass' = DOMAIN pass /\ pass'.after = pass.after /\ pass'.steps = <<"feeling">> \o Tail(pass.steps)
      BY <1>0, <2>3 DEF PassShape, Onto
    <3>2. QED  BY <1>20, <2>1, <3>1
  <2>4. CASE \E rows, newest : pass' = [Onto("harvesting") EXCEPT !.newest = newest, !.rows = rows]
    <3>1. DOMAIN pass' = DOMAIN pass /\ pass'.after = pass.after /\ pass'.steps = <<"harvesting">> \o Tail(pass.steps)
      BY <1>0, <2>4 DEF PassShape, Onto
    <3>2. QED  BY <1>20, <2>1, <3>1
  <2>5. CASE pass' = Advance(pass)
    <3>1. DOMAIN pass' = DOMAIN pass /\ pass'.after = pass.after /\ pass'.steps = Tail(pass.steps)
      BY <1>0, <2>5 DEF PassShape, Advance
    <3>2. QED  BY <1>20, <2>1, <3>1
  <2>6. CASE \E rows : pass' = [pass EXCEPT !.rows = rows]
    <3>1. DOMAIN pass' = DOMAIN pass /\ pass'.after = pass.after /\ pass'.steps = pass.steps
      BY <1>0, <2>6 DEF PassShape
    <3>2. QED  BY <1>20, <2>1, <3>1
  <2>7. QED  BY <2>2, <2>3, <2>4, <2>5, <2>6
<1>21. ASSUME NEW kind \in {"train", "probe", "consolidate", "discard"}, NEW now, NEW step,
              \/ now = "train" /\ step = "training"
              \/ now = "probe_before" /\ step = "probing_before"
              \/ now = "probe_after" /\ step = "probing_after"
              \/ now = "merge" /\ step = "merging",
              At(now), Submit(kind, step)
       PROVE  AsksFor
  <2>1. pass.steps # <<>> /\ pass.steps[1] = now  BY <1>0, <1>21, StepsGoOn DEF At, PassShape
  <2>2. /\ UNCHANGED <<worker, mem>> /\ pass' = [pass EXCEPT !.steps = <<step>> \o Tail(@)]
        /\ queue' = Enqueue(queue, [kind |-> kind, priority |-> 8, mine |-> TRUE, limit |-> pass.limit, seen |-> pass.after])
    BY <1>21 DEF Submit, Onto
  <2>3. StepsOK(<<step>> \o Tail(pass.steps)) /\ <<step>> \o Tail(pass.steps) # <<>>
        /\ (<<step>> \o Tail(pass.steps))[1] = step
    BY <1>0, <1>21, <2>1, StepsUnderWay DEF PassShape
  <2>4. PassShape(pass') /\ pass'.after = pass.after /\ pass'.steps # <<>> /\ pass'.steps[1] = step
    BY <1>0, <2>2, <2>3 DEF PassShape
  <2>5. ~Awaits(pass) /\ Awaits(pass')  BY <1>21, <2>1, <2>4 DEF Awaits, Waiting
  <2>6. pass.after.known => now = "merge" /\ step = "merging"
    BY <1>0, <1>21, <2>1 DEF MeasuredIsThere
  <2>7. QED  BY <1>21, <2>1, <2>2, <2>4, <2>5, <2>6 DEF AsksFor
<1>5. ASSUME AskTrain \/ AskProbe \/ AskMerge PROVE AsksFor
  <2>1. CASE AskTrain  BY <1>21, <2>1 DEF AskTrain
  <2>2. CASE AskProbe  BY <1>21, <2>2 DEF AskProbe
  <2>3. CASE AskMerge  BY <1>21, <2>3 DEF AskMerge
  <2>4. QED  BY <1>5, <2>1, <2>2, <2>3
<1>6. ASSUME Generate PROVE Talks  BY <1>6 DEF Generate, Talks
<1>7. ASSUME Take PROVE Begins  BY <1>7 DEF Take, Begins
<1>22. ~Unknown.known  BY DEF Unknown
<1>8. ASSUME Speak \/ Probe \/ Practise PROVE Works \/ Ends
  <2>1. CASE Speak  BY <1>22, <2>1 DEF Speak, Reply, Ends
  <2>2. CASE Probe  BY <2>2 DEF Probe, Reply, Ends
  <2>3. CASE Practise /\ Reply(Unknown) /\ UNCHANGED mem  BY <1>22, <2>3 DEF Practise, Reply, Ends
  <2>4. CASE Practise /\ ~(Reply(Unknown) /\ UNCHANGED mem)
    <3>1. /\ worker.at = "practise" /\ UNCHANGED <<pass, queue>>
          /\ worker' = [worker EXCEPT !.at = "mark", !.took = Pending(worker.job.limit)]
      BY <2>4 DEF Practise, Doing
    <3>2. DOMAIN worker' = DOMAIN worker /\ worker'.at = "mark" /\ worker'.job = worker.job  BY <1>0, <3>1 DEF Shape
    <3>3. QED  BY <3>1, <3>2 DEF Works, Calm
  <2>5. QED  BY <1>8, <2>1, <2>2, <2>3, <2>4
<1>9. ASSUME MarkConsumed \/ Save \/ Merge \/ Drop PROVE Works \/ Ends
  <2>1. CASE Save  BY <1>22, <2>1 DEF Save, Reply, Ends
  <2>2. CASE MarkConsumed
    <3>1. PICK at \in {"save", "mark"} : \E rest : worker' = [worker EXCEPT !.took = rest, !.at = at]
      BY <2>2 DEF MarkConsumed
    <3>2. worker.at = "mark" /\ UNCHANGED <<pass, queue>>  BY <2>2 DEF MarkConsumed, Doing
    <3>3. DOMAIN worker' = DOMAIN worker /\ worker'.at \in {"save", "mark"} /\ worker'.job = worker.job
      BY <1>0, <3>1 DEF Shape
    <3>4. QED  BY <3>2, <3>3 DEF Works, Calm
  <2>3. CASE Merge \/ Drop
    <3>1. PICK at \in {"out", "in", "clear", "save"} : worker' = [worker EXCEPT !.at = at]
      BY <2>3 DEF Merge, Drop, Then
    <3>2. worker.at \in {"merge", "out", "in", "clear", "drop"} /\ UNCHANGED <<pass, queue>>
      BY <2>3 DEF Merge, Drop, Doing, Then
    <3>3. DOMAIN worker' = DOMAIN worker /\ worker'.at \in {"out", "in", "clear", "save"} /\ worker'.job = worker.job
      BY <1>0, <3>1 DEF Shape
    <3>4. QED  BY <3>2, <3>3 DEF Works, Calm
  <2>4. QED  BY <1>9, <2>1, <2>2, <2>3
<1>10. ASSUME JobFails PROVE Ends
  <2>1. Reply(Unknown) /\ UNCHANGED queue /\ (worker.at # "practise" => UNCHANGED mem)
    BY <1>10 DEF JobFails, Doing
  <2>2. QED  BY <1>22, <2>1 DEF Reply, Ends, Calm
<1>11. ASSUME Stopped PROVE IsLeft  BY <1>11 DEF Stopped, IsLeft
<1>12. ASSUME Crash PROVE IsGone  BY <1>12 DEF Crash, IsGone
<1>13. QED
  BY <1>1, <1>2, <1>3, <1>4, <1>5, <1>6, <1>7, <1>8, <1>9, <1>10, <1>11, <1>12 DEF Next, PassNext, BrainNext

------------------------------------------------------------------------------
(* What the kinds of step leave true *)

\* No list, no pass, and a brain with nothing to do.
LEMMA NothingYet ==
  /\ IsList(<<>>) /\ Len(<<>>) = 0 /\ \A i : i \notin 1..Len(<<>>)
  /\ PassShape(NoPass) /\ NoPass.steps = <<>> /\ ~NoPass.after.known
  /\ Idle.at = "idle" /\ ~Idle.job.mine
  /\ DOMAIN Idle = {"at", "job", "took"} /\ DOMAIN Idle.job = {"kind", "priority", "mine", "limit", "seen"}
<1>1. IsList(<<>>) /\ Len(<<>>) = 0
  <2>1. <<>> \in Seq({}) /\ Len(<<>>) = 0  BY EmptySeq
  <2>2. QED  BY <2>1 DEF IsList
<1>2. StepsOK(<<>>) /\ \A i : i \notin 1..Len(<<>>)  BY <1>1 DEF StepsOK, LastSteps
<1>3. NoPass.steps = <<>> /\ NoPass.after = Unknown
      /\ DOMAIN NoPass = {"steps", "rows", "newest", "before", "after", "limit"}
  BY DEF NoPass
<1>4. Idle.at = "idle" /\ ~Idle.job.mine /\ DOMAIN Idle = {"at", "job", "took"}
      /\ DOMAIN Idle.job = {"kind", "priority", "mine", "limit", "seen"}
  BY DEF Idle
<1>5. QED  BY <1>1, <1>2, <1>3, <1>4 DEF PassShape, Unknown

LEMMA InvInit == Init => Inv
<1> SUFFICES ASSUME Init PROVE Inv  OBVIOUS
<1>1. pass = NoPass /\ queue = <<>> /\ worker = Idle  BY DEF Init
<1>2. QED  BY <1>1, NothingYet DEF PassShape, Inv, Shape, OneAsks, MeasuredIsThere, ComparedIsMerged, Doing

\* The queue with one more in it.
LEMMA GrownQueue ==
  ASSUME Shape, NEW job, queue' = Enqueue(queue, job)
  PROVE  /\ IsList(queue') /\ Len(queue) \in Nat /\ Len(queue') = Len(queue) + 1
         /\ \E n \in 1..(Len(queue) + 1) :
              /\ job.priority = 8 => n = Len(queue) + 1
              /\ queue'[n] = job
              /\ \A i \in 1..(n - 1) : queue'[i] = queue[i]
              /\ \A i \in (n + 1)..Len(queue') : queue'[i] = queue[i - 1]
<1>1. IsList(queue) /\ \A i \in 1..Len(queue) : queue[i].priority <= 8  BY DEF Shape, FitsQueue
<1>2. PICK n \in 1..(Len(queue) + 1) : Enqueue(queue, job) = InsertAt(queue, n, job) /\ (job.priority = 8 => n = Len(queue) + 1)
  BY <1>1, Queued
<1> DEFINE t == InsertAt(queue, n, job)
<1>3. /\ IsList(t) /\ Len(queue) \in Nat /\ Len(t) = Len(queue) + 1
      /\ t[n] = job
      /\ \A i \in 1..(n - 1) : t[i] = queue[i]
      /\ \A i \in (n + 1)..Len(t) : t[i] = queue[i - 1]
  BY <1>1, PutIn
<1>4. queue' = t  BY <1>2
<1> HIDE DEF t
<1>5. QED  BY <1>2, <1>3, <1>4

LEMMA InvStep == Inv /\ [Next]_vars => Inv'
<1> SUFFICES ASSUME Inv, [Next]_vars PROVE Inv'  OBVIOUS
<1>0. /\ Shape /\ PassShape(pass) /\ OneAsks /\ MeasuredIsThere /\ ComparedIsMerged
      /\ IsList(queue)
  BY DEF Inv, Shape, PassShape
<1>1. ASSUME Aside PROVE Inv'
  BY <1>0, <1>1 DEF Aside, SameBrain, Inv, Shape, OneAsks, MeasuredIsThere, ComparedIsMerged, AllWords, Calm, Doing
<1>2. ASSUME OnItsOwn PROVE Inv'
  <2>1. UNCHANGED <<queue, worker, mem>> /\ ~Awaits(pass) /\ ~pass'.after.known /\ PassShape(pass')
    BY <1>2 DEF OnItsOwn, SameBrain
  <2>2. (\A i \in 1..Len(queue) : ~queue[i].mine) /\ ~worker.job.mine  BY <1>0, <2>1 DEF OneAsks
  <2>3. Shape'  BY <1>0, <2>1 DEF Shape, PassShape
  <2>4. OneAsks'  BY <2>1, <2>2 DEF OneAsks
  <2>5. MeasuredIsThere'  BY <1>0, <2>1 DEF MeasuredIsThere, Calm
  <2>6. ComparedIsMerged'  BY <1>0, <2>1 DEF ComparedIsMerged, Doing
  <2>7. QED  BY <2>3, <2>4, <2>5, <2>6 DEF Inv
<1>3. ASSUME AsksFor PROVE Inv'
  <2> DEFINE n == Len(queue) + 1
  <2>1. PICK kind \in {"train", "probe", "consolidate", "discard"} :
          queue' = Enqueue(queue, [kind |-> kind, priority |-> 8, mine |-> TRUE, limit |-> pass.limit, seen |-> pass.after])
    BY <1>3 DEF AsksFor
  <2> DEFINE job == [kind |-> kind, priority |-> 8, mine |-> TRUE, limit |-> pass.limit, seen |-> pass.after]
  <2>2. /\ DOMAIN job = {"kind", "priority", "mine", "limit", "seen"} /\ job.priority = 8 /\ job.mine = TRUE
        /\ job.kind = kind /\ job.seen = pass.after /\ job.kind # "generate"
    OBVIOUS
  <2>3. queue' = Enqueue(queue, job)  BY <2>1
  <2>13. FitsQueue(job)
    <3>1. 8 <= 8  OBVIOUS
    <3>2. job.kind \in {"generate", "probe", "train", "consolidate", "discard"}  OBVIOUS
    <3>3. QED  BY <2>2, <3>1, <3>2, Zenon DEF FitsQueue
  <2> HIDE DEF job
  <2>4. /\ IsList(queue') /\ Len(queue) \in Nat /\ Len(queue') = n
        /\ queue'[n] = job /\ \A i \in 1..(n - 1) : queue'[i] = queue[i]
    BY <1>0, <2>2, <2>3, GrownQueue
  <2>5. \A i \in 1..Len(queue') : i = n \/ (i \in 1..Len(queue) /\ queue'[i] = queue[i])  BY <2>4
  <2>6. /\ UNCHANGED <<worker, mem>> /\ ~Awaits(pass) /\ Awaits(pass') /\ PassShape(pass') /\ pass'.after = pass.after
        /\ pass.after.known => pass.steps[1] = "merge" /\ pass'.steps[1] = "merging"
        /\ pass.steps # <<>>
    BY <1>3 DEF AsksFor
  <2>7. (\A i \in 1..Len(queue) : ~queue[i].mine) /\ ~worker.job.mine  BY <1>0, <2>6 DEF OneAsks
  <2>8. Shape'
    <3>1. ASSUME NEW i \in 1..Len(queue') PROVE FitsQueue(queue'[i])
      <4>1. CASE i = n  BY <2>4, <2>13, <4>1
      <4>2. CASE i # n  BY <1>0, <2>5, <4>2 DEF Shape
      <4>3. QED  BY <4>1, <4>2
    <3>2. QED  BY <1>0, <2>4, <2>6, <3>1 DEF Shape, PassShape
  <2>9. OneAsks'  BY <2>4, <2>5, <2>6, <2>7 DEF OneAsks
  <2>10. MeasuredIsThere'
    <3>1. pass'.after.known => pass'.steps[1] = "merging"  BY <2>6
    <3>2. ASSUME NEW i \in 1..Len(queue'), queue'[i].kind = "consolidate", queue'[i].seen.known
          PROVE  Calm' /\ mem'.overlay = queue'[i].seen.overlay /\ \A j \in 1..(i - 1) : queue'[j].kind = "generate"
      <4>1. CASE i = n
        <5>1. pass.after.known /\ queue'[i].seen = pass.after  BY <2>2, <2>4, <3>2, <4>1
        <5>2. Calm /\ AllWords(queue) /\ mem.overlay = pass.after.overlay  BY <1>0, <2>6, <5>1 DEF MeasuredIsThere
        <5>3. \A j \in 1..(i - 1) : queue'[j].kind = "generate"  BY <2>4, <4>1, <5>2 DEF AllWords
        <5>4. QED  BY <2>6, <5>1, <5>2, <5>3 DEF Calm
      <4>2. CASE i # n
        <5>1. i \in 1..Len(queue) /\ queue'[i] = queue[i] /\ \A j \in 1..(i - 1) : queue'[j] = queue[j]
          BY <2>4, <2>5, <4>2
        <5>2. Calm /\ mem.overlay = queue[i].seen.overlay /\ \A j \in 1..(i - 1) : queue[j].kind = "generate"
          BY <1>0, <3>2, <5>1 DEF MeasuredIsThere
        <5>3. QED  BY <2>6, <5>1, <5>2 DEF Calm
      <4>3. QED  BY <4>1, <4>2
    <3>3. QED  BY <3>1, <3>2 DEF MeasuredIsThere
  <2>11. ComparedIsMerged'  BY <1>0, <2>6 DEF ComparedIsMerged, Doing
  <2>12. QED  BY <2>8, <2>9, <2>10, <2>11 DEF Inv
<1>4. ASSUME Talks PROVE Inv'
  <2> DEFINE job == [kind |-> "generate", priority |-> 2, mine |-> FALSE, limit |-> 0, seen |-> Unknown]
  <2>1. UNCHANGED <<pass, worker, mem>> /\ queue' = Enqueue(queue, job)  BY <1>4 DEF Talks
  <2>2. /\ DOMAIN job = {"kind", "priority", "mine", "limit", "seen"} /\ job.priority = 2 /\ job.mine = FALSE
        /\ job.kind = "generate"
    OBVIOUS
  <2>13. FitsQueue(job)
    <3>1. 2 <= 8  OBVIOUS
    <3>2. job.kind \in {"generate", "probe", "train", "consolidate", "discard"}  OBVIOUS
    <3>3. QED  BY <2>2, <3>1, <3>2, Zenon DEF FitsQueue
  <2> HIDE DEF job
  <2>3. PICK n \in 1..(Len(queue) + 1) :
          /\ queue'[n] = job /\ \A i \in 1..(n - 1) : queue'[i] = queue[i]
          /\ \A i \in (n + 1)..Len(queue') : queue'[i] = queue[i - 1]
    BY <1>0, <2>1, GrownQueue
  <2>4. IsList(queue') /\ Len(queue) \in Nat /\ Len(queue') = Len(queue) + 1  BY <1>0, <2>1, GrownQueue
  <2> DEFINE was(i) == IF i < n THEN i ELSE i - 1
  <2>5. \A i \in 1..Len(queue') : i # n => was(i) \in 1..Len(queue) /\ queue'[i] = queue[was(i)]  BY <2>3, <2>4
  <2>6. \A i, j \in 1..Len(queue') : i # n /\ j # n /\ i < j => was(i) < was(j)  BY <2>3, <2>4
  <2> HIDE DEF was
  <2>7. Shape'
    <3>1. ASSUME NEW i \in 1..Len(queue') PROVE FitsQueue(queue'[i])
      <4>1. CASE i = n  BY <2>3, <2>13, <4>1
      <4>2. CASE i # n  BY <1>0, <2>5, <4>2 DEF Shape
      <4>3. QED  BY <4>1, <4>2
    <3>2. QED  BY <1>0, <2>1, <2>4, <3>1 DEF Shape
  <2>8. AllWords(queue) => AllWords(queue')  BY <2>2, <2>3, <2>5 DEF AllWords
  <2>9. OneAsks'
    <3>1. ASSUME NEW i \in 1..Len(queue'), queue'[i].mine
          PROVE  Awaits(pass) /\ ~worker.job.mine /\ \A j \in (i + 1)..Len(queue') : queue'[j].kind = "generate"
      <4>1. i # n /\ was(i) \in 1..Len(queue) /\ queue[was(i)].mine  BY <2>2, <2>3, <2>5, <3>1
      <4>2. Awaits(pass) /\ ~worker.job.mine /\ \A j \in (was(i) + 1)..Len(queue) : queue[j].kind = "generate"
        BY <1>0, <4>1 DEF OneAsks
      <4>3. ASSUME NEW j \in (i + 1)..Len(queue') PROVE queue'[j].kind = "generate"
        <5>1. CASE j = n  BY <2>2, <2>3, <5>1
        <5>2. CASE j # n
          <6>1. j \in 1..Len(queue') /\ i < j  BY <2>4, <4>3
          <6>2. was(j) \in 1..Len(queue) /\ was(i) < was(j) /\ queue'[j] = queue[was(j)]  BY <2>5, <2>6, <4>1, <5>2, <6>1
          <6>3. was(j) \in (was(i) + 1)..Len(queue)  BY <2>4, <4>1, <6>2
          <6>4. QED  BY <4>2, <6>2, <6>3
        <5>3. QED  BY <5>1, <5>2
      <4>4. QED  BY <4>2, <4>3
    <3>2. worker.job.mine => Awaits(pass) /\ AllWords(queue')  BY <1>0, <2>8 DEF OneAsks
    <3>3. QED  BY <2>1, <3>1, <3>2 DEF OneAsks
  <2>10. MeasuredIsThere'
    <3>1. pass'.after.known => \/ pass'.steps = <<>>
                               \/ pass'.steps[1] = "merging"
                               \/ /\ pass'.steps[1] = "merge"
                                  /\ Calm' /\ AllWords(queue') /\ mem'.overlay = pass'.after.overlay
      BY <1>0, <2>1, <2>8 DEF MeasuredIsThere, Calm
    <3>2. ASSUME NEW i \in 1..Len(queue'), queue'[i].kind = "consolidate", queue'[i].seen.known
          PROVE  Calm' /\ mem'.overlay = queue'[i].seen.overlay /\ \A j \in 1..(i - 1) : queue'[j].kind = "generate"
      <4>1. i # n /\ was(i) \in 1..Len(queue) /\ queue'[i] = queue[was(i)]  BY <2>2, <2>3, <2>5, <3>2
      <4>2. Calm /\ mem.overlay = queue[was(i)].seen.overlay /\ \A j \in 1..(was(i) - 1) : queue[j].kind = "generate"
        BY <1>0, <3>2, <4>1 DEF MeasuredIsThere
      <4>3. ASSUME NEW j \in 1..(i - 1) PROVE queue'[j].kind = "generate"
        <5>1. CASE j = n  BY <2>2, <2>3, <5>1
        <5>2. CASE j # n
          <6>1. j \in 1..Len(queue') /\ j < i  BY <2>4, <4>3
          <6>2. was(j) \in 1..Len(queue) /\ was(j) < was(i) /\ queue'[j] = queue[was(j)]  BY <2>5, <2>6, <4>1, <5>2, <6>1
          <6>3. was(j) \in 1..(was(i) - 1)  BY <2>4, <4>1, <6>2
          <6>4. QED  BY <4>2, <6>2, <6>3
        <5>3. QED  BY <5>1, <5>2
      <4>4. QED  BY <2>1, <4>1, <4>2, <4>3 DEF Calm
    <3>3. QED  BY <3>1, <3>2 DEF MeasuredIsThere
  <2>11. ComparedIsMerged'  BY <1>0, <2>1 DEF ComparedIsMerged, Doing
  <2>12. QED  BY <2>7, <2>9, <2>10, <2>11 DEF Inv
<1>5. ASSUME Begins PROVE Inv'
  <2> DEFINE job == Head(queue)
  <2>1. /\ UNCHANGED <<pass, mem>> /\ worker = Idle /\ queue # <<>> /\ queue' = Tail(queue)
        /\ worker' = [Idle EXCEPT !.at = FirstStep(job.kind), !.job = job]
    BY <1>5 DEF Begins
  <2>2. /\ IsList(queue') /\ Len(queue) \in Nat /\ Len(queue') = Len(queue) - 1
        /\ \A i \in 1..Len(queue') : queue'[i] = queue[i + 1] /\ i + 1 \in 1..Len(queue)
        /\ job = queue[1] /\ 1 \in 1..Len(queue)
    BY <1>0, <2>1, OneLess
  <2>3. worker'.at = FirstStep(job.kind) /\ worker'.job = job /\ DOMAIN worker' = {"at", "job", "took"}
    BY <2>1 DEF Idle
  <2>4. FitsQueue(job) /\ Calm /\ ~worker.job.mine  BY <1>0, <2>1, <2>2, NothingYet DEF Shape, Calm
  <2> HIDE DEF job
  <2>5. Shape'  BY <1>0, <2>1, <2>2, <2>3, <2>4 DEF Shape, FitsQueue
  <2>6. OneAsks'
    <3>1. ASSUME NEW i \in 1..Len(queue'), queue'[i].mine
          PROVE  Awaits(pass) /\ ~job.mine /\ \A j \in (i + 1)..Len(queue') : queue'[j].kind = "generate"
      <4>1. queue[i + 1].mine /\ i + 1 \in 1..Len(queue) /\ queue'[i] = queue[i + 1]  BY <2>2, <3>1
      <4>2. Awaits(pass) /\ \A j \in (i + 2)..Len(queue) : queue[j].kind = "generate"  BY <1>0, <4>1 DEF OneAsks
      <4>3. ~job.mine
        <5>1. SUFFICES ASSUME queue[1].mine PROVE FALSE  BY <2>2
        <5>2. i + 1 \in 2..Len(queue) /\ queue[i + 1].kind = "generate"  BY <1>0, <2>2, <4>1, <5>1 DEF OneAsks
        <5>3. QED  BY <1>0, <4>1, <5>2 DEF Shape, FitsQueue
      <4>4. QED  BY <2>2, <4>2, <4>3
    <3>2. job.mine => Awaits(pass) /\ AllWords(queue')
      BY <1>0, <2>2 DEF OneAsks, AllWords
    <3>3. QED  BY <2>1, <2>3, <3>1, <3>2 DEF OneAsks
  <2>7. job.kind = "generate" => Calm'  BY <2>3 DEF Calm, FirstStep
  <2>8. MeasuredIsThere'
    <3>1. pass.after.known => \/ pass.steps = <<>>
                              \/ pass.steps[1] = "merging"
                              \/ /\ pass.steps[1] = "merge"
                                 /\ Calm' /\ AllWords(queue') /\ mem.overlay = pass.after.overlay
      <4>1. AllWords(queue) => Calm' /\ AllWords(queue')  BY <2>2, <2>7 DEF AllWords
      <4>2. QED  BY <1>0, <4>1 DEF MeasuredIsThere
    <3>2. ASSUME NEW i \in 1..Len(queue'), queue'[i].kind = "consolidate", queue'[i].seen.known
          PROVE  Calm' /\ mem.overlay = queue'[i].seen.overlay /\ \A j \in 1..(i - 1) : queue'[j].kind = "generate"
      <4>1. i + 1 \in 1..Len(queue) /\ queue'[i] = queue[i + 1]  BY <2>2
      <4>2. mem.overlay = queue[i + 1].seen.overlay /\ \A j \in 1..i : queue[j].kind = "generate"
        BY <1>0, <3>2, <4>1 DEF MeasuredIsThere
      <4>3. job.kind = "generate"  BY <2>2, <4>2
      <4>4. Calm' /\ mem.overlay = queue'[i].seen.overlay  BY <2>7, <4>1, <4>2, <4>3
      <4>5. ASSUME NEW j \in 1..(i - 1) PROVE queue'[j].kind = "generate"
        <5>1. j + 1 \in 1..i /\ j \in 1..Len(queue')  BY <2>2
        <5>2. QED  BY <2>2, <4>2, <5>1
      <4>6. QED  BY <4>4, <4>5
    <3>3. QED  BY <2>1, <3>1, <3>2 DEF MeasuredIsThere
  <2>9. ComparedIsMerged'
    <3>1. SUFFICES ASSUME worker'.at = "merge", job.seen.known PROVE mem'.overlay = job.seen.overlay
      BY <2>3 DEF ComparedIsMerged, Doing
    <3>2. job.kind = "consolidate"  BY <2>3, <2>4, <3>1 DEF FirstStep, FitsQueue
    <3>3. QED  BY <1>0, <2>1, <2>2, <3>1, <3>2 DEF MeasuredIsThere
  <2>10. QED  BY <2>5, <2>6, <2>8, <2>9 DEF Inv
<1>6. ASSUME Works PROVE Inv'
  <2>1. /\ UNCHANGED <<pass, queue>> /\ ~Calm /\ ~Calm' /\ worker'.at # "merge"
        /\ DOMAIN worker' = DOMAIN worker /\ worker'.job = worker.job
    BY <1>6 DEF Works
  <2>2. Shape'  BY <1>0, <2>1 DEF Shape
  <2>3. OneAsks'  BY <1>0, <2>1 DEF OneAsks, AllWords
  <2>4. MeasuredIsThere'  BY <1>0, <2>1 DEF MeasuredIsThere
  <2>5. ComparedIsMerged'  BY <2>1 DEF ComparedIsMerged, Doing
  <2>6. QED  BY <2>2, <2>3, <2>4, <2>5 DEF Inv
<1>7. ASSUME Ends PROVE Inv'
  <2>1. UNCHANGED queue /\ worker' = Idle /\ (Calm => mem' = mem)  BY <1>7 DEF Ends
  <2>2. /\ worker'.at = "idle" /\ ~worker'.job.mine /\ Calm'
        /\ DOMAIN worker' = {"at", "job", "took"} /\ DOMAIN worker'.job = {"kind", "priority", "mine", "limit", "seen"}
    BY <2>1, NothingYet DEF Calm
  <2>3. ComparedIsMerged'  BY <2>2 DEF ComparedIsMerged, Doing
  <2>4. CASE ~worker.job.mine
    <3>1. UNCHANGED pass  BY <1>7, <2>4 DEF Ends
    <3>2. Shape'  BY <1>0, <2>1, <2>2, <3>1 DEF Shape
    <3>3. OneAsks'  BY <1>0, <2>1, <2>2, <3>1 DEF OneAsks
    <3>4. MeasuredIsThere'  BY <1>0, <2>1, <2>2, <3>1 DEF MeasuredIsThere, AllWords
    <3>5. QED  BY <2>3, <3>2, <3>3, <3>4 DEF Inv
  <2>5. CASE worker.job.mine
    <3>1. Awaits(pass) /\ AllWords(queue)  BY <1>0, <2>5 DEF OneAsks
    <3>2. PICK seen : pass' = Answered(pass, seen) /\ (seen.known => mem' = mem /\ seen.overlay = mem.overlay)
      BY <1>7, <2>5 DEF Ends
    <3>3. /\ PassShape(pass') /\ pass'.steps = Tail(pass.steps)
          /\ pass'.after = IF pass.steps[1] = "probing_after" THEN (IF pass.before THEN seen ELSE Unknown) ELSE pass.after
      BY <1>0, <3>1, <3>2, AnsweredIs
    <3>4. /\ pass.steps # <<>> /\ pass.steps[1] \in Waiting
          /\ pass.steps[1] = "merging" => Tail(pass.steps) = <<>>
          /\ pass.steps[1] = "probing_after" => Tail(pass.steps)[1] = "merge"
      BY <1>0, <3>1, StepsGoOn DEF Awaits, PassShape
    <3>5. \A i \in 1..Len(queue) : ~queue[i].mine /\ queue[i].kind = "generate"  BY <1>0, <3>1 DEF AllWords, Shape, FitsQueue
    <3>6. Shape'  BY <1>0, <2>1, <2>2, <3>3 DEF Shape, PassShape
    <3>7. OneAsks'  BY <2>1, <2>2, <3>5 DEF OneAsks
    <3>8. pass'.after.known => \/ pass'.steps = <<>>
                               \/ /\ pass'.steps[1] = "merge"
                                  /\ mem'.overlay = pass'.after.overlay
      <4>1. CASE pass.steps[1] = "probing_after"  BY <3>2, <3>3, <3>4, <4>1 DEF Unknown
      <4>2. CASE pass.steps[1] # "probing_after"  BY <1>0, <3>3, <3>4, <4>2 DEF MeasuredIsThere, Waiting
      <4>3. QED  BY <4>1, <4>2
    <3>9. MeasuredIsThere'  BY <2>1, <2>2, <3>1, <3>5, <3>8 DEF MeasuredIsThere, AllWords
    <3>10. QED  BY <2>3, <3>6, <3>7, <3>9 DEF Inv
  <2>6. QED  BY <2>4, <2>5
<1>8. ASSUME IsLeft PROVE Inv'
  <2>1. /\ UNCHANGED mem /\ pass' = NoPass
        /\ queue' = [i \in DOMAIN queue |-> [queue[i] EXCEPT !.mine = FALSE]]
        /\ worker' = IF worker = Idle THEN Idle ELSE [worker EXCEPT !.job.mine = FALSE]
    BY <1>8 DEF IsLeft
  <2>2. PICK S : queue \in Seq(S)  BY <1>0 DEF IsList
  <2>3. Len(queue) \in Nat /\ DOMAIN queue = 1..Len(queue)  BY <2>2, LenProperties
  <2>4. ASSUME NEW i \in 1..Len(queue)
        PROVE  /\ DOMAIN queue'[i] = {"kind", "priority", "mine", "limit", "seen"} /\ ~queue'[i].mine /\ queue'[i].mine \in BOOLEAN
               /\ queue'[i].kind = queue[i].kind /\ queue'[i].seen = queue[i].seen
               /\ queue'[i].priority = queue[i].priority
    BY <1>0, <2>1, <2>3, <2>4 DEF Shape, FitsQueue
  <2>5. IsList(queue') /\ Len(queue') = Len(queue)
    <3> DEFINE T == {queue'[i] : i \in 1..Len(queue)}
    <3>1. queue' \in [1..Len(queue) -> T]  BY <2>1, <2>3
    <3>2. queue' \in Seq(T)  BY <2>3, <3>1, SeqDef
    <3>3. DOMAIN queue' = 1..Len(queue) /\ DOMAIN queue' = 1..Len(queue') /\ Len(queue') \in Nat
      BY <2>1, <2>3, <3>2, LenProperties
    <3>4. QED  BY <2>3, <3>2, <3>3 DEF IsList
  <2>6. /\ DOMAIN worker' = {"at", "job", "took"} /\ DOMAIN worker'.job = {"kind", "priority", "mine", "limit", "seen"}
        /\ ~worker'.job.mine /\ worker'.at = worker.at /\ worker'.job.seen = worker.job.seen
    <3>1. CASE worker = Idle  BY <2>1, <3>1, NothingYet
    <3>2. CASE worker # Idle  BY <1>0, <2>1, <3>2 DEF Shape
    <3>3. QED  BY <3>1, <3>2
  <2>7. Shape'
    <3>1. ASSUME NEW i \in 1..Len(queue') PROVE FitsQueue(queue'[i])
      BY <1>0, <2>4, <2>5, <3>1 DEF Shape, FitsQueue
    <3>2. QED  BY <2>1, <2>5, <2>6, <3>1, NothingYet DEF Shape, PassShape
  <2>8. OneAsks'  BY <2>4, <2>5, <2>6 DEF OneAsks
  <2>9. MeasuredIsThere'
    <3>1. ~pass'.after.known  BY <2>1, NothingYet
    <3>2. ASSUME NEW i \in 1..Len(queue'), queue'[i].kind = "consolidate", queue'[i].seen.known
          PROVE  Calm' /\ mem'.overlay = queue'[i].seen.overlay /\ \A j \in 1..(i - 1) : queue'[j].kind = "generate"
      <4>1. Calm /\ mem.overlay = queue[i].seen.overlay /\ \A j \in 1..(i - 1) : queue[j].kind = "generate"
        BY <1>0, <2>4, <2>5, <3>2 DEF MeasuredIsThere
      <4>2. \A j \in 1..(i - 1) : j \in 1..Len(queue)  BY <2>3, <2>5
      <4>3. QED  BY <2>1, <2>4, <2>5, <2>6, <4>1, <4>2 DEF Calm
    <3>3. QED  BY <3>1, <3>2 DEF MeasuredIsThere
  <2>10. ComparedIsMerged'  BY <1>0, <2>1, <2>6 DEF ComparedIsMerged, Doing
  <2>11. QED  BY <2>7, <2>8, <2>9, <2>10 DEF Inv
<1>9. ASSUME IsGone PROVE Inv'
  <2>1. pass' = NoPass /\ queue' = <<>> /\ worker' = Idle  BY <1>9 DEF IsGone
  <2>2. QED  BY <2>1, NothingYet DEF PassShape, Inv, Shape, OneAsks, MeasuredIsThere, ComparedIsMerged, Doing
<1>10. QED  BY <1>1, <1>2, <1>3, <1>4, <1>5, <1>6, <1>7, <1>8, <1>9, EveryStepIs

\* What a night makes permanent is what it measured, whatever waits, talks, fails, is stopped or
\* goes in between, and for any number of samples, turns and passes.
THEOREM MeasuredIsMerged == Spec => []ComparedIsMerged
<1>1. Inv => ComparedIsMerged  BY DEF Inv
<1>2. QED  BY <1>1, InvInit, InvStep, PTL DEF Spec

------------------------------------------------------------------------------
(* Nothing is forgotten: the day, what is felt of it, and what is harvested *)

IsFelt(t) == \E f \in felt : f.turn = t
HasDecision(t) == \E k \in DOMAIN files["actions"] : files["actions"][k].turn = t
\* The turn that an exchange names has its answer there.
OwnAnswer(i) == turns[convo[i].turn].outcome = "answered" /\ convo[i].last = convo[i].turn

Turn == [at : Nat, outcome : Outcomes]
Exchange == [turn : Nat, at : Nat, last : Nat]
DayShape ==
  /\ turns \in Seq(Turn) /\ convo \in Seq(Exchange)
  /\ \A t, u \in DOMAIN turns : t < u => turns[t].at < turns[u].at
  /\ \A i \in DOMAIN convo : convo[i].turn \in DOMAIN turns
  /\ \A i, j \in DOMAIN convo : i < j => convo[i].turn < convo[j].turn
  /\ turns # <<>> => convo # <<>>
MarkShape ==
  /\ mark \in Nat /\ (IF turns = <<>> THEN mark = 0 ELSE mark <= turns[Len(turns)].at)
  /\ DOMAIN files = {"actions", "conversation"} /\ \A s \in DOMAIN files : IsList(files[s])

\* Of the turns that can be felt none is passed over, by what has been felt or by what a pass
\* has set itself.
FeltInOrder ==
  /\ \A f \in felt : f.turn \in DOMAIN turns
  /\ \A t, u \in DOMAIN turns : u < t /\ IsFelt(t) /\ turns[u].outcome # "open" => IsFelt(u)
FeelsInOrder ==
  pass.steps # <<>> /\ pass.steps[1] = "feeling" =>
    /\ pass.rows \subseteq DOMAIN turns
    /\ \A t \in pass.rows, u \in DOMAIN turns : u < t /\ turns[u].outcome # "open" => IsFelt(u) \/ u \in pass.rows

\* What the mark will go past has its decision, in the set or among what is still to be written.
WritesAll ==
  pass.steps # <<>> /\ pass.steps[1] = "harvesting" =>
    /\ \A x \in pass.rows : x.set \in {"actions", "conversation"}
    /\ \E t \in DOMAIN turns : pass.newest = turns[t].at
    /\ \A i \in ReadBack : OwnAnswer(i) /\ turns[convo[i].turn].at <= pass.newest =>
         \/ HasDecision(convo[i].turn)
         \/ \E x \in pass.rows : x.set = "actions" /\ x.turn = convo[i].turn

\* Only the step a pass is at can be under way.
UnderWay == {"feeling", "harvesting"}
Ahead(steps) == \A i \in 2..Len(steps) : steps[i] \notin UnderWay
Elsewhere(steps) == \A i \in 1..Len(steps) : steps[i] \notin UnderWay

DayInv == DayShape /\ MarkShape /\ FeltInOrder /\ Ahead(pass.steps) /\ FeelsInOrder /\ WritesAll /\ NothingForgotten

\* The steps that are left, and those with another in the place of the first.
LEMMA StepsLeft ==
  ASSUME NEW s, IsList(s), s # <<>>, Ahead(s)
  PROVE  /\ Elsewhere(Tail(s)) /\ Head(s) = s[1]
         /\ \A step : LET r == <<step>> \o Tail(s) IN
              /\ IsList(r) /\ r # <<>> /\ r[1] = step /\ Ahead(r)
              /\ step \notin UnderWay => Elsewhere(r)
<1> DEFINE u == Tail(s)
<1>1. /\ IsList(u) /\ Len(s) \in Nat \ {0} /\ Len(u) = Len(s) - 1 /\ Head(s) = s[1]
      /\ \A i \in 1..Len(u) : u[i] = s[i + 1]
  BY OneLess
<1> HIDE DEF u
<1>2. \A i \in 1..Len(u) : i + 1 \in 2..Len(s)  BY <1>1
<1>3. \A i \in 1..Len(u) : u[i] \notin UnderWay  BY <1>1, <1>2 DEF Ahead
<1>4. ASSUME NEW step
      PROVE  LET r == <<step>> \o u IN
               /\ IsList(r) /\ r # <<>> /\ r[1] = step /\ Ahead(r)
               /\ step \notin UnderWay => Elsewhere(r)
  <2> DEFINE r == <<step>> \o u
  <2>1. IsList(r) /\ Len(u) \in Nat /\ Len(r) = Len(u) + 1 /\ r[1] = step /\ \A i \in 2..(Len(u) + 1) : r[i] = u[i - 1]
    <3>1. IsList(u)  BY <1>1
    <3>2. QED  BY ONLY <3>1, InFront
  <2> HIDE DEF r
  <2>2. Len(r) = 0 <=> r = <<>>
    <3>1. IsList(r)  BY <2>1
    <3>2. QED  BY ONLY <3>1, NoneIsEmpty, Zenon
  <2>3. \A i \in 2..Len(r) : r[i] \notin UnderWay
    <3> SUFFICES ASSUME NEW i \in 2..Len(r) PROVE r[i] \notin UnderWay  OBVIOUS
    <3>1. i \in 2..(Len(u) + 1) /\ i - 1 \in 1..Len(u)  BY <2>1
    <3>2. QED  BY <1>3, <2>1, <3>1
  <2>4. r # <<>>  BY <2>1, <2>2
  <2>5. ASSUME step \notin UnderWay, NEW i \in 1..Len(r) PROVE r[i] \notin UnderWay
    <3>1. i = 1 \/ i \in 2..Len(r)  BY <2>1
    <3>2. QED  BY <2>1, <2>3, <2>5, <3>1
  <2>6. QED  BY <2>1, <2>3, <2>4, <2>5 DEF r, Ahead, Elsewhere
<1>5. Elsewhere(u)  BY <1>3 DEF Elsewhere
<1>6. QED  BY <1>1, <1>4, <1>5 DEF u

LEMMA ElsewhereIsAhead ==
  ASSUME NEW s, IsList(s), Elsewhere(s)
  PROVE  Ahead(s) /\ (s # <<>> => s[1] \notin UnderWay)
<1>1. PICK S : s \in Seq(S)  BY DEF IsList
<1>2. Len(s) \in Nat /\ (s # <<>> => Len(s) > 0)  BY <1>1, EmptySeq, LenProperties
<1>3. s # <<>> => 1 \in 1..Len(s)  BY <1>2
<1>4. QED  BY <1>2, <1>3 DEF Elsewhere, Ahead

\* The step a pass is at.
LEMMA PassIsAt ==
  ASSUME Shape, NEW step, At(step)
  PROVE  pass.steps # <<>> /\ pass.steps[1] = step
BY StepsGoOn DEF At, Shape

\* What happens besides the day and the harvest leaves both as they are.
LEMMA NothingOfTheDay ==
  ASSUME DayInv, UNCHANGED <<day, felt, mark, files>>, IsList(pass'.steps),
         UNCHANGED pass \/ Elsewhere(pass'.steps)
  PROVE  DayInv'
<1>1. /\ turns' = turns /\ convo' = convo /\ felt' = felt /\ mark' = mark /\ files' = files
  BY DEF day
<1>2. DayShape' /\ MarkShape' /\ FeltInOrder' /\ NothingForgotten'
  BY <1>1 DEF DayInv, DayShape, MarkShape, FeltInOrder, IsFelt, NothingForgotten, ReadBack
<1>3. CASE UNCHANGED pass
  BY <1>1, <1>2, <1>3 DEF DayInv, FeelsInOrder, WritesAll, IsFelt, ReadBack, OwnAnswer, HasDecision
<1>4. CASE Elsewhere(pass'.steps)
  <2>1. Ahead(pass'.steps) /\ (pass'.steps # <<>> => pass'.steps[1] \notin UnderWay)
    BY <1>4, ElsewhereIsAhead
  <2>2. FeelsInOrder' /\ WritesAll'  BY <2>1 DEF FeelsInOrder, WritesAll, UnderWay
  <2>3. QED  BY <1>2, <2>1, <2>2 DEF DayInv
<1>5. QED  BY <1>3, <1>4

\* One more turn, which nothing has been made of yet.
LEMMA ATurnIsTaken == ASSUME Shape, DayInv, TakeTurn PROVE DayInv'
<1>0. /\ turns \in Seq(Turn) /\ convo \in Seq(Exchange) /\ pass = NoPass /\ pass' = pass
      /\ felt' = felt /\ mark' = mark /\ files' = files /\ LookBack \in Nat
  BY LearningAssumption DEF DayInv, DayShape, TakeTurn, sets
<1>1. Len(turns) \in Nat /\ DOMAIN turns = 1..Len(turns) /\ Len(convo) \in Nat /\ DOMAIN convo = 1..Len(convo)
  BY <1>0, LenProperties
<1>2. PICK gap \in Gaps, outcome \in Outcomes :
        LET t == Len(turns) + 1
            at == gap + (IF turns = <<>> THEN 0 ELSE Last(turns).at)
            retried == turns # <<>> /\ Last(turns).outcome = "again"
            under == IF retried THEN convo ELSE Append(convo, [turn |-> t, at |-> at, last |-> 0])
        IN  /\ turns' = Append(turns, [at |-> at, outcome |-> outcome])
            /\ convo' = IF outcome \in {"answered", "set_down"} THEN [under EXCEPT ![Len(under)].last = t] ELSE under
  BY DEF TakeTurn
<1> DEFINE t == Len(turns) + 1
           at == gap + (IF turns = <<>> THEN 0 ELSE Last(turns).at)
           retried == turns # <<>> /\ Last(turns).outcome = "again"
           x == [turn |-> t, at |-> at, last |-> 0]
           under == IF retried THEN convo ELSE Append(convo, x)
           n == Len(under)
<1>3. at \in Nat /\ t \in Nat /\ at > mark /\ (turns # <<>> => at > turns[Len(turns)].at)
  <2>1. gap \in Nat \ {0}  BY LearningAssumption
  <2>2. CASE turns = <<>>
    <3>1. mark = 0  BY <2>2 DEF DayInv, MarkShape
    <3>2. at = gap + 0  BY <2>2
    <3>3. QED  BY <1>1, <2>1, <2>2, <3>1, <3>2
  <2>3. CASE turns # <<>>
    <3>1. Len(turns) \in 1..Len(turns)  BY <1>0, <1>1, <2>3, EmptySeq
    <3>2. turns[Len(turns)] \in Turn  BY <1>0, <3>1, ElementOfSeq
    <3>3. mark \in Nat /\ mark <= turns[Len(turns)].at  BY <2>3 DEF DayInv, MarkShape
    <3>4. at = gap + turns[Len(turns)].at /\ turns[Len(turns)].at \in Nat  BY <2>3, <3>2 DEF Last, Turn
    <3> HIDE DEF at
    <3>5. QED  BY <1>1, <2>1, <3>3, <3>4
  <2>4. QED  BY <2>2, <2>3
<1> HIDE DEF at
<1>4. /\ turns' \in Seq(Turn) /\ turns' # <<>> /\ Len(turns') = t /\ DOMAIN turns' = 1..t
      /\ \A u \in 1..Len(turns) : turns'[u] = turns[u]
      /\ turns'[t] = [at |-> at, outcome |-> outcome]
  <2>1. [at |-> at, outcome |-> outcome] \in Turn /\ turns' = Append(turns, [at |-> at, outcome |-> outcome])
    BY <1>2, <1>3 DEF at, Turn
  <2>2. turns' \in Seq(Turn) /\ turns' # <<>> /\ Len(turns') = t /\ (\A u \in 1..Len(turns) : turns'[u] = turns[u])
        /\ turns'[t] = [at |-> at, outcome |-> outcome]
    BY <1>0, <2>1, AppendProperties
  <2>3. QED  BY <2>2, LenProperties
<1>5. /\ under \in Seq(Exchange) /\ n \in Nat \ {0} /\ DOMAIN under = 1..n
      /\ \/ n = Len(convo) /\ under = convo
         \/ n = Len(convo) + 1 /\ under[n] = x /\ \A i \in 1..Len(convo) : under[i] = convo[i]
  <2>1. CASE retried
    <3>1. convo # <<>> /\ under = convo  BY <2>1 DEF DayInv, DayShape
    <3>2. QED  BY <1>0, <1>1, <3>1, EmptySeq
  <2>2. CASE ~retried
    <3>1. x \in Exchange  BY <1>3 DEF Exchange
    <3>2. under = Append(convo, x)  BY <2>2
    <3> HIDE DEF x, under
    <3>3. under \in Seq(Exchange) /\ Len(under) = Len(convo) + 1 /\ under[Len(convo) + 1] = x
          /\ \A i \in 1..Len(convo) : under[i] = convo[i]
      BY <1>0, <3>1, <3>2, AppendProperties
    <3>4. DOMAIN under = 1..Len(under)  BY <3>3, LenProperties
    <3>5. Len(under) \in Nat \ {0}  BY <1>1, <3>3
    <3>6. QED  BY <3>3, <3>4, <3>5
  <2>3. QED  BY <2>1, <2>2
<1>6. /\ convo' \in Seq(Exchange) /\ Len(convo') = n /\ DOMAIN convo' = 1..n
      /\ \A i \in 1..n : /\ convo'[i].turn = under[i].turn
                         /\ convo'[i].last = under[i].last \/ (i = n /\ convo'[i].last = t)
  <2>1. convo' = IF outcome \in {"answered", "set_down"} THEN [under EXCEPT ![n].last = t] ELSE under
    BY <1>2 DEF at
  <2> HIDE DEF under, n
  <2>2. CASE convo' = under  BY <1>5, <2>2 DEF n
  <2>3. CASE convo' = [under EXCEPT ![n].last = t]
    <3>1. \A i \in 1..n : under[i] \in Exchange  BY <1>5, ElementOfSeq DEF n
    <3>2. /\ DOMAIN convo' = 1..n
          /\ \A i \in 1..n : convo'[i] = IF i = n THEN [under[n] EXCEPT !.last = t] ELSE under[i]
      BY <1>5, <2>3
    <3>3. n \in 1..n  BY <1>5
    <3>4. [under[n] EXCEPT !.last = t] \in Exchange /\ [under[n] EXCEPT !.last = t].turn = under[n].turn
          /\ [under[n] EXCEPT !.last = t].last = t
      BY <1>3, <3>1, <3>3 DEF Exchange
    <3>5. convo' \in [1..n -> Exchange]  BY <2>3, <1>5, <3>1, <3>2, <3>4
    <3>6. convo' \in Seq(Exchange)  BY <1>5, <3>5, SeqDef
    <3>7. Len(convo') = n  BY <1>5, <3>2, <3>6, LenProperties
    <3>8. QED  BY <3>2, <3>4, <3>6, <3>7
  <2>4. QED  BY <2>1, <2>2, <2>3
<1> HIDE DEF under, n, retried
<1>7. \A i \in 1..n : \/ i \in 1..Len(convo) /\ under[i] = convo[i]
                      \/ i = n /\ i = Len(convo) + 1 /\ under[i].turn = t
  <2>1. n = Len(convo) + 1 => \A i \in 1..n : i \in 1..Len(convo) \/ i = n  BY <1>1
  <2>2. x.turn = t  OBVIOUS
  <2>3. QED  BY <1>5, <2>1, <2>2
<1>8. \A i \in 1..Len(convo) : convo[i].turn \in 1..Len(turns)  BY <1>1 DEF DayInv, DayShape
<1>9. \A i, j \in 1..Len(convo) : i < j => convo[i].turn < convo[j].turn  BY <1>1 DEF DayInv, DayShape
<1>10. DayShape'
  <2>1. \A u, v \in 1..t : u < v => turns'[u].at < turns'[v].at
    <3> SUFFICES ASSUME NEW u \in 1..t, NEW v \in 1..t, u < v PROVE turns'[u].at < turns'[v].at  OBVIOUS
    <3>0. u \in 1..Len(turns)  BY <1>1
    <3>1. CASE v \in 1..Len(turns)
      <4>1. turns[u].at < turns[v].at  BY <1>1, <3>0, <3>1 DEF DayInv, DayShape
      <4>2. QED  BY <1>4, <3>0, <3>1, <4>1
    <3>2. CASE v = t
      <4>1. turns # <<>> /\ Len(turns) \in 1..Len(turns)  BY <1>0, <1>1, <3>0, EmptySeq
      <4>2. u = Len(turns) \/ turns[u].at < turns[Len(turns)].at
        <5>1. u < Len(turns) => turns[u].at < turns[Len(turns)].at  BY <1>1, <3>0, <4>1 DEF DayInv, DayShape
        <5>2. u \in Nat /\ Len(turns) \in Nat /\ u <= Len(turns)  BY <1>1, <3>0
        <5>3. u = Len(turns) \/ u < Len(turns)  BY ONLY <5>2
        <5>4. QED  BY ONLY <5>1, <5>3
      <4>3. turns[u] \in Turn /\ turns[Len(turns)] \in Turn  BY <1>0, <3>0, <4>1, ElementOfSeq
      <4>4. turns[u].at \in Nat /\ turns[Len(turns)].at \in Nat  BY <4>3 DEF Turn
      <4>5. turns[u].at < at  BY <1>3, <4>1, <4>2, <4>4
      <4>6. turns'[u] = turns[u] /\ turns'[v].at = at  BY <1>4, <3>0, <3>2
      <4>7. QED  BY <4>5, <4>6
    <3>3. QED  BY <1>1, <3>1, <3>2
  <2>2. \A i \in 1..n : convo'[i].turn \in 1..t
    <3> SUFFICES ASSUME NEW i \in 1..n PROVE convo'[i].turn \in 1..t  OBVIOUS
    <3>1. CASE i \in 1..Len(convo) /\ under[i] = convo[i]
      <4>1. convo'[i].turn = convo[i].turn /\ convo[i].turn \in 1..Len(turns)  BY <1>6, <1>8, <3>1
      <4>2. QED  BY <1>1, <4>1
    <3>2. CASE under[i].turn = t  BY <1>1, <1>6, <3>2
    <3>3. QED  BY <1>7, <3>1, <3>2
  <2>3. \A i, j \in 1..n : i < j => convo'[i].turn < convo'[j].turn
    <3> SUFFICES ASSUME NEW i \in 1..n, NEW j \in 1..n, i < j PROVE convo'[i].turn < convo'[j].turn  OBVIOUS
    <3>1. i # n  BY <1>5
    <3>2. i \in 1..Len(convo) /\ convo'[i].turn = convo[i].turn /\ convo[i].turn \in 1..Len(turns)
      BY <1>6, <1>7, <1>8, <3>1
    <3>3. CASE j \in 1..Len(convo) /\ under[j] = convo[j]
      <4>1. convo[i].turn < convo[j].turn /\ convo'[j].turn = convo[j].turn  BY <1>6, <1>9, <3>2, <3>3
      <4>2. QED  BY <3>2, <4>1
    <3>4. CASE under[j].turn = t
      <4>1. convo'[j].turn = t  BY <1>6, <3>4
      <4>2. QED  BY <1>1, <3>2, <4>1
    <3>5. QED  BY <1>7, <3>3, <3>4
  <2>4. convo' # <<>>  BY <1>5, <1>6, EmptySeq
  <2>5. QED  BY <1>4, <1>6, <2>1, <2>2, <2>3, <2>4 DEF DayShape
<1>11. MarkShape'
  <2>1. turns' # <<>> /\ turns'[Len(turns')].at = at  BY <1>4
  <2>2. mark \in Nat /\ mark <= at  BY <1>3 DEF DayInv, MarkShape
  <2>3. QED  BY <1>0, <2>1, <2>2 DEF DayInv, MarkShape
<1>12. FeltInOrder'
  <2>1. \A f \in felt : f.turn \in 1..Len(turns)  BY <1>1 DEF DayInv, FeltInOrder
  <2>2. ASSUME NEW u \in 1..t, NEW v \in 1..t, v < u, IsFelt(u), turns'[v].outcome # "open" PROVE IsFelt(v)
    <3>1. u \in 1..Len(turns)  BY <2>1, <2>2 DEF IsFelt
    <3>2. v \in 1..Len(turns)  BY <1>1, <2>2, <3>1
    <3>3. turns[v].outcome # "open"  BY <1>4, <2>2, <3>2
    <3>4. QED  BY <1>1, <2>2, <3>1, <3>2, <3>3 DEF DayInv, FeltInOrder
  <2>3. \A u : IsFelt(u)' <=> IsFelt(u)  BY <1>0 DEF IsFelt
  <2>4. \A f \in felt' : f.turn \in DOMAIN turns'
    <3>1. \A f \in felt : f.turn \in 1..t  BY <1>1, <2>1
    <3>2. QED  BY <1>0, <1>4, <3>1
  <2>5. QED  BY <1>4, <2>2, <2>3, <2>4 DEF FeltInOrder
<1>13. Ahead(pass.steps)' /\ FeelsInOrder' /\ WritesAll'
  <2>1. pass.steps = <<>>  BY <1>0 DEF NoPass
  <2>2. QED  BY <1>0, <2>1 DEF DayInv, FeelsInOrder, WritesAll, Ahead
<1>14. NothingForgotten'
  <2> SUFFICES ASSUME NEW i \in DOMAIN convo', i > Len(convo') - LookBack,
                      turns'[convo'[i].turn].outcome = "answered", convo'[i].last = convo'[i].turn,
                      turns'[convo'[i].turn].at <= mark
               PROVE  \E k \in DOMAIN files["actions"] : files["actions"][k].turn = convo'[i].turn
    BY <1>0 DEF NothingForgotten, ReadBack
  <2>1. i \in 1..n  BY <1>6
  <2>2. convo'[i].turn # t
    <3>1. turns'[t].at = at /\ mark \in Nat  BY <1>4 DEF DayInv, MarkShape
    <3>2. QED  BY <1>3, <3>1
  <2>3. i \in 1..Len(convo) /\ under[i] = convo[i] /\ convo'[i].turn = convo[i].turn /\ convo'[i].last = convo[i].last
    BY <1>6, <1>7, <2>1, <2>2
  <2>4. i > Len(convo) - LookBack
    <3>1. n \in Nat /\ n >= Len(convo) /\ Len(convo') = n /\ i \in Nat
      <4>1. n = Len(convo) \/ n = Len(convo) + 1  BY <1>5
      <4>2. Len(convo) \in Nat /\ n \in Nat  BY <1>1, <1>5
      <4>3. i \in Nat  BY <2>1
      <4>4. QED  BY <1>6, <4>1, <4>2, <4>3
    <3>2. i > n - LookBack  BY <3>1
    <3>3. QED  BY <1>0, <1>1, <3>1, <3>2
  <2>5. turns'[convo[i].turn] = turns[convo[i].turn]  BY <1>4, <1>8, <2>3
  <2>6. QED  BY <1>1, <2>3, <2>4, <2>5 DEF DayInv, NothingForgotten, ReadBack
<1>15. QED  BY <1>10, <1>11, <1>12, <1>13, <1>14 DEF DayInv

\* The first few of a set, and those below.
LEMMA BelowTheFirst ==
  ASSUME NEW S, S \subseteq Nat, IsFiniteSet(S), NEW n \in Nat, NEW t \in FirstOf(S, n), NEW u \in S, u < t
  PROVE  u \in FirstOf(S, n)
<1> DEFINE below(k) == {v \in S : v < k}
<1>1. below(t) \subseteq S /\ below(u) \subseteq below(t)
  <2>1. \A v \in S : v < u => v < t  BY DEF FirstOf
  <2>2. QED  BY <2>1
<1>2. IsFiniteSet(below(t))  BY <1>1, FS_Subset
<1>3. IsFiniteSet(below(u)) /\ Cardinality(below(u)) <= Cardinality(below(t))  BY <1>1, <1>2, FS_Subset
<1>4. Cardinality(below(t)) \in Nat /\ Cardinality(below(u)) \in Nat  BY <1>2, <1>3, FS_CardinalityType
<1>5. Cardinality(below(t)) < n  BY DEF FirstOf
<1> HIDE DEF below
<1>6. Cardinality(below(u)) < n  BY <1>3, <1>4, <1>5
<1>7. QED  BY <1>6 DEF FirstOf, below

\* A pass sets itself the oldest turns that have not been felt.
LEMMA FeelingBegins == ASSUME Shape, DayInv, Feel PROVE DayInv'
<1>0. /\ turns' = turns /\ convo' = convo /\ felt' = felt /\ mark' = mark /\ files' = files /\ LookBack \in Nat
      /\ FeelLimit \in Nat /\ turns \in Seq(Turn) /\ pass.steps # <<>>
      /\ DOMAIN pass = {"steps", "rows", "newest", "before", "after", "limit"} /\ IsList(pass.steps) /\ Ahead(pass.steps)
  BY LearningAssumption, PassIsAt DEF Feel, day, sets, DayInv, DayShape, Shape, StepsOK
<1>1. pass'.steps = <<"feeling">> \o Tail(pass.steps) /\ pass'.rows = FirstOf(Unscored, FeelLimit)
  BY <1>0 DEF Feel, Onto
<1>2. pass'.steps[1] = "feeling" /\ Ahead(pass'.steps)  BY <1>0, <1>1, StepsLeft
<1>3. Unscored \subseteq Nat /\ IsFiniteSet(Unscored) /\ Unscored \subseteq DOMAIN turns
  <2>1. DOMAIN turns = 1..Len(turns) /\ Len(turns) \in Nat  BY <1>0, LenProperties
  <2>2. IsFiniteSet(DOMAIN turns)
    <3>1. 1 \in Int /\ Len(turns) \in Int  BY <2>1
    <3>2. QED  BY <2>1, <3>1, FS_Interval
  <2>3. Unscored \subseteq DOMAIN turns  BY DEF Unscored
  <2>4. QED  BY <2>1, <2>2, <2>3, FS_Subset
<1>4. FeelsInOrder'
  <2>1. pass'.rows \subseteq DOMAIN turns  BY <1>1, <1>3 DEF FirstOf
  <2>2. ASSUME NEW t \in pass'.rows, NEW u \in DOMAIN turns, u < t, turns[u].outcome # "open", ~IsFelt(u)
        PROVE  u \in pass'.rows
    <3>1. u \in Unscored  BY <2>2 DEF Unscored, IsFelt
    <3>2. t \in FirstOf(Unscored, FeelLimit)  BY <1>1
    <3>3. Unscored \subseteq Nat /\ IsFiniteSet(Unscored) /\ FeelLimit \in Nat /\ u < t  BY <1>0, <1>3, <2>2
    <3>4. u \in FirstOf(Unscored, FeelLimit)  BY ONLY <3>1, <3>2, <3>3, BelowTheFirst
    <3>5. QED  BY <1>1, <3>4
  <2>3. QED  BY <1>0, <2>1, <2>2 DEF FeelsInOrder, IsFelt
<1>5. WritesAll'  BY <1>2 DEF WritesAll
<1>6. DayShape' /\ MarkShape' /\ FeltInOrder' /\ NothingForgotten'
  BY <1>0 DEF DayInv, DayShape, MarkShape, FeltInOrder, IsFelt, NothingForgotten, ReadBack
<1>7. QED  BY <1>2, <1>4, <1>5, <1>6 DEF DayInv

\* The oldest of them is felt, or there is none left.
LEMMA ATurnIsFelt == ASSUME Shape, DayInv, Felt PROVE DayInv'
<1>0. /\ turns' = turns /\ convo' = convo /\ mark' = mark /\ files' = files
      /\ pass.steps # <<>> /\ pass.steps[1] = "feeling" /\ IsList(pass.steps) /\ Ahead(pass.steps)
      /\ DOMAIN pass = {"steps", "rows", "newest", "before", "after", "limit"}
      /\ FeelsInOrder /\ FeltInOrder /\ turns \in Seq(Turn)
  BY PassIsAt DEF Felt, day, sets, DayInv, DayShape, Shape, StepsOK
<1>1. CASE pass' = Advance(pass) /\ felt' = felt
  <2>1. pass'.steps = Tail(pass.steps)  BY <1>0, <1>1 DEF Advance
  <2>2. Elsewhere(pass'.steps) /\ IsList(pass'.steps)  BY <1>0, <2>1, StepsLeft, OneLess
  <2>3. QED  BY <1>0, <1>1, <2>2, NothingOfTheDay DEF day
<1>2. CASE \E t \in pass.rows : /\ \A u \in pass.rows : t <= u
                                /\ pass' = [pass EXCEPT !.rows = @ \ {t}]
                                /\ \E good : felt' = felt \union {[turn |-> t, good |-> good]}
  <2>1. PICK t \in pass.rows : /\ \A u \in pass.rows : t <= u
                               /\ pass' = [pass EXCEPT !.rows = @ \ {t}]
                               /\ \E good : felt' = felt \union {[turn |-> t, good |-> good]}
    BY <1>2
  <2>2. pass'.steps = pass.steps /\ pass'.rows = pass.rows \ {t}  BY <1>0, <2>1
  <2>3. \A u : IsFelt(u)' <=> IsFelt(u) \/ u = t
    <3>1. PICK good : felt' = felt \union {[turn |-> t, good |-> good]}  BY <2>1
    <3>2. ASSUME NEW u PROVE (\E f \in felt' : f.turn = u) <=> (\E f \in felt : f.turn = u) \/ u = t
      <4>1. [turn |-> t, good |-> good].turn = t  OBVIOUS
      <4>2. QED  BY <3>1, <4>1
    <3>3. QED  BY <3>2 DEF IsFelt
  <2>4. DOMAIN turns \subseteq Nat  BY <1>0, LenProperties
  <2>5. pass.rows \subseteq DOMAIN turns
        /\ \A s \in pass.rows, u \in DOMAIN turns : u < s /\ turns[u].outcome # "open" => IsFelt(u) \/ u \in pass.rows
    BY <1>0 DEF FeelsInOrder
  <2>6. FeelsInOrder'  BY <1>0, <2>2, <2>3, <2>5 DEF FeelsInOrder
  <2>7. FeltInOrder'
    <3>1. \A f \in felt' : f.turn \in DOMAIN turns  BY <1>0, <2>1, <2>5 DEF FeltInOrder
    <3>2. ASSUME NEW s \in DOMAIN turns, NEW u \in DOMAIN turns, u < s, IsFelt(s) \/ s = t, turns[u].outcome # "open"
          PROVE  IsFelt(u) \/ u = t
      <4>1. CASE IsFelt(s)  BY <1>0, <3>2, <4>1 DEF FeltInOrder
      <4>2. CASE s = t
        <5>1. u \in pass.rows => t <= u  BY <2>1
        <5>2. u \in Nat /\ t \in Nat /\ u < t  BY <2>4, <3>2, <4>2
        <5>3. QED  BY <2>5, <3>2, <4>2, <5>1, <5>2
      <4>3. QED  BY <3>2, <4>1, <4>2
    <3>3. QED  BY <1>0, <2>3, <3>1, <3>2 DEF FeltInOrder
  <2>8. WritesAll'  BY <1>0, <2>2 DEF WritesAll
  <2>9. DayShape' /\ MarkShape' /\ NothingForgotten'
    BY <1>0 DEF DayInv, DayShape, MarkShape, NothingForgotten, ReadBack
  <2>10. QED  BY <1>0, <2>2, <2>6, <2>7, <2>8, <2>9 DEF DayInv
<1>3. QED  BY <1>1, <1>2 DEF Felt

\* The exchange of a turn that names it is found, if it is among those that are read.
LEMMA FoundByName ==
  ASSUME DayShape, NEW i \in ReadBack
  PROVE  ForTurn(convo[i].turn) = convo[i]
<1> DEFINE t == convo[i].turn
           named == {j \in ReadBack : convo[j].turn = t}
<1>1. DOMAIN convo \subseteq Nat /\ i \in DOMAIN convo /\ convo # <<>>
  BY LenProperties, EmptySeq DEF DayShape, ReadBack
<1>2. named = {i}
  <2>1. ASSUME NEW j \in named PROVE j = i
    <3>1. j \in DOMAIN convo /\ convo[j].turn = t  BY DEF ReadBack
    <3>2. convo[i].turn \in Nat
      <4>1. convo[i] \in Exchange  BY <1>1 DEF DayShape
      <4>2. QED  BY <4>1 DEF Exchange
    <3>3. ~(i < j) /\ ~(j < i)  BY <1>1, <3>1, <3>2 DEF DayShape
    <3>4. QED  BY <1>1, <3>1, <3>3
  <2>2. QED  BY <2>1
<1> HIDE DEF named
<1>3. (CHOOSE k \in named : \A j \in named : k <= j) = i  BY <1>1, <1>2
<1>4. named # {}  BY <1>2
<1> DEFINE nearest == {k \in ReadBack : \A j \in ReadBack : Distance(convo[k], t) <= Distance(convo[j], t)}
           S == IF named # {} THEN named ELSE nearest
<1>5. S = named  BY <1>4
<1>6. ForTurn(t) = convo[CHOOSE k \in S : \A j \in S : k <= j]  BY <1>1 DEF ForTurn, named
<1> HIDE DEF S
<1>7. QED  BY <1>3, <1>5, <1>6

\* What is harvested: every turn that ends after the mark and is felt has its samples set down
\* to be written, and the mark will go to the last of them.
LEMMA HarvestBegins == ASSUME Shape, DayInv, Harvest PROVE DayInv'
<1>0. /\ turns' = turns /\ convo' = convo /\ felt' = felt /\ mark' = mark /\ files' = files
      /\ pass.steps # <<>> /\ IsList(pass.steps) /\ Ahead(pass.steps)
      /\ DOMAIN pass = {"steps", "rows", "newest", "before", "after", "limit"}
      /\ DayShape /\ MarkShape /\ FeltInOrder /\ NothingForgotten /\ turns \in Seq(Turn)
  BY PassIsAt DEF Harvest, day, sets, DayInv, DayShape, Shape, StepsOK
<1> DEFINE rows == {t \in DOMAIN turns : Completed(t) /\ turns[t].at > mark /\ IsFelt(t)}
<1>1. CASE pass' = Advance(pass)
  <2>1. pass'.steps = Tail(pass.steps)  BY <1>0, <1>1 DEF Advance
  <2>2. Elsewhere(pass'.steps) /\ IsList(pass'.steps)  BY <1>0, <2>1, StepsLeft, OneLess
  <2>3. QED  BY <1>0, <2>2, NothingOfTheDay DEF day
<1>2. CASE \E last \in rows :
             /\ \A u \in rows : u <= last
             /\ pass' = [Onto("harvesting") EXCEPT !.newest = turns[last].at, !.rows = UNION {Samples(t) : t \in rows}]
  <2>1. PICK last \in rows :
             /\ \A u \in rows : u <= last
             /\ pass' = [Onto("harvesting") EXCEPT !.newest = turns[last].at, !.rows = UNION {Samples(t) : t \in rows}]
    BY <1>2
  <2>2. /\ pass'.steps = <<"harvesting">> \o Tail(pass.steps) /\ pass'.newest = turns[last].at
        /\ pass'.rows = UNION {Samples(t) : t \in rows}
    BY <1>0, <2>1 DEF Onto
  <2>3. pass'.steps[1] = "harvesting" /\ Ahead(pass'.steps)  BY <1>0, <2>2, StepsLeft
  <2>4. FeelsInOrder'  BY <2>3 DEF FeelsInOrder
  <2>5. \A x \in pass'.rows : x.set \in {"actions", "conversation"}
    <3>1. ASSUME NEW t, NEW x \in Samples(t) PROVE x.set \in {"actions", "conversation"}
      BY <3>1 DEF Samples
    <3>2. QED  BY <2>2, <3>1
  <2>6. DOMAIN turns \subseteq Nat /\ \A t \in DOMAIN turns : turns[t].at \in Nat
    <3>1. DOMAIN turns = 1..Len(turns) /\ \A t \in 1..Len(turns) : turns[t] \in Turn
      BY <1>0, LenProperties, ElementOfSeq
    <3>2. QED  BY <3>1 DEF Turn
  <2>7. ASSUME NEW i \in ReadBack, OwnAnswer(i), turns[convo[i].turn].at <= turns[last].at
        PROVE  \/ HasDecision(convo[i].turn)
               \/ \E x \in pass'.rows : x.set = "actions" /\ x.turn = convo[i].turn
    <3> DEFINE t == convo[i].turn
    <3>0. t \in DOMAIN turns /\ turns[t].outcome = "answered" /\ convo[i].last = t /\ t \in Nat \ {0}
      <4>1. i \in DOMAIN convo  BY DEF ReadBack
      <4>2. t \in DOMAIN turns  BY <1>0, <4>1 DEF DayShape
      <4>3. t \in 1..Len(turns)  BY <1>0, <4>2, LenProperties
      <4>4. QED  BY <2>7, <4>2, <4>3 DEF OwnAnswer
    <3>1. CASE turns[t].at <= mark
      BY <1>0, <3>0, <3>1 DEF NothingForgotten, HasDecision
    <3>2. CASE ~(turns[t].at <= mark)
      <4>1. turns[t].at > mark  BY <2>6, <3>0, <3>2, <1>0 DEF MarkShape
      <4>2. ~(last < t)
        <5>1. last < t => turns[last].at < turns[t].at  BY <1>0, <3>0 DEF DayShape
        <5>2. turns[t].at \in Nat /\ turns[last].at \in Nat  BY <2>6, <3>0
        <5>3. QED  BY <2>7, <5>1, <5>2
      <4>3. t = last \/ t < last
        <5>1. t \in Nat /\ last \in Nat  BY <2>6, <3>0
        <5>2. QED  BY <4>2, <5>1
      <4>4. IsFelt(t)  BY <1>0, <3>0, <4>3 DEF FeltInOrder
      <4>5. t \in rows  BY <3>0, <4>1, <4>4 DEF Completed
      <4>6. ForTurn(t).last = t  BY <1>0, <3>0, FoundByName
      <4> DEFINE x == [set |-> "actions", turn |-> t, words |-> t]
      <4>7. x \in Samples(t)  BY <3>0, <4>6 DEF Samples
      <4>8. x \in pass'.rows  BY <2>2, <4>5, <4>7
      <4>9. QED  BY <4>8
    <3>3. QED  BY <3>1, <3>2
  <2>8. WritesAll'  BY <1>0, <2>2, <2>5, <2>7 DEF WritesAll, ReadBack, OwnAnswer, HasDecision
  <2>9. DayShape' /\ MarkShape' /\ FeltInOrder' /\ NothingForgotten'
    BY <1>0 DEF DayShape, MarkShape, FeltInOrder, IsFelt, NothingForgotten, ReadBack
  <2>10. QED  BY <2>3, <2>4, <2>8, <2>9 DEF DayInv
<1>3. QED  BY <1>1, <1>2 DEF Harvest, IsFelt

\* A set with one more line.
LEMMA OneMoreLine ==
  ASSUME NEW s, IsList(s), NEW x
  PROVE  LET r == Append(s, x) IN
           /\ IsList(r) /\ Len(s) \in Nat /\ DOMAIN r = 1..(Len(s) + 1) /\ DOMAIN s = 1..Len(s)
           /\ r[Len(s) + 1] = x /\ \A k \in DOMAIN s : r[k] = s[k]
<1>1. PICK S : s \in Seq(S)  BY DEF IsList
<1> DEFINE T == S \union {x}
           r == Append(s, x)
<1>2. s \in Seq(T) /\ x \in T  BY <1>1, SeqMonotonic
<1> HIDE DEF T
<1>3. r \in Seq(T) /\ Len(r) = Len(s) + 1 /\ (\A k \in 1..Len(s) : r[k] = s[k]) /\ r[Len(s) + 1] = x
  BY <1>2, AppendProperties
<1>4. DOMAIN s = 1..Len(s) /\ Len(s) \in Nat  BY <1>1, LenProperties
<1> HIDE DEF r
<1>5. DOMAIN r = 1..Len(r)  BY <1>3, LenProperties
<1>6. IsList(r)  BY <1>3 DEF IsList
<1>7. QED  BY <1>3, <1>4, <1>5, <1>6 DEF r

\* A sample is written; when there is none left the mark goes past what was harvested.
LEMMA HarvestGoesOn == ASSUME Shape, DayInv, Harvested PROVE DayInv'
<1>0. /\ turns' = turns /\ convo' = convo /\ felt' = felt
      /\ pass.steps # <<>> /\ pass.steps[1] = "harvesting" /\ IsList(pass.steps) /\ Ahead(pass.steps)
      /\ DOMAIN pass = {"steps", "rows", "newest", "before", "after", "limit"}
      /\ DayShape /\ MarkShape /\ FeltInOrder /\ NothingForgotten /\ WritesAll /\ turns \in Seq(Turn)
  BY PassIsAt DEF Harvested, day, DayInv, DayShape, Shape, StepsOK
<1>1. DayShape' /\ FeltInOrder'  BY <1>0 DEF DayShape, FeltInOrder, IsFelt
<1>2. /\ \A x \in pass.rows : x.set \in {"actions", "conversation"}
      /\ \E t \in DOMAIN turns : pass.newest = turns[t].at
      /\ \A i \in ReadBack : OwnAnswer(i) /\ turns[convo[i].turn].at <= pass.newest =>
           HasDecision(convo[i].turn) \/ \E x \in pass.rows : x.set = "actions" /\ x.turn = convo[i].turn
  BY <1>0 DEF WritesAll
<1>3. CASE pass.rows = {} /\ pass' = Advance(pass) /\ mark' = pass.newest /\ files' = files
  <2>1. pass'.steps = Tail(pass.steps)  BY <1>0, <1>3 DEF Advance
  <2>2. Elsewhere(pass'.steps) /\ IsList(pass'.steps)  BY <1>0, <2>1, StepsLeft, OneLess
  <2>3. Ahead(pass'.steps) /\ FeelsInOrder' /\ WritesAll'
    <3>1. Ahead(pass'.steps) /\ (pass'.steps # <<>> => pass'.steps[1] \notin UnderWay)
      BY <2>2, ElsewhereIsAhead
    <3>2. QED  BY <3>1 DEF FeelsInOrder, WritesAll, UnderWay
  <2>4. NothingForgotten'
    BY <1>0, <1>2, <1>3 DEF NothingForgotten, ReadBack, OwnAnswer, HasDecision
  <2>5. MarkShape'
    <3>1. PICK t \in DOMAIN turns : pass.newest = turns[t].at  BY <1>2
    <3>2. DOMAIN turns = 1..Len(turns) /\ Len(turns) \in Nat /\ turns # <<>>  BY <1>0, <3>1, LenProperties, EmptySeq
    <3>3. Len(turns) \in 1..Len(turns)  BY <3>1, <3>2
    <3>4. turns[t].at \in Nat /\ turns[Len(turns)].at \in Nat
      <4>1. turns[t] \in Turn /\ turns[Len(turns)] \in Turn  BY <1>0, <3>1, <3>2, <3>3, ElementOfSeq
      <4>2. QED  BY <4>1 DEF Turn
    <3>5. t = Len(turns) \/ t < Len(turns)  BY <3>1, <3>2
    <3>6. t < Len(turns) => turns[t].at < turns[Len(turns)].at  BY <1>0, <3>1, <3>2, <3>3 DEF DayShape
    <3>7. turns[t].at <= turns[Len(turns)].at  BY <3>4, <3>5, <3>6
    <3>8. mark' = turns[t].at  BY <1>3, <3>1
    <3>9. QED  BY <1>0, <1>3, <3>2, <3>4, <3>7, <3>8 DEF MarkShape
  <2>6. QED  BY <1>1, <2>3, <2>4, <2>5 DEF DayInv
<1>4. CASE \E x \in pass.rows : Write(x) /\ mark' = mark
  <2>1. PICK x \in pass.rows : Write(x) /\ mark' = mark  BY <1>4
  <2>2. /\ pass'.steps = pass.steps /\ pass'.rows = pass.rows \ {x} /\ pass'.newest = pass.newest
        /\ files' = [files EXCEPT ![x.set] = Append(files[x.set], x)]
    BY <1>0, <2>1 DEF Write
  <2>3. DOMAIN files = {"actions", "conversation"} /\ \A s \in DOMAIN files : IsList(files[s])  BY <1>0 DEF MarkShape
  <2>4. \A s \in {"actions", "conversation"} : files'[s] = IF s = x.set THEN Append(files[s], x) ELSE files[s]
    BY <2>2, <2>3
  <2>5. MarkShape'
    <3>1. DOMAIN files' = DOMAIN files  BY <2>2
    <3>2. \A s \in DOMAIN files : IsList(files'[s])  BY <2>3, <2>4, OneMoreLine
    <3>3. QED  BY <1>0, <2>1, <2>3, <3>1, <3>2 DEF MarkShape
  <2>6. \A t : HasDecision(t) \/ (x.set = "actions" /\ x.turn = t) => HasDecision(t)'
    <3>1. CASE x.set = "actions"
      <4>1. files'["actions"] = Append(files["actions"], x) /\ IsList(files["actions"])  BY <2>3, <2>4, <3>1
      <4> DEFINE r == Append(files["actions"], x)
      <4>2. /\ Len(files["actions"]) \in Nat /\ DOMAIN r = 1..(Len(files["actions"]) + 1)
            /\ DOMAIN files["actions"] = 1..Len(files["actions"])
            /\ r[Len(files["actions"]) + 1] = x /\ \A k \in DOMAIN files["actions"] : r[k] = files["actions"][k]
        BY <4>1, OneMoreLine
      <4>3. Len(files["actions"]) + 1 \in DOMAIN r /\ DOMAIN files["actions"] \subseteq DOMAIN r  BY <4>2
      <4>4. files'["actions"] = r  BY <4>1
      <4> HIDE DEF r
      <4>5. ASSUME NEW t, HasDecision(t) \/ x.turn = t PROVE \E k \in DOMAIN r : r[k].turn = t
        <5>1. CASE HasDecision(t)  BY <4>2, <4>3, <5>1 DEF HasDecision
        <5>2. CASE x.turn = t  BY <4>2, <4>3, <5>2
        <5>3. QED  BY <4>5, <5>1, <5>2
      <4>6. QED  BY <4>4, <4>5 DEF HasDecision
    <3>2. CASE x.set # "actions"  BY <2>4, <3>2 DEF HasDecision
    <3>3. QED  BY <3>1, <3>2
  <2>7. FeelsInOrder'  BY <1>0, <2>2 DEF FeelsInOrder
  <2>8. WritesAll'
    <3>1. \A y \in pass'.rows : y.set \in {"actions", "conversation"}  BY <1>2, <2>2
    <3>2. ASSUME NEW i \in ReadBack, OwnAnswer(i), turns[convo[i].turn].at <= pass.newest
          PROVE  (\E k \in DOMAIN files'["actions"] : files'["actions"][k].turn = convo[i].turn) \/ \E y \in pass'.rows : y.set = "actions" /\ y.turn = convo[i].turn
      <4>1. HasDecision(convo[i].turn) \/ \E y \in pass.rows : y.set = "actions" /\ y.turn = convo[i].turn
        BY <1>2, <3>2
      <4>2. HasDecision(convo[i].turn) => \E k \in DOMAIN files'["actions"] : files'["actions"][k].turn = convo[i].turn
        BY <2>6 DEF HasDecision
      <4>3. ASSUME NEW y \in pass.rows, y.set = "actions", y.turn = convo[i].turn, y \notin pass'.rows
            PROVE  \E k \in DOMAIN files'["actions"] : files'["actions"][k].turn = convo[i].turn
        <5>1. y = x  BY <2>2, <4>3
        <5>2. QED  BY <2>6, <4>3, <5>1 DEF HasDecision
      <4>4. QED  BY <4>1, <4>2, <4>3
    <3>3. QED  BY <1>0, <1>2, <2>2, <3>1, <3>2 DEF WritesAll, ReadBack, OwnAnswer, HasDecision
  <2>9. NothingForgotten'
    <3>1. \A i \in ReadBack : OwnAnswer(i) /\ turns[convo[i].turn].at <= mark => HasDecision(convo[i].turn)
      BY <1>0 DEF NothingForgotten, OwnAnswer, HasDecision
    <3>2. \A t : (\E k \in DOMAIN files["actions"] : files["actions"][k].turn = t)
                  => \E k \in DOMAIN files'["actions"] : files'["actions"][k].turn = t
      BY <2>6 DEF HasDecision
    <3>3. QED  BY <1>0, <2>1, <3>1, <3>2 DEF NothingForgotten, OwnAnswer, HasDecision, ReadBack
  <2>10. QED  BY <1>0, <1>1, <2>2, <2>5, <2>7, <2>8, <2>9 DEF DayInv
<1>5. QED  BY <1>3, <1>4 DEF Harvested

LEMMA DayInvInit == Init => DayInv
<1> SUFFICES ASSUME Init PROVE DayInv  OBVIOUS
<1>1. turns = <<>> /\ convo = <<>> /\ felt = {} /\ mark = 0 /\ pass.steps = <<>>
      /\ files = [s \in {"actions", "conversation"} |-> <<>>]
  BY DEF Init, NoPass
<1>2. \A S : <<>> \in Seq(S) /\ Len(<<>>) = 0 /\ DOMAIN <<>> = {}
  BY EmptySeq, LenProperties
<1>3. IsList(<<>>)
  <2>1. <<>> \in Seq({})  BY <1>2
  <2>2. QED  BY <2>1 DEF IsList
<1>4. DayShape  BY <1>1, <1>2 DEF DayShape
<1>5. MarkShape  BY <1>1, <1>3 DEF MarkShape
<1>6. FeltInOrder /\ FeelsInOrder /\ WritesAll  BY <1>1 DEF FeltInOrder, FeelsInOrder, WritesAll
<1>7. Ahead(pass.steps)  BY <1>1, <1>2 DEF Ahead
<1>8. NothingForgotten  BY <1>1, <1>2 DEF NothingForgotten, ReadBack
<1>9. QED  BY <1>4, <1>5, <1>6, <1>7, <1>8 DEF DayInv

LEMMA DayInvStep == ASSUME Inv, DayInv, [Next]_vars PROVE DayInv'
<1>0. Shape /\ OneAsks /\ IsList(pass.steps) /\ Ahead(pass.steps)  BY DEF Inv, DayInv, Shape, StepsOK
<1>1. CASE TakeTurn  BY <1>0, <1>1, ATurnIsTaken
<1>2. CASE Feel  BY <1>0, <1>2, FeelingBegins
<1>3. CASE Felt  BY <1>0, <1>3, ATurnIsFelt
<1>4. CASE Harvest  BY <1>0, <1>4, HarvestBegins
<1>5. CASE Harvested  BY <1>0, <1>5, HarvestGoesOn
<1> DEFINE Same == UNCHANGED <<day, felt, mark, files>>
<1>6. IsList(NoPass.steps) /\ Elsewhere(NoPass.steps)
  <2>1. <<>> \in Seq({}) /\ Len(<<>>) = 0  BY EmptySeq
  <2>2. IsList(<<>>)  BY <2>1 DEF IsList
  <2>3. Elsewhere(<<>>)  BY <2>1 DEF Elsewhere
  <2>4. NoPass.steps = <<>>  BY DEF NoPass
  <2>5. QED  BY <2>2, <2>3, <2>4
<1>7. CASE StartPass
  <2>1. PICK name : pass'.steps = Steps(name)
    <3>1. PICK name : pass' = [NoPass EXCEPT !.steps = Steps(name), !.limit = IF name = "nap" THEN NapMax ELSE NightMax]
      BY <1>7 DEF StartPass
    <3>2. pass'.steps = Steps(name)  BY <3>1 DEF NoPass
    <3>3. QED  BY <3>2
  <2>2. IsList(Steps(name))  BY LaidOut DEF StepsOK
  <2>3. Elsewhere(Steps(name))
    <3>1. Elsewhere(<<"feel", "harvest", "train">>)  BY DEF Elsewhere, UnderWay
    <3>2. Elsewhere(<<"feel", "harvest", "probe_before", "train", "probe_after", "merge">>)  BY DEF Elsewhere, UnderWay
    <3>3. QED  BY <3>1, <3>2 DEF Steps
  <2>4. Same  BY <1>7 DEF StartPass, sets
  <2>5. QED  BY <2>1, <2>2, <2>3, <2>4, NothingOfTheDay
<1>8. CASE EndPass \/ Stopped \/ Crash
  <2>1. Same /\ pass' = NoPass  BY <1>8 DEF EndPass, Stopped, Crash, sets
  <2>2. QED  BY <1>6, <2>1, NothingOfTheDay
<1>9. ASSUME NEW kind, NEW step, step \notin UnderWay, pass.steps # <<>>, Submit(kind, step) PROVE DayInv'
  <2>1. Same /\ pass'.steps = <<step>> \o Tail(pass.steps)  BY <1>0, <1>9 DEF Submit, Onto, sets, Shape
  <2>2. IsList(pass'.steps) /\ Elsewhere(pass'.steps)  BY <1>0, <1>9, <2>1, StepsLeft
  <2>3. QED  BY <2>1, <2>2, NothingOfTheDay
<1>10. CASE AskTrain \/ AskProbe \/ AskMerge
  <2>1. pass.steps # <<>>  BY <1>10 DEF AskTrain, AskProbe, AskMerge, At
  <2>2. \E kind, step : step \notin UnderWay /\ Submit(kind, step)
    <3>1. {"training", "probing_before", "probing_after", "merging"} \intersect UnderWay = {}  BY DEF UnderWay
    <3>2. QED  BY <1>10, <3>1 DEF AskTrain, AskProbe, AskMerge
  <2>3. QED  BY <1>9, <2>1, <2>2
<1>11. ASSUME Same, NEW seen, Reply(seen) PROVE DayInv'
  <2>1. CASE pass' = pass  BY <1>0, <1>11, <2>1, NothingOfTheDay
  <2>2. CASE worker.job.mine /\ pass' = Answered(pass, seen)
    <3>1. Awaits(pass) /\ PassShape(pass)  BY <1>0, <2>2 DEF OneAsks, Shape, PassShape
    <3>2. pass'.steps = Tail(pass.steps) /\ pass.steps # <<>>  BY <2>2, <3>1, AnsweredIs DEF Awaits
    <3>3. IsList(pass'.steps) /\ Elsewhere(pass'.steps)  BY <1>0, <3>2, StepsLeft, OneLess
    <3>4. QED  BY <1>11, <3>3, NothingOfTheDay
  <2>3. QED  BY <1>11, <2>1, <2>2 DEF Reply
<1>12. CASE Generate \/ Take \/ Merge \/ Drop \/ MarkConsumed \/ UNCHANGED vars
  <2>1. Same /\ pass' = pass
    BY <1>12 DEF Generate, Take, Merge, Drop, MarkConsumed, Then, vars, sets
  <2>2. QED  BY <1>0, <2>1, NothingOfTheDay
<1>13. CASE Speak  BY <1>11, <1>13 DEF Speak, sets
<1>14. CASE Probe  BY <1>11, <1>14 DEF Probe, sets
<1>15. CASE Practise
  <2>1. Same /\ (UNCHANGED pass \/ Reply(Unknown))  BY <1>15 DEF Practise, sets
  <2>2. QED  BY <1>0, <1>11, <2>1, NothingOfTheDay
<1>16. CASE Save  BY <1>11, <1>16 DEF Save, sets
<1>17. CASE JobFails  BY <1>11, <1>17 DEF JobFails, sets
<1>18. QED
  BY <1>1, <1>2, <1>3, <1>4, <1>5, <1>7, <1>8, <1>10, <1>12, <1>13, <1>14, <1>15, <1>16, <1>17
  DEF Next, PassNext, BrainNext

\* No turn that was answered and is still among what is read back has been gone past without a
\* decision to practise: for any number of turns, felt a few at a time, and however often a
\* pass is stopped or the container goes.
THEOREM NoTurnIsForgotten == Spec => []NothingForgotten
<1>1. Init => Inv /\ DayInv  BY InvInit, DayInvInit
<1>2. Inv /\ DayInv /\ [Next]_vars => Inv' /\ DayInv'  BY InvStep, DayInvStep
<1>3. DayInv => NothingForgotten  BY DEF DayInv
<1>4. QED  BY <1>1, <1>2, <1>3, PTL DEF Spec
==============================================================================
