------------------------------ MODULE Text_proofs ------------------------------
(***************************************************************************)
(* What is read, said and typed: the conversation of Journal, the          *)
(* generations of Parse, the turns of Mind and the line of Line, proved    *)
(* for every window, width, bound and length.                              *)
(*                                                                         *)
(* All of them fold over sequences, and nothing here can say "for every    *)
(* operator".  So the first part proves the facts about least and greatest *)
(* elements, about counting up in a set, and about what a fold is along    *)
(* the first places of a sequence, of a step given as a function; each     *)
(* fold is then named where it is used, and its path followed from place   *)
(* to place.                                                               *)
(***************************************************************************)
EXTENDS Mind, Line, TLAPS, WellFoundedInduction, SequenceTheorems, FiniteSetTheorems

------------------------------------------------------------------------------
(* Counting, and what a fold goes through *)

\* A set of numbers that has any has a least: an order in which one cannot go down for ever.
LEMMA LeastOf ==
  ASSUME NEW T, T \subseteq Nat, T # {}
  PROVE  \E x \in T : \A y \in T : x <= y
<1> DEFINE R == OpToRel(<, Nat)
<1>1. PICK x \in T : \A y \in T : ~(<<y, x>> \in R)  BY NatLessThanWellFounded, WFMin
<1>2. R = {ss \in Nat \X Nat : ss[1] < ss[2]}  BY DEF OpToRel
<1> HIDE DEF R
<1>3. \A y \in T : ~(y < x)
  <2> TAKE y \in T
  <2>1. <<y, x>> \in Nat \X Nat  OBVIOUS
  <2>2. ~(<<y, x>> \in R)  BY <1>1
  <2>3. y < x => <<y, x>> \in R
    <3> SUFFICES ASSUME y < x PROVE <<y, x>> \in R  OBVIOUS
    <3> QED  BY <1>2, <2>1
  <2> QED  BY <2>2, <2>3
<1>4. \A y \in T : x <= y
  <2> TAKE y \in T
  <2>1. x \in Nat /\ y \in Nat /\ ~(y < x)  BY <1>3
  <2> QED  BY ONLY <2>1
<1> QED  BY <1>4

\* Counting up from nought, one comes to every number: otherwise there would be a first one left
\* out.
LEMMA CountingUp ==
  ASSUME NEW S, 0 \in S, \A n \in Nat : n \in S => n + 1 \in S
  PROVE  \A n \in Nat : n \in S
<1> SUFFICES ASSUME NEW m \in Nat, m \notin S PROVE FALSE  OBVIOUS
<1> DEFINE T == Nat \ S
<1>1. T \subseteq Nat /\ T # {}  OBVIOUS
<1>2. PICK x \in T : \A y \in T : x <= y  BY <1>1, LeastOf
<1>3. x \in Nat /\ x # 0  OBVIOUS
<1>4. x - 1 \in Nat /\ ~(x <= x - 1) /\ (x - 1) + 1 = x  BY ONLY <1>3
<1>5. x - 1 \in S  BY <1>2, <1>4
<1> QED  BY <1>4, <1>5

\* The least and the greatest of a set that is not empty and has bounds are what they are called.
LEMMA MinOf ==
  ASSUME NEW T, T \subseteq Nat, T # {}
  PROVE  Min(T) \in T /\ \A y \in T : Min(T) <= y
<1>1. \E x \in T : \A y \in T : x =< y  BY LeastOf
<1> QED  BY <1>1 DEF Min

\* The greatest of a set of numbers that has any and is bounded.
LEMMA MaxOf ==
  ASSUME NEW T, NEW n \in Nat, T \subseteq 0..n, T # {}
  PROVE  Max(T) \in T /\ \A y \in T : y <= Max(T)
<1> DEFINE U == {k \in Nat : n - k \in T}
<1>1. PICK t : t \in T  OBVIOUS
<1>2. n - t \in Nat /\ n - (n - t) = t  BY <1>1
<1>3. U \subseteq Nat /\ U # {}  BY <1>1, <1>2
<1>4. PICK k \in U : \A j \in U : k <= j  BY <1>3, LeastOf
<1>5. k \in Nat /\ n - k \in T  OBVIOUS
<1>6. \A y \in T : n - k >= y
  <2> TAKE y \in T
  <2>1. n - y \in Nat /\ n - (n - y) = y  OBVIOUS
  <2>2. n - y \in U  BY <2>1
  <2>3. k <= n - y  BY <1>4, <2>2
  <2>4. y \in Nat  OBVIOUS
  <2> QED  BY <1>5, <2>3, <2>4
<1>7. \E x \in T : \A y \in T : x >= y  BY <1>5, <1>6
<1>8. Max(T) \in T /\ \A y \in T : Max(T) >= y  BY <1>7 DEF Max
<1>9. \A y \in T : y \in Nat OBVIOUS
<1> QED  BY <1>8, <1>9

\* What a fold over the places 1..n computes from the sets of them.
Climbs(it, n, base, G) ==
  it = [T \in SUBSET (1..n) |-> IF T = {} THEN base ELSE G[<<it[T \ {Max(T)}], Max(T)>>]]

Climbable(X, n, base, G) == \E it \in [SUBSET (1..n) -> X] : Climbs(it, n, base, G)

\* Any step given as a function climbs over any number of places.
LEMMA ClimbExists ==
  ASSUME NEW X, NEW base \in X, NEW n \in Nat, NEW G \in [X \X (1..n) -> X]
  PROVE  Climbable(X, n, base, G)
<1> DEFINE S == {m \in Nat : m <= n => Climbable(X, m, base, G)}
<1>1. 0 \in S
  <2> DEFINE it == [T \in SUBSET (1..0) |-> base]
  <2>1. \A T \in SUBSET (1..0) : T = {}  OBVIOUS
  <2>2. it \in [SUBSET (1..0) -> X]  OBVIOUS
  <2>3. it = [T \in SUBSET (1..0) |-> IF T = {} THEN base ELSE G[<<it[T \ {Max(T)}], Max(T)>>]]  BY <2>1
  <2>4. Climbs(it, 0, base, G)  BY <2>3 DEF Climbs
  <2> HIDE DEF it
  <2>5. Climbable(X, 0, base, G)  BY <2>2, <2>4 DEF Climbable
  <2> QED  BY <2>5
<1>2. \A m \in Nat : m \in S => m + 1 \in S
  <2> SUFFICES ASSUME NEW m \in Nat, m \in S, m + 1 <= n
               PROVE  Climbable(X, m + 1, base, G)
    OBVIOUS
  <2>a. Climbable(X, m, base, G)  OBVIOUS
  <2>1. PICK old \in [SUBSET (1..m) -> X] : Climbs(old, m, base, G)  BY <2>a DEF Climbable
  <2> DEFINE it == [T \in SUBSET (1..(m + 1)) |-> IF m + 1 \in T THEN G[<<old[T \ {m + 1}], m + 1>>] ELSE old[T]]
  <2>2. \A T \in SUBSET (1..(m + 1)) : T \ {m + 1} \in SUBSET (1..m)  OBVIOUS
  <2>3. m + 1 \in 1..n OBVIOUS
  <2>4. it \in [SUBSET (1..(m + 1)) -> X]
    <3>1. \A T \in SUBSET (1..(m + 1)) : m + 1 \in T => G[<<old[T \ {m + 1}], m + 1>>] \in X  BY <2>2, <2>3
    <3>2. \A T \in SUBSET (1..(m + 1)) : m + 1 \notin T => T \in SUBSET (1..m)  OBVIOUS
    <3>3. \A T \in SUBSET (1..(m + 1)) : m + 1 \notin T => old[T] \in X  BY <3>2
    <3> QED  BY <3>1, <3>3
  <2> DEFINE H(T) == IF T = {} THEN base ELSE G[<<it[T \ {Max(T)}], Max(T)>>]
  <2>5. \A T \in SUBSET (1..(m + 1)) : it[T] = H(T)
    <3> SUFFICES ASSUME NEW T \in SUBSET (1..(m + 1)) PROVE it[T] = H(T)  OBVIOUS
    <3>1. CASE m + 1 \in T
      <4>1. T # {} /\ T \subseteq 0..(m + 1)  BY <3>1
      <4>a. m + 1 \in Nat  OBVIOUS
      <4>2. Max(T) \in T /\ \A y \in T : y <= Max(T)  BY ONLY <4>1, <4>a, MaxOf
      <4>b. Max(T) \in 1..(m + 1) /\ m + 1 <= Max(T)  BY <4>2, <3>1
      <4>3. Max(T) = m + 1  BY ONLY <4>b, <4>a
      <4>4. T \ {m + 1} \in SUBSET (1..(m + 1)) /\ m + 1 \notin T \ {m + 1}  OBVIOUS
      <4>5. it[T \ {m + 1}] = old[T \ {m + 1}]  BY <4>4
      <4> QED  BY <3>1, <4>1, <4>3, <4>5
    <3>2. CASE m + 1 \notin T /\ T # {}
      <4>1. T \in SUBSET (1..m) /\ T \subseteq 0..m  BY <3>2
      <4>2. Max(T) \in T  BY <4>1, <3>2, MaxOf
      <4>3. T \ {Max(T)} \in SUBSET (1..(m + 1)) /\ m + 1 \notin T \ {Max(T)}  BY <3>2
      <4>4. it[T \ {Max(T)}] = old[T \ {Max(T)}]  BY <4>3
      <4>5. old[T] = G[<<old[T \ {Max(T)}], Max(T)>>]  BY <2>1, <4>1, <3>2 DEF Climbs
      <4> QED  BY <3>2, <4>4, <4>5
    <3>3. CASE T = {}
      <4>1. old[{}] = base  BY <2>1 DEF Climbs
      <4> QED  BY <3>3, <4>1
    <3> QED  BY <3>1, <3>2, <3>3
  <2>6. it = [T \in SUBSET (1..(m + 1)) |-> H(T)]
    <3> HIDE DEF H
    <3>1. it = [T \in SUBSET (1..(m + 1)) |-> it[T]]  OBVIOUS
    <3> HIDE DEF it
    <3> QED  BY <3>1, <2>5
  <2>7. Climbs(it, m + 1, base, G)  BY <2>6 DEF Climbs
  <2> HIDE DEF it
  <2> QED  BY <2>4, <2>7 DEF Climbable
<1>3. n \in S
  <2> HIDE DEF S
  <2> QED  BY <1>1, <1>2, CountingUp
<1> QED  BY <1>3

\* The values a fold goes through.
IsPath(a, X, n, base, G) ==
  /\ a \in [0..n -> X]
  /\ a[0] = base
  /\ \A k \in 1..n : a[k] = G[<<a[k - 1], k>>]
StepsAlong(it, X, n, base, G) ==
  /\ it[{}] = base
  /\ \A k \in 1..n : it[1..(k - 1)] \in X => it[1..k] = G[<<it[1..(k - 1)], k>>]

Trace(it, n) == [k \in 0..n |-> it[1..k]]

\* Along the places it goes from value to value, as a loop does.
LEMMA PathOf ==
  ASSUME NEW X, NEW base \in X, NEW n \in Nat, NEW G \in [X \X (1..n) -> X], NEW it,
         StepsAlong(it, X, n, base, G)
  PROVE  IsPath(Trace(it, n), X, n, base, G)
<1> DEFINE S == {m \in Nat : m <= n => it[1..m] \in X}
<1>1. it[{}] = base /\ 1..0 = {}  BY DEF StepsAlong
<1>2. 0 \in S  BY <1>1
<1>3. \A m \in Nat : m \in S => m + 1 \in S
  <2> SUFFICES ASSUME NEW m \in Nat, m \in S, m + 1 <= n PROVE it[1..(m + 1)] \in X  OBVIOUS
  <2>1. m + 1 \in 1..n /\ (m + 1) - 1 = m /\ m <= n  OBVIOUS
  <2>2. it[1..m] \in X  BY <2>1
  <2>3. it[1..(m + 1)] = G[<<it[1..m], m + 1>>]  BY <2>1, <2>2 DEF StepsAlong
  <2> QED  BY <2>1, <2>2, <2>3
<1>4. \A m \in Nat : m \in S
  <2> HIDE DEF S
  <2> QED  BY <1>2, <1>3, CountingUp
<1>5. \A m \in 0..n : it[1..m] \in X  BY <1>4
<1> DEFINE a == [k \in 0..n |-> it[1..k]]
<1>6. a \in [0..n -> X] /\ a[0] = base  BY <1>1, <1>5
<1>7. \A k \in 1..n : a[k] = G[<<a[k - 1], k>>]
  <2> TAKE k \in 1..n
  <2>1. k \in 0..n /\ k - 1 \in 0..n  OBVIOUS
  <2>2. it[1..(k - 1)] \in X  BY <2>1, <1>5
  <2> QED  BY <2>1, <2>2 DEF StepsAlong
<1> QED  BY <1>6, <1>7 DEF IsPath, Trace

\* A set of places from the first on, its last one, and what is left without it.
LEMMA FirstPlaces ==
  ASSUME NEW k \in Nat \ {0}
  PROVE  (1..k) # {} /\ Max(1..k) = k /\ (1..k) \ {k} = 1..(k - 1)
<1>1. 1..k # {} /\ 1..k \subseteq 0..k /\ k \in Nat /\ k \in 1..k  OBVIOUS
<1>2. Max(1..k) \in 1..k /\ \A y \in 1..k : y <= Max(1..k)  BY ONLY <1>1, MaxOf
<1>3. Max(1..k) \in 1..k /\ k <= Max(1..k)  BY <1>1, <1>2
<1> QED  BY <1>3

------------------------------------------------------------------------------
(* Reading a generation *)

\* A generation: pieces, each knowing its place.
P == [t : Pieces, at : Nat]
InPlace(r) == r \in Seq(P) /\ \A i \in 1..Len(r) : r[i].at = i

Finds(s, t, from, k) ==
  /\ k \in Nat
  /\ k = 0 => \A i \in from..Len(s) : s[i].t # t
  /\ k # 0 => k \in from..Len(s) /\ s[k].t = t /\ \A i \in from..(k - 1) : s[i].t # t

\* Find gives the first piece of a kind from some place on, or nought.
LEMMA FindIs ==
  ASSUME NEW s, Len(s) \in Nat, NEW t, NEW from \in Nat \ {0}
  PROVE  Finds(s, t, from, Find(s, t, from))
<1> DEFINE I == {i \in from..Len(s) : s[i].t = t}
<1>1. Find(s, t, from) = IF I # {} THEN Min(I) ELSE 0  BY DEF Find, SelectInSubSeq
<1>2. CASE I = {}  BY <1>1, <1>2 DEF Finds
<1>3. CASE I # {}
  <2>1. I \subseteq Nat  OBVIOUS
  <2>2. Min(I) \in I /\ \A y \in I : Min(I) <= y  BY <2>1, <1>3, MinOf
  <2>3. Min(I) \in from..Len(s) /\ Min(I) \in Nat \ {0} /\ s[Min(I)].t = t  BY <2>2
  <2>4. ASSUME NEW i \in from..(Min(I) - 1) PROVE s[i].t # t
    <3>1. i \in from..Len(s) /\ ~(Min(I) <= i)  BY <2>3
    <3> QED  BY <2>2, <3>1
  <2> QED  BY <1>1, <1>3, <2>3, <2>4 DEF Finds
<1> QED  BY <1>2, <1>3

\* What was said is the generation without the reasoning.
Spares(said, r, R) ==
  /\ said \in Seq(P)
  /\ \A j \in 1..Len(said) : said[j].at \in (1..Len(r)) \ R /\ said[j] = r[said[j].at]
  /\ \A i, j \in 1..Len(said) : i < j => said[i].at < said[j].at
  /\ \A i \in (1..Len(r)) \ R : \E j \in 1..Len(said) : said[j].at = i

\* A beginning of a generation is all of it but the rest,
LEMMA BeginningIsSpared ==
  ASSUME NEW r, InPlace(r), NEW m \in 0..Len(r)
  PROVE  Spares(SubSeq(r, 1, m), r, (m + 1)..Len(r)) /\ Len(SubSeq(r, 1, m)) = m
<1>1. r \in Seq(P) /\ Len(r) \in Nat /\ \A i \in 1..Len(r) : r[i] \in P /\ r[i].at = i  BY DEF InPlace
<1>2. \A i \in 1..m : i \in 1..Len(r) /\ r[i] \in P  BY <1>1
<1> DEFINE s == SubSeq(r, 1, m)
<1>3. s \in Seq(P) /\ Len(s) = m /\ \A i \in 1..m : s[i] = r[i]
  <2>1. 1 \in Int /\ m \in Int  BY <1>1
  <2>2. s \in Seq(P) /\ Len(s) = (IF 1 <= m THEN m - 1 + 1 ELSE 0) /\ \A i \in 1..(m - 1 + 1) : s[i] = r[1 + i - 1]
    BY <2>1, <1>2, SubSeqProperties
  <2> QED  BY <2>2, <1>1
<1> HIDE DEF s
<1>4. \A i \in 1..m : s[i].at = i /\ s[i] = r[i]  BY <1>1, <1>2, <1>3
<1>5. \A i \in 1..m : i \in 1..Len(r) /\ i \notin (m + 1)..Len(r)  BY <1>1
<1>6. \A i \in (1..Len(r)) \ ((m + 1)..Len(r)) : i \in 1..m  BY <1>1
<1> QED  BY <1>3, <1>4, <1>5, <1>6 DEF s, Spares

\* and what is around a stretch of it is all but the stretch.
LEMMA RestIsSpared ==
  ASSUME NEW r, InPlace(r), NEW a \in 1..Len(r), NEW b \in a..Len(r)
  PROVE  Spares(SubSeq(r, 1, a - 1) \o SubSeq(r, b + 1, Len(r)), r, a..b)
<1>1. r \in Seq(P) /\ Len(r) \in Nat /\ \A i \in 1..Len(r) : r[i] \in P /\ r[i].at = i  BY DEF InPlace
<1> DEFINE s == SubSeq(r, 1, a - 1)
           u == SubSeq(r, b + 1, Len(r))
           v == s \o u
           n == Len(r)
<1>2. a - 1 \in 0..n /\ a \in Nat /\ b \in Nat /\ a <= b /\ b <= n /\ n \in Nat /\ 1 <= a  BY <1>1
<1>3. s \in Seq(P) /\ Len(s) = a - 1
  BY <1>2, BeginningIsSpared DEF Spares
<1>4. \A i \in 1..(a - 1) : s[i] = r[i]
  <2>1. \A i \in 1..(a - 1) : r[i] \in P  BY <1>1, <1>2
  <2>2. 1 \in Int /\ a - 1 \in Int  BY <1>2
  <2>3. \A i \in 1..((a - 1) - 1 + 1) : s[i] = r[1 + i - 1]  BY <2>1, <2>2, SubSeqProperties
  <2> QED  BY <2>3, <1>2
<1>5. u \in Seq(P) /\ Len(u) = n - b /\ \A i \in 1..(n - b) : u[i] = r[b + i]
  <2>1. \A i \in (b + 1)..n : r[i] \in P  BY <1>1, <1>2
  <2>2. b + 1 \in Int /\ n \in Int  BY <1>2
  <2>3. u \in Seq(P) /\ Len(u) = (IF b + 1 <= n THEN n - (b + 1) + 1 ELSE 0)
        /\ \A i \in 1..(n - (b + 1) + 1) : u[i] = r[(b + 1) + i - 1]  BY <2>1, <2>2, SubSeqProperties
  <2>4. n - (b + 1) + 1 = n - b /\ (~(b + 1 <= n) => n - b = 0)  BY <1>2
  <2>5. \A i \in 1..(n - b) : (b + 1) + i - 1 = b + i  BY <1>2
  <2> QED  BY <2>3, <2>4, <2>5
<1> HIDE DEF s, u, n
<1>6. v \in Seq(P) /\ Len(v) = (a - 1) + (n - b)
      /\ \A i \in 1..((a - 1) + (n - b)) : v[i] = IF i <= a - 1 THEN s[i] ELSE u[i - (a - 1)]
  <2>1. s \in Seq(P) /\ u \in Seq(P)  BY <1>3, <1>5
  <2>2. v \in Seq(P) /\ Len(v) = Len(s) + Len(u)
        /\ \A i \in 1..(Len(s) + Len(u)) : v[i] = IF i <= Len(s) THEN s[i] ELSE u[i - Len(s)]
    BY <2>1, ConcatProperties
  <2>3. Len(s) = a - 1 /\ Len(u) = n - b  BY <1>3, <1>5
  <2> HIDE DEF v
  <2> QED  BY ONLY <2>2, <2>3
<1> HIDE DEF v
<1> DEFINE At(i) == IF i <= a - 1 THEN i ELSE b + (i - (a - 1))
<1>7. \A i \in 1..((a - 1) + (n - b)) : At(i) \in 1..n /\ At(i) \notin a..b /\ v[i] = r[At(i)]
  <2> TAKE i \in 1..((a - 1) + (n - b))
  <2>1. CASE i <= a - 1
    <3>1. i \in 1..(a - 1) /\ i \in 1..n /\ i \notin a..b  BY <2>1, <1>2
    <3> QED  BY <3>1, <2>1, <1>6, <1>4
  <2>2. CASE ~(i <= a - 1)
    <3>1. i - (a - 1) \in 1..(n - b) /\ b + (i - (a - 1)) \in 1..n /\ b + (i - (a - 1)) \notin a..b  BY <2>2, <1>2
    <3> QED  BY <3>1, <2>2, <1>6, <1>5
  <2> QED  BY <2>1, <2>2
<1>8. \A i \in 1..((a - 1) + (n - b)) : v[i].at = At(i)
  <2> HIDE DEF At
  <2> QED  BY <1>7, <1>1 DEF n
<1>9. \A i, j \in 1..((a - 1) + (n - b)) : i < j => At(i) < At(j)  BY <1>2
<1>10. \A i \in (1..n) \ (a..b) : \E j \in 1..((a - 1) + (n - b)) : At(j) = i
  <2> TAKE i \in (1..n) \ (a..b)
  <2>1. CASE i < a
    <3>1. i \in 1..((a - 1) + (n - b)) /\ At(i) = i  BY <2>1, <1>2
    <3> QED  BY <3>1
  <2>2. CASE ~(i < a)
    <3>1. i > b /\ (i - b) + (a - 1) \in 1..((a - 1) + (n - b)) /\ At((i - b) + (a - 1)) = i  BY <2>2, <1>2
    <3> QED  BY <3>1
  <2> QED  BY <2>1, <2>2
<1> HIDE DEF At
<1>11. \A i, j \in 1..Len(v) : i < j => v[i].at < v[j].at  BY <1>6, <1>8, <1>9
<1>12. \A j \in 1..Len(v) : v[j].at \in (1..n) \ (a..b) /\ v[j] = r[v[j].at]  BY <1>6, <1>7, <1>8
<1>13. \A i \in (1..n) \ (a..b) : \E j \in 1..Len(v) : v[j].at = i  BY <1>6, <1>8, <1>10
<1> QED  BY <1>6, <1>11, <1>12, <1>13 DEF Spares, v, s, u, n

\* What was said is all of a generation but its reasoning, however the block was left.
LEMMA ReasoningIsTakenOut ==
  ASSUME NEW r, InPlace(r)
  PROVE  Spares(Unreasoned(r).said, r, Reasoning(r))
<1>1. r \in Seq(P) /\ Len(r) \in Nat  BY DEF InPlace
<1> DEFINE open == Find(r, "<think>", 1)
           close == Find(r, "</think>", open + 1)
<1>2. Finds(r, "<think>", 1, open)  BY <1>1, FindIs
<1>3. open + 1 \in Nat \ {0}  BY <1>2 DEF Finds
<1> HIDE DEF open
<1>4. Finds(r, "</think>", open + 1, close)  BY <1>1, <1>3, FindIs
<1>5. Reasoning(r) = IF open = 0 THEN {} ELSE open..(IF close = 0 THEN Len(r) ELSE close)
  BY DEF Reasoning, open
<1>6. Unreasoned(r).said = IF open = 0 THEN r ELSE IF close = 0 THEN SubSeq(r, 1, open - 1)
                           ELSE SubSeq(r, 1, open - 1) \o SubSeq(r, close + 1, Len(r))
  BY DEF Unreasoned, open
<1> HIDE DEF close
<1>7. CASE open = 0
  <2>1. SubSeq(r, 1, Len(r)) = r  BY <1>1, SubSeqFull
  <2>2. Len(r) \in 0..Len(r) /\ (Len(r) + 1)..Len(r) = {}  BY <1>1
  <2>3. Spares(SubSeq(r, 1, Len(r)), r, (Len(r) + 1)..Len(r))  BY <2>2, BeginningIsSpared
  <2> QED  BY <2>1, <2>2, <2>3, <1>5, <1>6, <1>7
<1>8. CASE open # 0 /\ close = 0
  <2>1. open \in 1..Len(r)  BY <1>2, <1>8 DEF Finds
  <2>2. open - 1 \in 0..Len(r) /\ (open - 1) + 1 = open  BY <2>1, <1>1
  <2>3. Spares(SubSeq(r, 1, open - 1), r, ((open - 1) + 1)..Len(r))  BY <2>2, BeginningIsSpared
  <2> QED  BY <2>2, <2>3, <1>5, <1>6, <1>8
<1>9. CASE open # 0 /\ close # 0
  <2>1. open \in 1..Len(r)  BY <1>2, <1>9 DEF Finds
  <2>2. close \in (open + 1)..Len(r)  BY <1>4, <1>9 DEF Finds
  <2>3. close \in open..Len(r)  BY <2>1, <2>2
  <2>4. Spares(SubSeq(r, 1, open - 1) \o SubSeq(r, close + 1, Len(r)), r, open..close)  BY <2>1, <2>3, RestIsSpared
  <2> QED  BY <2>4, <1>5, <1>6, <1>9
<1> QED  BY <1>7, <1>8, <1>9

\* What lifting the calls out may have come to.
LiftState == [speech : Seq(P), calls : Seq(Tools), inner : Seq(P), open : BOOLEAN, cut : BOOLEAN]

\* Lifting a piece leaves words, calls and whether a call is open.
LEMMA LiftTyped ==
  ASSUME NEW l \in LiftState, NEW p \in P
  PROVE  LiftPiece(l, p) \in LiftState
<1>1. ReadCall(l.inner) \in Seq(Tools)
  <2>1. CASE Len(l.inner) = 1 /\ l.inner[1].t \in Tools
    <3>1. ReadCall(l.inner) = <<l.inner[1].t>>  BY <2>1 DEF ReadCall
    <3>2. <<l.inner[1].t>> \in Seq(Tools)  BY <2>1
    <3> QED  BY <3>1, <3>2
  <2>2. CASE ~(Len(l.inner) = 1 /\ l.inner[1].t \in Tools)
    <3>1. ReadCall(l.inner) = <<>>  BY <2>2 DEF ReadCall
    <3> QED  BY <3>1, EmptySeq
  <2> QED  BY <2>1, <2>2
<1>2. l.calls \o ReadCall(l.inner) \in Seq(Tools)
  <2>1. l.calls \in Seq(Tools)  BY DEF LiftState
  <2> QED  BY <1>1, <2>1, ConcatProperties
<1>3. Append(l.inner, p) \in Seq(P) /\ Append(l.speech, p) \in Seq(P)
  <2>1. l.inner \in Seq(P) /\ l.speech \in Seq(P)  BY DEF LiftState
  <2> QED  BY <2>1, AppendProperties
<1>4. <<>> \in Seq(P)  BY EmptySeq
<1>5. CASE l.open /\ p.t = "</call>"  BY <1>2, <1>4, <1>5 DEF LiftPiece, LiftState
<1>6. CASE l.open /\ p.t # "</call>"  BY <1>3, <1>6 DEF LiftPiece, LiftState
<1>7. CASE ~l.open /\ p.t = "<call>"  BY <1>7 DEF LiftPiece, LiftState
<1>8. CASE ~l.open /\ p.t # "<call>"  BY <1>3, <1>8 DEF LiftPiece, LiftState
<1> QED  BY <1>5, <1>6, <1>7, <1>8 DEF LiftState

\* The values the lifting of a sequence of pieces goes through.
Lifts(a, s) ==
  /\ a \in [0..Len(s) -> LiftState]
  /\ a[0] = NothingLifted
  /\ \A k \in 1..Len(s) : a[k] = LiftPiece(a[k - 1], s[k])

\* Lifting goes through a generation piece by piece.
LEMMA LiftingExists ==
  ASSUME NEW s \in Seq(P)
  PROVE  \E a : Lifts(a, s) /\ a[Len(s)] = Lifted(s)
<1> DEFINE n == Len(s)
           X == LiftState
           base == NothingLifted
           G == [p \in X \X (1..n) |-> LiftPiece(p[1], s[p[2]])]
           H(it) == [T \in SUBSET (1..n) |-> IF T = {} THEN base ELSE LiftPiece(it[T \ {Max(T)}], s[Max(T)])]
           Folds(it) == it = H(it)
           f == CHOOSE it : Folds(it)
<1>a. n \in Nat /\ DOMAIN s = 1..n /\ \A k \in 1..n : s[k] \in P  OBVIOUS
<1>b. base \in X
  <2>1. <<>> \in Seq(P) /\ <<>> \in Seq(Tools)  BY EmptySeq
  <2> QED  BY <2>1 DEF NothingLifted, LiftState
<1>c. \A x \in X, k \in 1..n : LiftPiece(x, s[k]) \in X  BY <1>a, LiftTyped
<1> HIDE DEF X, base, n
<1>1. Lifted(s) = f[1..n]
  <2>1. DOMAIN s = 1..n  BY <1>a
  <2> QED  BY <2>1 DEF Lifted, FoldLeft, MapThenFoldSet, base
<1>2. \A x \in X, k \in 1..n : G[<<x, k>>] = LiftPiece(x, s[k])  OBVIOUS
<1>3. G \in [X \X (1..n) -> X]  BY <1>c
<1> HIDE DEF G
<1>4. PICK it \in [SUBSET (1..n) -> X] : Climbs(it, n, base, G)  BY <1>a, <1>b, <1>3, ClimbExists DEF Climbable
<1>5. \A T \in SUBSET (1..n) : T # {} => T \ {Max(T)} \in SUBSET (1..n) /\ Max(T) \in 1..n
  <2> TAKE T \in SUBSET (1..n)
  <2>1. T \subseteq 0..n /\ n \in Nat  BY <1>a
  <2> QED  BY <2>1, MaxOf
<1>6. Folds(it)
  <2>1. \A T \in SUBSET (1..n) : T # {} => G[<<it[T \ {Max(T)}], Max(T)>>] = LiftPiece(it[T \ {Max(T)}], s[Max(T)])
    BY <1>2, <1>5
  <2> QED  BY <1>4, <2>1 DEF Climbs
<1>7. Folds(f)
  <2> HIDE DEF Folds
  <2> QED  BY <1>6
<1> HIDE DEF f
<1>8. StepsAlong(f, X, n, base, G)
  <2>1. f[{}] = base  BY <1>7
  <2>2. ASSUME NEW k \in 1..n, f[1..(k - 1)] \in X PROVE f[1..k] = G[<<f[1..(k - 1)], k>>]
    <3>1. k \in Nat \ {0} /\ 1..k \in SUBSET (1..n)  BY <1>a
    <3>2. (1..k) # {} /\ Max(1..k) = k /\ (1..k) \ {k} = 1..(k - 1)  BY <3>1, FirstPlaces
    <3>3. f[1..k] = LiftPiece(f[1..(k - 1)], s[k])  BY <1>7, <3>1, <3>2
    <3> QED  BY <3>3, <2>2, <1>2
  <2> QED  BY <2>1, <2>2 DEF StepsAlong
<1>9. IsPath(Trace(f, n), X, n, base, G)  BY <1>a, <1>b, <1>3, <1>8, PathOf
<1>10. Trace(f, n)[n] = f[1..n]  BY <1>a DEF Trace
<1>11. \A k \in 1..n : k - 1 \in 0..n  BY <1>a
<1>12. Lifts(Trace(f, n), s)  BY <1>2, <1>9, <1>11 DEF IsPath, Lifts, X, base, n
<1> QED  BY <1>1, <1>10, <1>12 DEF n

\* Whether a call is open after the first k pieces.
InsideAt(s, k) == \E j \in 1..k : s[j].t = "<call>" /\ \A m \in (j + 1)..k : s[m].t # "</call>"

\* Only the tags of a call change whether one is inside of a call.
LEMMA InsideNext ==
  ASSUME NEW s, NEW k \in Nat
  PROVE  /\ ~InsideAt(s, 0)
         /\ s[k + 1].t = "<call>" => InsideAt(s, k + 1)
         /\ s[k + 1].t = "</call>" => ~InsideAt(s, k + 1)
         /\ s[k + 1].t \notin {"<call>", "</call>"} => (InsideAt(s, k + 1) <=> InsideAt(s, k))
         /\ s[k + 1].t # "</call>" /\ InsideAt(s, k) => InsideAt(s, k + 1)
<1>1. ~InsideAt(s, 0)  BY DEF InsideAt
<1>2. ASSUME s[k + 1].t = "<call>" PROVE InsideAt(s, k + 1)
  <2>1. k + 1 \in 1..(k + 1) /\ \A m \in ((k + 1) + 1)..(k + 1) : FALSE  OBVIOUS
  <2> QED  BY <1>2, <2>1 DEF InsideAt
<1>3. ASSUME s[k + 1].t = "</call>" PROVE ~InsideAt(s, k + 1)
  <2> SUFFICES ASSUME NEW j \in 1..(k + 1), s[j].t = "<call>", \A m \in (j + 1)..(k + 1) : s[m].t # "</call>"
               PROVE FALSE  BY DEF InsideAt
  <2>1. j # k + 1  BY <1>3
  <2>2. k + 1 \in (j + 1)..(k + 1)  BY <2>1
  <2> QED  BY <1>3, <2>2
<1>4. ASSUME s[k + 1].t # "</call>", InsideAt(s, k) PROVE InsideAt(s, k + 1)
  <2>1. PICK j \in 1..k : s[j].t = "<call>" /\ \A m \in (j + 1)..k : s[m].t # "</call>"  BY <1>4 DEF InsideAt
  <2>2. j \in 1..(k + 1) /\ \A m \in (j + 1)..(k + 1) : m \in (j + 1)..k \/ m = k + 1  OBVIOUS
  <2>3. \A m \in (j + 1)..(k + 1) : s[m].t # "</call>"  BY <1>4, <2>1, <2>2
  <2> QED  BY <2>1, <2>2, <2>3 DEF InsideAt
<1>5. ASSUME s[k + 1].t # "<call>", InsideAt(s, k + 1) PROVE InsideAt(s, k)
  <2>1. PICK j \in 1..(k + 1) : s[j].t = "<call>" /\ \A m \in (j + 1)..(k + 1) : s[m].t # "</call>"
    BY <1>5 DEF InsideAt
  <2>2. j # k + 1  BY <1>5, <2>1
  <2>3. j \in 1..k /\ \A m \in (j + 1)..k : m \in (j + 1)..(k + 1)  BY <2>2
  <2> QED  BY <2>1, <2>3 DEF InsideAt
<1> QED  BY <1>1, <1>2, <1>3, <1>4, <1>5

\* What is shown after k pieces stood outside of every call.
Shows(l, s, k) ==
  /\ l.open <=> InsideAt(s, k)
  /\ \A q \in 1..Len(l.speech) : \E j \in 1..k : l.speech[q] = s[j] /\ ~InsideAt(s, j - 1)

\* One piece lifted more, what is shown is still from outside of every call,
LEMMA OnePieceMore ==
  ASSUME NEW s, NEW k \in Nat, NEW l \in LiftState, Shows(l, s, k), s[k + 1] \in P
  PROVE  Shows(LiftPiece(l, s[k + 1]), s, k + 1)
<1> DEFINE p == s[k + 1]
           after == LiftPiece(l, p)
<1>1. l.open \in BOOLEAN /\ l.speech \in Seq(P)  BY DEF LiftState
<1>2. after.open <=> InsideAt(s, k + 1)
  <2>1. l.open <=> InsideAt(s, k)  BY DEF Shows
  <2>2. CASE l.open /\ p.t = "</call>"
    <3>1. after.open = FALSE  BY <2>2 DEF LiftPiece, LiftState
    <3> QED  BY <3>1, <2>2, InsideNext
  <2>3. CASE l.open /\ p.t # "</call>"
    <3>1. after.open = l.open  BY <2>3 DEF LiftPiece, LiftState
    <3> QED  BY <3>1, <2>1, <2>3, InsideNext
  <2>4. CASE ~l.open /\ p.t = "<call>"
    <3>1. after.open = TRUE  BY <2>4 DEF LiftPiece, LiftState
    <3> QED  BY <3>1, <2>4, InsideNext
  <2>5. CASE ~l.open /\ p.t # "<call>"
    <3>1. after.open = l.open  BY <2>5 DEF LiftPiece, LiftState
    <3>2. ~InsideAt(s, k + 1)
      <4>1. CASE p.t = "</call>"  BY <4>1, InsideNext
      <4>2. CASE p.t # "</call>"
        <5>1. p.t \notin {"<call>", "</call>"}  BY <4>2, <2>5
        <5> QED  BY <5>1, <2>1, <2>5, InsideNext
      <4> QED  BY <4>1, <4>2
    <3> QED  BY <3>1, <3>2, <2>5
  <2> QED  BY <1>1, <2>2, <2>3, <2>4, <2>5
<1>3. \A q \in 1..Len(after.speech) : \E j \in 1..(k + 1) : after.speech[q] = s[j] /\ ~InsideAt(s, j - 1)
  <2>1. CASE after.speech = l.speech
    <3>1. \A j \in 1..k : j \in 1..(k + 1)  OBVIOUS
    <3> HIDE DEF after
    <3> QED  BY <2>1, <3>1 DEF Shows
  <2>2. CASE ~l.open /\ after.speech = Append(l.speech, p)
    <3>1. Len(after.speech) = Len(l.speech) + 1 /\ Len(l.speech) \in Nat
          /\ \A q \in 1..Len(l.speech) : after.speech[q] = l.speech[q]
      BY <1>1, <2>2, AppendProperties
    <3>2. after.speech[Len(l.speech) + 1] = p  BY <1>1, <2>2, AppendProperties
    <3>3. ~InsideAt(s, (k + 1) - 1) /\ k + 1 \in 1..(k + 1)
      <4>1. (k + 1) - 1 = k  OBVIOUS
      <4> QED  BY <4>1, <2>2 DEF Shows
    <3> TAKE q \in 1..Len(after.speech)
    <3> HIDE DEF after
    <3>4. CASE q = Len(l.speech) + 1  BY <3>4, <3>2, <3>3
    <3>5. CASE q # Len(l.speech) + 1
      <4>1. q \in 1..Len(l.speech)  BY <3>1, <3>5
      <4>2. PICK j \in 1..k : l.speech[q] = s[j] /\ ~InsideAt(s, j - 1)  BY <4>1 DEF Shows
      <4>3. j \in 1..(k + 1)  OBVIOUS
      <4> QED  BY <4>1, <4>2, <4>3, <3>1
    <3> QED  BY <3>4, <3>5
  <2>3. after.speech = l.speech \/ (~l.open /\ after.speech = Append(l.speech, p))  BY DEF LiftPiece, LiftState
  <2> QED  BY <2>1, <2>2, <2>3
<1> QED  BY <1>2, <1>3 DEF Shows

\* and so it is when all of them are lifted.
LEMMA LiftedShows ==
  ASSUME NEW s \in Seq(P)
  PROVE  Lifted(s) \in LiftState /\ Shows(Lifted(s), s, Len(s))
<1>1. PICK a : Lifts(a, s) /\ a[Len(s)] = Lifted(s)  BY LiftingExists
<1>2. Len(s) \in Nat /\ \A k \in 1..Len(s) : s[k] \in P  OBVIOUS
<1> DEFINE S == {k \in Nat : k <= Len(s) => Shows(a[k], s, k)}
<1>3. 0 \in S
  <2>1. a[0].open = FALSE /\ a[0].speech = <<>>  BY <1>1 DEF Lifts, NothingLifted
  <2>2. 1..Len(a[0].speech) = {}  BY <2>1
  <2>3. ~InsideAt(s, 0)  BY DEF InsideAt
  <2> QED  BY <2>1, <2>2, <2>3 DEF Shows
<1>4. \A k \in Nat : k \in S => k + 1 \in S
  <2> SUFFICES ASSUME NEW k \in Nat, k \in S, k + 1 <= Len(s) PROVE Shows(a[k + 1], s, k + 1)  OBVIOUS
  <2>1. k + 1 \in 1..Len(s) /\ (k + 1) - 1 = k /\ k \in 0..Len(s) /\ k <= Len(s)  BY <1>2
  <2>2. a[k + 1] = LiftPiece(a[k], s[k + 1]) /\ a[k] \in LiftState  BY <1>1, <2>1 DEF Lifts
  <2>3. Shows(a[k], s, k)  BY <2>1
  <2> QED  BY <2>1, <2>2, <2>3, <1>2, OnePieceMore
<1>5. Len(s) \in S
  <2> HIDE DEF S
  <2> QED  BY <1>2, <1>3, <1>4, CountingUp
<1>6. Lifted(s) \in LiftState  BY <1>1, <1>2 DEF Lifts
<1> QED  BY <1>1, <1>2, <1>5, <1>6

\* Outside of every call in what was said is outside of every call in the generation.
LEMMA OutsideIsOutside ==
  ASSUME NEW r, InPlace(r), NEW s, Spares(s, r, Reasoning(r)), NEW j \in 1..Len(s), ~InsideAt(s, j - 1)
  PROVE  ~InACall(r, s[j].at)
<1> DEFINE i == s[j].at
           tags == {x \in 1..i - 1 : x \notin Reasoning(r) /\ r[x].t \in {"<call>", "</call>"}}
           top == CHOOSE x \in tags : \A k \in tags : k <= x
<1>0. s \in Seq(P) /\ Len(s) \in Nat /\ Len(r) \in Nat  BY DEF Spares, InPlace
<1>1. i \in 1..Len(r) /\ i \in Nat  BY <1>0 DEF Spares
<1> SUFFICES ASSUME tags # {}, r[top].t = "<call>" PROVE FALSE  BY DEF InACall
<1> HIDE DEF i
<1>2. tags \subseteq 0..(i - 1) /\ i - 1 \in Nat  BY <1>1
<1>3. Max(tags) \in tags /\ \A y \in tags : y <= Max(tags)  BY <1>2, MaxOf
<1>4. top \in tags /\ \A y \in tags : y <= top
  <2> HIDE DEF tags
  <2> QED  BY <1>3
<1> HIDE DEF top
<1>5. top \in (1..Len(r)) \ Reasoning(r) /\ top < i  BY <1>1, <1>4
<1>6. PICK x \in 1..Len(s) : s[x].at = top  BY <1>5 DEF Spares
<1>7. \A u, v \in 1..Len(s) : u < v => s[u].at < s[v].at  BY DEF Spares
<1>8. \A u \in 1..Len(s) : s[u].at \in (1..Len(r)) \ Reasoning(r) /\ s[u] = r[s[u].at]  BY DEF Spares
<1>9. \A u, v \in 1..Len(s) : s[u].at < s[v].at => u < v
  <2> TAKE u, v \in 1..Len(s)
  <2>1. s[u].at \in Nat /\ s[v].at \in Nat  BY <1>8, <1>0
  <2>2. v < u => s[v].at < s[u].at  BY <1>7
  <2>3. v = u => s[v].at = s[u].at  OBVIOUS
  <2>4. u \in Nat /\ v \in Nat  BY <1>0
  <2> QED  BY <2>1, <2>2, <2>3, <2>4
<1>10. x < j  BY <1>5, <1>6, <1>9 DEF i
<1>11. s[x].t = "<call>"  BY <1>6, <1>8
<1>12. ASSUME NEW m \in (x + 1)..(j - 1) PROVE s[m].t # "</call>"
  <2>1. m \in 1..Len(s) /\ x < m /\ m < j  BY <1>0
  <2>2. top < s[m].at /\ s[m].at < i  BY <2>1, <1>6, <1>7 DEF i
  <2>3. s[m].at \in (1..Len(r)) \ Reasoning(r) /\ s[m] = r[s[m].at]  BY <2>1, <1>8
  <2>4. s[m].at \in 1..i - 1 /\ ~(s[m].at <= top)
    <3>1. top \in Nat /\ s[m].at \in Nat \ {0}  BY <1>0, <1>5, <2>3
    <3> QED  BY ONLY <3>1, <2>2, <1>1
  <2>5. s[m].at \notin tags  BY <1>4, <2>4
  <2> QED  BY <2>3, <2>4, <2>5
<1>13. x \in 1..(j - 1)  BY <1>0, <1>10
<1> QED  BY <1>11, <1>12, <1>13 DEF InsideAt

\* Whatever a generation is, nothing of the reasoning or of a call is shown.
LEMMA VisibleIsOutside ==
  ASSUME NEW r, InPlace(r), NEW p \in ToSet(Visible(r))
  PROVE  p.at \notin Reasoning(r) /\ ~InACall(r, p.at)
<1> DEFINE s == Unreasoned(r).said
<1>1. Spares(s, r, Reasoning(r))  BY ReasoningIsTakenOut
<1>2. s \in Seq(P)  BY <1>1 DEF Spares
<1>3. Visible(r) = Lifted(s).speech  BY DEF Visible, Parsed
<1> HIDE DEF s
<1>4. Lifted(s) \in LiftState /\ Shows(Lifted(s), s, Len(s))  BY <1>2, LiftedShows
<1>5. Lifted(s).speech \in Seq(P)  BY <1>4 DEF LiftState
<1>6. PICK q \in 1..Len(Lifted(s).speech) : p = Lifted(s).speech[q]  BY <1>3, <1>5 DEF ToSet
<1>7. PICK j \in 1..Len(s) : Lifted(s).speech[q] = s[j] /\ ~InsideAt(s, j - 1)  BY <1>4 DEF Shows
<1>8. p = s[j]  BY <1>6, <1>7
<1>9. s[j].at \notin Reasoning(r)  BY <1>1 DEF Spares
<1> QED  BY <1>1, <1>7, <1>8, <1>9, OutsideIsOutside

\* One piece more is lifted after the others.
LEMMA LiftedAppend ==
  ASSUME NEW s \in Seq(P), NEW p \in P
  PROVE  Lifted(Append(s, p)) = LiftPiece(Lifted(s), p)
<1> DEFINE t == Append(s, p)
           n == Len(s)
<1>1. n \in Nat /\ t \in Seq(P) /\ Len(t) = n + 1 /\ (\A k \in 1..n : t[k] = s[k]) /\ t[n + 1] = p
  BY AppendProperties
<1> HIDE DEF t
<1>2. PICK a : Lifts(a, t) /\ a[Len(t)] = Lifted(t)  BY <1>1, LiftingExists
<1>3. PICK b : Lifts(b, s) /\ b[Len(s)] = Lifted(s)  BY LiftingExists
<1> HIDE DEF n
<1> DEFINE S == {k \in Nat : k <= n => a[k] = b[k]}
<1>4. 0 \in S  BY <1>2, <1>3 DEF Lifts
<1>5. \A k \in Nat : k \in S => k + 1 \in S
  <2> SUFFICES ASSUME NEW k \in Nat, k \in S, k + 1 <= n PROVE a[k + 1] = b[k + 1]
    BY <1>1
  <2>1. k + 1 \in 1..n /\ k + 1 \in 1..Len(t) /\ (k + 1) - 1 = k /\ k <= n  BY <1>1
  <2>2. a[k + 1] = LiftPiece(a[k], t[k + 1])  BY <1>2, <2>1 DEF Lifts
  <2>3. b[k + 1] = LiftPiece(b[k], s[k + 1])  BY <1>3, <2>1 DEF Lifts, n
  <2> QED  BY <1>1, <2>1, <2>2, <2>3
<1>6. n \in S
  <2> HIDE DEF S
  <2> QED  BY <1>1, <1>4, <1>5, CountingUp
<1>7. a[n] = b[n]  BY <1>1, <1>6
<1>8. n + 1 \in 1..Len(t) /\ (n + 1) - 1 = n  BY <1>1
<1>9. a[n + 1] = LiftPiece(a[n], t[n + 1])  BY <1>2, <1>8 DEF Lifts
<1> QED  BY <1>1, <1>2, <1>3, <1>7, <1>9 DEF n, t

\* In a generation one piece longer the same piece is found, or the new one.
LEMMA FindInAppend ==
  ASSUME NEW r \in Seq(P), NEW p \in P, NEW t, NEW from \in Nat \ {0}, from <= Len(r) + 1
  PROVE  Find(Append(r, p), t, from) =
           IF Find(r, t, from) # 0 THEN Find(r, t, from) ELSE IF p.t = t THEN Len(r) + 1 ELSE 0
<1> DEFINE u == Append(r, p)
           n == Len(r)
           k == Find(r, t, from)
           m == Find(u, t, from)
<1>1. n \in Nat /\ Len(u) = n + 1 /\ (\A i \in 1..n : u[i] = r[i]) /\ u[n + 1] = p  BY AppendProperties
<1>2. Finds(r, t, from, k)  BY <1>1, FindIs
<1> HIDE DEF u
<1>3. Finds(u, t, from, m)  BY <1>1, FindIs
<1> HIDE DEF k, m
<1>a. k \in Nat /\ m \in Nat  BY <1>2, <1>3 DEF Finds
<1>b. k = 0 => \A i \in from..n : r[i].t # t  BY <1>2 DEF Finds
<1>c. k # 0 => k \in from..n /\ r[k].t = t /\ \A i \in from..(k - 1) : r[i].t # t  BY <1>2 DEF Finds
<1>d. m = 0 => \A i \in from..(n + 1) : u[i].t # t  BY <1>1, <1>3 DEF Finds
<1>e. m # 0 => m \in from..(n + 1) /\ u[m].t = t /\ \A i \in from..(m - 1) : u[i].t # t  BY <1>1, <1>3 DEF Finds
<1> HIDE DEF n
<1>4. CASE k # 0
  <2>1. k \in from..n /\ k \in 1..n /\ k \in from..(n + 1)  BY <1>1, <1>c, <1>4
  <2>2. u[k].t = t  BY <1>1, <1>c, <1>4, <2>1
  <2>3. m # 0  BY <1>d, <2>1, <2>2
  <2>4. ~(k < m)
    <3> SUFFICES ASSUME k < m PROVE FALSE  OBVIOUS
    <3>1. k \in from..(m - 1)  BY <1>a, <2>1
    <3> QED  BY <1>e, <2>2, <2>3, <3>1
  <2>5. ~(m < k)
    <3> SUFFICES ASSUME m < k PROVE FALSE  OBVIOUS
    <3>1. m \in from..(k - 1) /\ m \in 1..n  BY <1>1, <1>a, <1>e, <2>1, <2>3
    <3> QED  BY <1>1, <1>c, <1>e, <1>4, <2>3, <3>1
  <2>6. m = k  BY <1>a, <2>4, <2>5
  <2> QED  BY <2>6, <1>4 DEF k, m, u
<1>5. CASE k = 0 /\ p.t = t
  <2>1. n + 1 \in from..(n + 1) /\ u[n + 1].t = t  BY <1>1, <1>5 DEF n
  <2>2. m # 0  BY <1>d, <2>1
  <2>3. m \notin from..n
    <3> SUFFICES ASSUME m \in from..n PROVE FALSE  OBVIOUS
    <3>1. m \in 1..n  BY <1>1
    <3> QED  BY <1>1, <1>b, <1>e, <1>5, <2>2, <3>1
  <2>4. m = n + 1  BY <1>1, <1>a, <1>e, <2>2, <2>3
  <2> QED  BY <2>4, <1>5 DEF k, m, u, n
<1>6. CASE k = 0 /\ p.t # t
  <2>1. m = 0
    <3> SUFFICES ASSUME m # 0 PROVE FALSE  OBVIOUS
    <3>1. m \in from..(n + 1) /\ u[m].t = t  BY <1>e
    <3>2. m # n + 1  BY <1>1, <1>6, <3>1
    <3>3. m \in from..n /\ m \in 1..n  BY <1>1, <3>1, <3>2
    <3> QED  BY <1>1, <1>b, <1>6, <3>1, <3>3
  <2> QED  BY <2>1, <1>6 DEF k, m, u
<1> QED  BY <1>4, <1>5, <1>6

\* With a piece more, what was said is the same, or has that piece more.
LEMMA SaidGrows ==
  ASSUME NEW r \in Seq(P), NEW p \in P
  PROVE  /\ Unreasoned(r).said \in Seq(P)
         /\ \/ Unreasoned(Append(r, p)).said = Unreasoned(r).said
            \/ Unreasoned(Append(r, p)).said = Append(Unreasoned(r).said, p)
<1> DEFINE u == Append(r, p)
           n == Len(r)
           open == Find(r, "<think>", 1)
           close == Find(r, "</think>", open + 1)
           openU == Find(u, "<think>", 1)
           closeU == Find(u, "</think>", openU + 1)
<1>1. n \in Nat /\ u \in Seq(P) /\ Len(u) = n + 1 /\ (\A i \in 1..n : u[i] = r[i]) /\ u[n + 1] = p
      /\ \A i \in 1..n : r[i] \in P
  BY AppendProperties
<1>2. Finds(r, "<think>", 1, open)  BY <1>1, FindIs
<1>3. open \in Nat /\ (open # 0 => open \in 1..n)  BY <1>1, <1>2 DEF Finds
<1>4. openU = IF open # 0 THEN open ELSE IF p.t = "<think>" THEN n + 1 ELSE 0
  <2>1. 1 \in Nat \ {0} /\ 1 <= Len(r) + 1  BY <1>1
  <2> QED  BY <2>1, FindInAppend
<1>5. Unreasoned(r).said = IF open = 0 THEN r ELSE IF close = 0 THEN SubSeq(r, 1, open - 1)
                           ELSE SubSeq(r, 1, open - 1) \o SubSeq(r, close + 1, n)
  BY DEF Unreasoned
<1>6. Unreasoned(u).said = IF openU = 0 THEN u ELSE IF closeU = 0 THEN SubSeq(u, 1, openU - 1)
                           ELSE SubSeq(u, 1, openU - 1) \o SubSeq(u, closeU + 1, Len(u))
  BY DEF Unreasoned
<1> HIDE DEF open
<1>7. Finds(r, "</think>", open + 1, close)
  <2>1. open + 1 \in Nat \ {0}  BY <1>3
  <2> QED  BY <1>1, <2>1, FindIs
<1>8. ASSUME NEW m \in 0..n PROVE SubSeq(u, 1, m) = SubSeq(r, 1, m) /\ SubSeq(r, 1, m) \in Seq(P)
  <2>1. \A i \in 1..m : r[i] \in P /\ u[i] \in P /\ u[i] = r[i]  BY <1>1
  <2>2. 1 \in Int /\ m \in Int  BY <1>1
  <2>3. SubSeq(r, 1, m) \in Seq(P) /\ Len(SubSeq(r, 1, m)) = (IF 1 <= m THEN m - 1 + 1 ELSE 0)
        /\ \A i \in 1..(m - 1 + 1) : SubSeq(r, 1, m)[i] = r[1 + i - 1]
    BY <2>1, <2>2, SubSeqProperties
  <2> HIDE DEF u
  <2>4. SubSeq(u, 1, m) \in Seq(P) /\ Len(SubSeq(u, 1, m)) = (IF 1 <= m THEN m - 1 + 1 ELSE 0)
        /\ \A i \in 1..(m - 1 + 1) : SubSeq(u, 1, m)[i] = u[1 + i - 1]
    BY <2>1, <2>2, SubSeqProperties
  <2> DEFINE x == SubSeq(u, 1, m)
             y == SubSeq(r, 1, m)
  <2>5. \A i \in 1..m : 1 + i - 1 = i /\ i \in 1..(m - 1 + 1)  OBVIOUS
  <2>6. \A i \in 1..m : x[i] = y[i]  BY <2>1, <2>3, <2>4, <2>5
  <2>7. Len(x) = Len(y) /\ Len(x) = m  BY <2>3, <2>4
  <2>8. x \in Seq(P) /\ y \in Seq(P)  BY <2>3, <2>4
  <2> HIDE DEF x, y
  <2>9. x = y  BY <2>6, <2>7, <2>8, SeqEqual
  <2> QED  BY <2>8, <2>9 DEF x, y
<1>9. CASE open = 0
  <2>1. Unreasoned(r).said = r  BY <1>5, <1>9
  <2>2. CASE p.t = "<think>"
    <3>1. openU = n + 1  BY <1>4, <1>9, <2>2
    <3>2. closeU = 0
      <4>1. (n + 1) + 1 \in Nat \ {0} /\ Len(u) \in Nat  BY <1>1
      <4>2. Finds(u, "</think>", (n + 1) + 1, closeU)  BY <3>1, <4>1, FindIs
      <4>3. closeU # 0 => closeU \in ((n + 1) + 1)..(n + 1)  BY <1>1, <4>2 DEF Finds
      <4> HIDE DEF closeU
      <4> QED  BY <1>1, <4>3
    <3>3. Unreasoned(u).said = SubSeq(u, 1, n)  BY <1>1, <1>6, <3>1, <3>2
    <3>4. SubSeq(u, 1, n) = SubSeq(r, 1, n)  BY <1>1, <1>8
    <3>5. SubSeq(r, 1, n) = r  BY SubSeqFull
    <3> QED  BY <2>1, <3>3, <3>4, <3>5
  <2>3. CASE p.t # "<think>"
    <3>1. openU = 0  BY <1>4, <1>9, <2>3
    <3> QED  BY <1>6, <2>1, <3>1
  <2> QED  BY <2>1, <2>2, <2>3
<1>10. CASE open # 0
  <2>1. openU = open /\ open \in 1..n /\ open - 1 \in 0..n /\ open + 1 \in Nat \ {0} /\ open + 1 <= n + 1
    BY <1>1, <1>3, <1>4, <1>10
  <2>2. closeU = IF close # 0 THEN close ELSE IF p.t = "</think>" THEN n + 1 ELSE 0
    <3>1. closeU = Find(u, "</think>", open + 1)  BY <2>1
    <3> QED  BY <3>1, <2>1, FindInAppend
  <2>3. SubSeq(u, 1, open - 1) = SubSeq(r, 1, open - 1) /\ SubSeq(r, 1, open - 1) \in Seq(P)  BY <1>8, <2>1
  <2> DEFINE front == SubSeq(r, 1, open - 1)
  <2> HIDE DEF close, openU, closeU
  <2>4. CASE close = 0 /\ p.t # "</think>"
    <3>1. closeU = 0  BY <2>2, <2>4
    <3> QED  BY <1>5, <1>6, <1>10, <2>1, <2>3, <2>4, <3>1
  <2>5. CASE close = 0 /\ p.t = "</think>"
    <3>1. closeU = n + 1 /\ n + 1 # 0  BY <1>1, <2>2, <2>5
    <3>2. SubSeq(u, closeU + 1, Len(u)) = <<>>
      <4>1. closeU + 1 \in Int /\ Len(u) \in Int /\ Len(u) < closeU + 1  BY <1>1, <3>1
      <4> QED  BY <4>1, SubSeqEmpty
    <3>3. Unreasoned(u).said = front \o <<>>  BY <1>6, <1>10, <2>1, <2>3, <3>1, <3>2
    <3>4. front \o <<>> = front  BY <2>3, ConcatEmptySeq
    <3> QED  BY <1>5, <1>10, <2>3, <2>5, <3>3, <3>4
  <2>6. CASE close # 0
    <3>1. close \in 1..n  BY <1>1, <1>7, <2>1, <2>6 DEF Finds
    <3> DEFINE rest == SubSeq(r, close + 1, n)
               restU == SubSeq(u, close + 1, Len(u))
    <3>2. Unreasoned(r).said = front \o rest  BY <1>5, <1>10, <2>6
    <3>3. Unreasoned(u).said = front \o restU  BY <1>6, <1>10, <2>1, <2>2, <2>3, <2>6
    <3>4. rest \in Seq(P) /\ restU = Append(rest, p)
      <4>1. close + 1 \in Int /\ n \in Int /\ n + 1 \in Int  BY <1>1, <3>1
      <4>2. (\A i \in (close + 1)..n : r[i] \in P) /\ (\A i \in (close + 1)..(n + 1) : u[i] \in P)
        <5>1. \A i \in 1..(n + 1) : u[i] \in P  BY <1>1
        <5> QED  BY <1>1, <3>1, <5>1
      <4>3. rest \in Seq(P) /\ Len(rest) = (IF close + 1 <= n THEN n - (close + 1) + 1 ELSE 0)
            /\ \A i \in 1..(n - (close + 1) + 1) : rest[i] = r[(close + 1) + i - 1]
        BY <4>1, <4>2, SubSeqProperties
      <4> HIDE DEF u
      <4>4. SubSeq(u, close + 1, n + 1) \in Seq(P)
            /\ Len(SubSeq(u, close + 1, n + 1)) = (IF close + 1 <= n + 1 THEN (n + 1) - (close + 1) + 1 ELSE 0)
            /\ \A i \in 1..((n + 1) - (close + 1) + 1) : SubSeq(u, close + 1, n + 1)[i] = u[(close + 1) + i - 1]
        BY <4>1, <4>2, SubSeqProperties
      <4>5. restU = SubSeq(u, close + 1, n + 1)  BY <1>1
      <4> HIDE DEF rest, restU
      <4>6. Len(rest) = n - close /\ Len(restU) = (n - close) + 1 /\ restU \in Seq(P)  BY <3>1, <1>1, <4>3, <4>4, <4>5
      <4> DEFINE more == Append(rest, p)
      <4>7. more \in Seq(P) /\ Len(more) = (n - close) + 1
            /\ (\A i \in 1..(n - close) : more[i] = rest[i]) /\ more[(n - close) + 1] = p
        BY <4>3, <4>6, AppendProperties
      <4> HIDE DEF more
      <4>8. \A i \in 1..((n - close) + 1) : restU[i] = more[i]
        <5> TAKE i \in 1..((n - close) + 1)
        <5>1. i \in 1..((n + 1) - (close + 1) + 1) /\ (close + 1) + i - 1 = close + i  BY <1>1, <3>1
        <5>2. restU[i] = u[close + i]  BY <4>4, <4>5, <5>1
        <5>3. CASE i \in 1..(n - close)
          <6>1. i \in 1..(n - (close + 1) + 1) /\ close + i \in 1..n  BY <1>1, <3>1, <5>3
          <6>2. rest[i] = r[close + i]  BY <4>3, <5>1, <6>1
          <6> QED  BY <1>1, <4>7, <5>2, <5>3, <6>1, <6>2
        <5>4. CASE i \notin 1..(n - close)
          <6>1. i = (n - close) + 1 /\ close + i = n + 1  BY <1>1, <3>1, <5>4
          <6> QED  BY <1>1, <4>7, <5>2, <6>1
        <5> QED  BY <5>3, <5>4
      <4>9. restU = more  BY <4>6, <4>7, <4>8, SeqEqual
      <4> QED  BY <4>3, <4>9 DEF more
    <3>5. front \o rest \in Seq(P)  BY <2>3, <3>4, ConcatProperties
    <3>6. front \o Append(rest, p) = Append(front \o rest, p)
      <4>1. front \in Seq(P) /\ rest \in Seq(P)  BY <2>3, <3>4
      <4> HIDE DEF front, rest
      <4> QED  BY <4>1
    <3> QED  BY <3>2, <3>3, <3>4, <3>5, <3>6
  <2>7. Unreasoned(r).said \in Seq(P)
    <3>1. CASE close = 0  BY <1>5, <1>10, <2>3, <3>1
    <3>2. CASE close # 0
      <4>1. close \in 1..n  BY <1>1, <1>7, <2>1, <3>2 DEF Finds
      <4>2. close + 1 \in Int /\ n \in Int /\ \A i \in (close + 1)..n : r[i] \in P  BY <1>1, <4>1
      <4>3. SubSeq(r, close + 1, n) \in Seq(P)  BY <4>2, SubSeqProperties
      <4>4. front \o SubSeq(r, close + 1, n) \in Seq(P)  BY <2>3, <4>3, ConcatProperties
      <4> QED  BY <1>5, <1>10, <3>2, <4>4
    <3> QED  BY <3>1, <3>2
  <2> QED  BY <2>4, <2>5, <2>6, <2>7
<1> QED  BY <1>9, <1>10

\* A sequence is the beginning of itself and of itself with more after it.
LEMMA BeginsTheLonger ==
  ASSUME NEW S, NEW s \in Seq(S), NEW t \in Seq(S)
  PROVE  IsPrefix(s, s \o t) /\ IsPrefix(s, s)
<1>1. Len(s) \in Nat /\ Len(t) \in Nat /\ s \o t \in Seq(S) /\ Len(s \o t) = Len(s) + Len(t)  BY ConcatProperties
<1>2. SubSeq(s, 1, Len(s)) = s  BY SubSeqFull
<1>3. SubSeq(s \o t, 1, Len(s)) = s  OBVIOUS
<1> QED  BY <1>1, <1>2, <1>3 DEF IsPrefix

\* A piece more takes back no call, and a word adds none.
LEMMA CallsGrow ==
  ASSUME NEW r \in Seq(P), NEW p \in P
  PROVE  /\ Parsed(r).calls \in Seq(Tools)
         /\ \E x \in Seq(Tools) : Parsed(Append(r, p)).calls = Parsed(r).calls \o x
         /\ p.t = "word" => Parsed(Append(r, p)).calls = Parsed(r).calls
<1> DEFINE s == Unreasoned(r).said
           t == Unreasoned(Append(r, p)).said
           l == Lifted(s)
           m == Lifted(t)
<1>1. s \in Seq(P) /\ (t = s \/ t = Append(s, p))  BY SaidGrows
<1>2. Parsed(r).calls = l.calls /\ Parsed(Append(r, p)).calls = m.calls  BY DEF Parsed
<1> HIDE DEF s, t
<1>3. l \in LiftState /\ (m = l \/ m = LiftPiece(l, p))  BY <1>1, LiftedShows, LiftedAppend
<1> HIDE DEF l, m
<1>4. l.calls \in Seq(Tools)  BY <1>3 DEF LiftState
<1>5. \E x \in Seq(Tools) : m.calls = l.calls \o x
  <2>1. <<>> \in Seq(Tools) /\ l.calls = l.calls \o <<>>  BY <1>4, EmptySeq, ConcatEmptySeq
  <2>2. ReadCall(l.inner) \in Seq(Tools)  BY <2>1 DEF ReadCall
  <2>3. m.calls = l.calls \/ m.calls = l.calls \o ReadCall(l.inner)  BY <1>3 DEF LiftPiece, LiftState
  <2> QED  BY <2>1, <2>2, <2>3
<1>6. p.t = "word" => m.calls = l.calls  BY <1>3 DEF LiftPiece, LiftState
<1> QED  BY <1>2, <1>4, <1>5, <1>6

\* One sequence of calls and more after it.
Grows(c, d) == /\ c \in Seq(Tools) /\ d \in Seq(Tools)
               /\ \E x \in Seq(Tools) : d = c \o x

LEMMA GrowsOn ==
  ASSUME NEW c, NEW d, NEW f, Grows(c, d), Grows(d, f)
  PROVE  Grows(c, f)
<1>1. PICK x \in Seq(Tools) : d = c \o x  BY DEF Grows
<1>2. PICK y \in Seq(Tools) : f = d \o y  BY DEF Grows
<1>3. c \in Seq(Tools) /\ f \in Seq(Tools)  BY DEF Grows
<1>4. x \o y \in Seq(Tools)  BY ConcatProperties
<1>5. f = c \o (x \o y)
  <2> HIDE DEF Tools
  <2>1. (c \o x) \o y = c \o (x \o y)  BY <1>3, ConcatAssociative
  <2> QED  BY <1>1, <1>2, <2>1
<1> QED  BY <1>3, <1>4, <1>5 DEF Grows

\* What a generation was cut off to before it grew, and what it may be cut off to since.
LEMMA CutsGrow ==
  ASSUME NEW r \in Seq(P), NEW p \in P, NEW c \in Cuts(Append(r, p))
  PROVE  c \in Cuts(r) \/ c = r \/ c = Append(r, Piece("word", Len(r) + 1))
<1> DEFINE u == Append(r, p)
           n == Len(r)
<1>1. n \in Nat /\ u \in Seq(P) /\ Len(u) = n + 1 /\ \A k \in 1..n : u[k] = r[k]
  BY AppendProperties
<1>2. PICK k \in 0..n : c \in {SubSeq(u, 1, k), Append(SubSeq(u, 1, k), Piece("word", k + 1))}
  <2>1. PICK k \in 0..Len(u) - 1 : c \in {SubSeq(u, 1, k), Append(SubSeq(u, 1, k), Piece("word", k + 1))}
    BY DEF Cuts
  <2>2. k \in 0..n  BY <1>1
  <2> QED  BY <2>1, <2>2
<1> HIDE DEF u
<1>3. SubSeq(u, 1, k) = SubSeq(r, 1, k)
  <2>1. \A i \in 1..k : u[i] = r[i] /\ r[i] \in P /\ u[i] \in P  BY <1>1, <1>2
  <2>2. k \in Nat /\ k <= n  BY <1>1, <1>2
  <2>3. SubSeq(u, 1, k) \in Seq(P) /\ Len(SubSeq(u, 1, k)) = (IF 1 <= k THEN k - 1 + 1 ELSE 0)
        /\ \A i \in 1..(k - 1 + 1) : SubSeq(u, 1, k)[i] = u[1 + i - 1]
    BY <2>1, <2>2, SubSeqProperties
  <2>4. SubSeq(r, 1, k) \in Seq(P) /\ Len(SubSeq(r, 1, k)) = (IF 1 <= k THEN k - 1 + 1 ELSE 0)
        /\ \A i \in 1..(k - 1 + 1) : SubSeq(r, 1, k)[i] = r[1 + i - 1]
    BY <2>1, <2>2, SubSeqProperties
  <2>5. Len(SubSeq(u, 1, k)) = k /\ Len(SubSeq(r, 1, k)) = k  BY <2>2, <2>3, <2>4
  <2>6. \A i \in 1..k : SubSeq(u, 1, k)[i] = SubSeq(r, 1, k)[i]  BY <2>1, <2>2, <2>3, <2>4
  <2> QED  BY <2>3, <2>4, <2>5, <2>6, SeqEqual
<1>4. CASE k = n
  <2>1. SubSeq(r, 1, n) = r  BY SubSeqFull
  <2> QED  BY <1>2, <1>3, <1>4, <2>1
<1>5. CASE k # n
  <2>1. k \in 0..Len(r) - 1  BY <1>1, <1>2, <1>5
  <2> QED  BY <1>2, <1>3, <2>1 DEF Cuts
<1> QED  BY <1>4, <1>5

------------------------------------------------------------------------------
(* The line being typed *)

\* The greater and the lesser of two.
LEMMA OfTwo ==
  ASSUME NEW a \in Int, NEW b \in Int
  PROVE  Max({a, b}) = (IF a >= b THEN a ELSE b) /\ Min({a, b}) = (IF a <= b THEN a ELSE b)
<1> DEFINE x == IF a >= b THEN a ELSE b
           y == IF a <= b THEN a ELSE b
<1>1. x \in {a, b} /\ \A z \in {a, b} : x >= z  OBVIOUS
<1>2. y \in {a, b} /\ \A z \in {a, b} : y <= z  OBVIOUS
<1>3. Max({a, b}) \in {a, b} /\ \A z \in {a, b} : Max({a, b}) >= z
  <2> HIDE DEF x
  <2> QED  BY <1>1 DEF Max
<1>4. Min({a, b}) \in {a, b} /\ \A z \in {a, b} : Min({a, b}) <= z
  <2> HIDE DEF y
  <2> QED  BY <1>2 DEF Min
<1> HIDE DEF x, y
<1>5. Max({a, b}) = x  BY <1>1, <1>3
<1>6. Min({a, b}) = y  BY <1>2, <1>4
<1> QED  BY <1>5, <1>6 DEF x, y

\* A part of a sequence.
LEMMA PartOf ==
  ASSUME NEW S, NEW s \in Seq(S), NEW a \in Nat \ {0}, NEW b \in 0..Len(s), a <= b + 1
  PROVE  /\ SubSeq(s, a, b) \in Seq(S) /\ Len(SubSeq(s, a, b)) = b - a + 1
         /\ \A i \in 1..(b - a + 1) : SubSeq(s, a, b)[i] = s[a + i - 1]
<1>1. Len(s) \in Nat /\ \A i \in 1..Len(s) : s[i] \in S  OBVIOUS
<1>2. a \in Int /\ b \in Int /\ \A i \in a..b : s[i] \in S  BY <1>1
<1>3. SubSeq(s, a, b) \in Seq(S) /\ Len(SubSeq(s, a, b)) = (IF a <= b THEN b - a + 1 ELSE 0)
      /\ \A i \in 1..(b - a + 1) : SubSeq(s, a, b)[i] = s[a + i - 1]
  BY <1>2, SubSeqProperties
<1>4. b - a + 1 = IF a <= b THEN b - a + 1 ELSE 0  BY <1>1
<1> HIDE DEF Seq
<1> QED  BY <1>3, <1>4

Words == Seq(Chars)
Editor == [chars : Words, cursor : Nat, history : Seq(Words), place : Nat, draft : Words]
\* The cursor is in the line, and the place in the history.
Sound(x) == x \in Editor /\ x.cursor <= Len(x.chars) /\ x.place <= Len(x.history)

\* Trimming a line leaves a line.
LEMMA TrimTyped ==
  ASSUME NEW s \in Words
  PROVE  Trim(s) \in Words
<1> DEFINE I == {i \in DOMAIN s : s[i] # Blank}
<1>1. s \in Seq(Chars) /\ DOMAIN s = 1..Len(s) /\ Len(s) \in Nat  BY DEF Words
<1>2. CASE I = {}
  <2>1. Trim(s) = <<>>  BY <1>2 DEF Trim
  <2> QED  BY <2>1, EmptySeq DEF Words
<1>3. CASE I # {}
  <2>1. I \subseteq Nat /\ I \subseteq 0..Len(s)  BY <1>1
  <2>2. Min(I) \in I /\ (\A y \in I : Min(I) <= y) /\ Max(I) \in I  BY <1>1, <1>3, <2>1, MinOf, MaxOf
  <2>3. Min(I) \in Nat \ {0} /\ Max(I) \in 0..Len(s) /\ Min(I) <= Max(I) + 1
    <3>1. Min(I) \in 1..Len(s) /\ Max(I) \in 1..Len(s) /\ Min(I) <= Max(I)  BY <2>2, <1>1
    <3> QED  BY ONLY <3>1, <1>1
  <2>4. SubSeq(s, Min(I), Max(I)) \in Seq(Chars)
    <3> HIDE DEF I
    <3> QED  BY <1>1, <2>3, PartOf
  <2> QED  BY <1>3, <2>4 DEF Trim, Words
<1> QED  BY <1>2, <1>3

\* Taking out what is between two places of the line.
LEMMA CutSound ==
  ASSUME NEW x, Sound(x), NEW from \in Nat, NEW to \in from..Len(x.chars)
  PROVE  Sound(Cut(x, from, to))
<1> DEFINE s == x.chars
           a == SubSeq(s, 1, from)
           b == SubSeq(s, to + 1, Len(s))
<1>1. s \in Seq(Chars) /\ Len(s) \in Nat  BY DEF Sound, Editor, Words
<1> HIDE DEF s
<1>2. from \in 0..Len(s) /\ 1 <= from + 1 /\ 1 \in Nat \ {0}  BY <1>1 DEF s
<1>3. to + 1 \in Nat \ {0} /\ Len(s) \in 0..Len(s) /\ to + 1 <= Len(s) + 1  BY <1>1 DEF s
<1>4. a \in Seq(Chars) /\ Len(a) = from - 1 + 1  BY <1>1, <1>2, PartOf
<1>5. b \in Seq(Chars)  BY <1>1, <1>3, PartOf
<1> HIDE DEF a, b
<1>6. a \o b \in Seq(Chars) /\ Len(a \o b) = Len(a) + Len(b) /\ Len(b) \in Nat
  <2>1. a \in Seq(Chars)  BY <1>4
  <2>2. Len(b) \in Nat  BY <1>5, LenProperties
  <2> QED  BY <1>5, <2>1, <2>2, ConcatProperties
<1>7. from <= Len(a \o b)  BY <1>4, <1>6
<1>8. Cut(x, from, to) = [x EXCEPT !.chars = a \o b, !.cursor = from]  BY DEF Cut, a, b, s, Sound, Editor
<1> QED  BY <1>6, <1>7, <1>8 DEF Sound, Editor, Words

\* So does putting one in.
LEMMA InsertSound ==
  ASSUME NEW x, Sound(x), NEW c \in Chars
  PROVE  Sound(Insert(x, c))
<1> DEFINE s == x.chars
           k == x.cursor
           a == SubSeq(s, 1, (k + 1) - 1)
           b == SubSeq(s, k + 1, Len(s))
<1>1. s \in Seq(Chars) /\ Len(s) \in Nat /\ k \in 0..Len(s)  BY DEF Sound, Editor, Words
<1> HIDE DEF s, k
<1>2. (k + 1) - 1 \in 0..Len(s) /\ 1 <= (k + 1) - 1 + 1 /\ 1 \in Nat \ {0} /\ (k + 1) - 1 = k  BY <1>1
<1>3. k + 1 \in Nat \ {0} /\ Len(s) \in 0..Len(s) /\ k + 1 <= Len(s) + 1  BY <1>1
<1>4. a \in Seq(Chars) /\ Len(a) = (k + 1) - 1 - 1 + 1  BY <1>1, <1>2, PartOf
<1>5. b \in Seq(Chars)  BY <1>1, <1>3, PartOf
<1>6. <<c>> \in Seq(Chars) /\ Len(<<c>>) = 1  OBVIOUS
<1> HIDE DEF a, b
<1>7. a \o <<c>> \in Seq(Chars) /\ Len(a \o <<c>>) = Len(a) + 1  BY <1>4, <1>6, ConcatProperties
<1>8. (a \o <<c>>) \o b \in Seq(Chars) /\ Len((a \o <<c>>) \o b) = Len(a \o <<c>>) + Len(b) /\ Len(b) \in Nat
  BY <1>5, <1>7, ConcatProperties
<1>9. k + 1 <= Len((a \o <<c>>) \o b) /\ k + 1 \in Nat  BY <1>1, <1>4, <1>7, <1>8
<1>10. Insert(x, c) = [x EXCEPT !.chars = (a \o <<c>>) \o b, !.cursor = k + 1]
  BY DEF Insert, InsertAt, a, b, s, k, Sound, Editor
<1> QED  BY <1>8, <1>9, <1>10 DEF Sound, Editor, Words

\* Where the cursor may be moved to.
LEMMA Places ==
  ASSUME NEW x, Sound(x)
  PROVE  /\ Left(x) \in 0..x.cursor /\ WordLeft(x) \in 0..x.cursor
         /\ Right(x) \in x.cursor..Len(x.chars) /\ WordRight(x) \in x.cursor..Len(x.chars)
         /\ x.cursor \in 0..Len(x.chars) /\ Len(x.chars) \in Nat
<1> DEFINE k == x.cursor
           n == Len(x.chars)
<1>1. n \in Nat /\ k \in 0..n  BY DEF Sound, Editor, Words
<1> HIDE DEF k, n
<1>2. Left(x) \in 0..k  BY <1>1 DEF Left, k
<1>3. Right(x) \in k..n
  <2>1. k + 1 \in Int /\ n \in Int  BY <1>1
  <2>2. Min({k + 1, n}) = IF k + 1 <= n THEN k + 1 ELSE n  BY <2>1, OfTwo
  <2> QED  BY <1>1, <2>2 DEF Right, k, n
<1>4. WordLeft(x) \in 0..k
  <2> DEFINE T == {0} \union {p \in 0..(k - 1) : x.chars[p + 1] # Blank /\ (p = 0 \/ x.chars[p] = Blank)}
  <2>1. T \subseteq 0..k /\ T # {} /\ k \in Nat  BY <1>1
  <2>2. WordLeft(x) = Max(T)  BY DEF WordLeft, k
  <2> HIDE DEF T
  <2>3. Max(T) \in T  BY <2>1, MaxOf
  <2> QED  BY <2>1, <2>2, <2>3
<1>5. WordRight(x) \in k..n
  <2> DEFINE T == {n} \union {p \in (k + 1)..n : x.chars[p] # Blank /\ (p = n \/ x.chars[p + 1] = Blank)}
  <2>1. T \subseteq Nat /\ T \subseteq k..n /\ T # {}  BY <1>1
  <2>2. WordRight(x) = Min(T)  BY DEF WordRight, k, n
  <2> HIDE DEF T
  <2>3. Min(T) \in T  BY <2>1, MinOf
  <2> QED  BY <2>1, <2>2, <2>3
<1> QED  BY <1>1, <1>2, <1>3, <1>4, <1>5 DEF k, n

\* So does moving the cursor to a place in the line,
LEMMA MoveSound ==
  ASSUME NEW x, Sound(x), NEW to \in 0..Len(x.chars)
  PROVE  Sound(Move(x, to))
<1>1. Len(x.chars) \in Nat  BY Places
<1>2. to \in Nat /\ to <= Len(x.chars)  BY <1>1
<1> QED  BY <1>2 DEF Sound, Editor, Move

\* and putting another line in its place.
LEMMA SetSound ==
  ASSUME NEW x, Sound(x), NEW s \in Words
  PROVE  Sound(Set(x, s))
<1>1. Len(s) \in Nat /\ Len(s) <= Len(s)  BY DEF Words
<1> QED  BY <1>1 DEF Sound, Editor, Set

------------------------------------------------------------------------------
(* Its history *)

\* How many lines are forgotten, and that the place stays on its line when it is not one of them.
LEMMA NewestSound ==
  ASSUME NEW x \in Editor, x.cursor <= Len(x.chars), x.place <= Len(x.history)
  PROVE  /\ Sound(Newest(x)) /\ Newest(x).chars = x.chars
         /\ \A k \in Nat : Len(x.history) <= Remembered + k /\ x.place > k =>
              Newest(x).place # 0 /\ Newest(x).history[Newest(x).place] = x.history[x.place]
<1> DEFINE h == x.history
           n == Len(h)
           over == Max({0, n - Remembered})
           kept == SubSeq(h, over + 1, n)
           place == IF x.place = 0 THEN 0 ELSE Max({1, x.place - over})
<1>1. h \in Seq(Words) /\ n \in Nat /\ x.place \in 0..n  BY DEF Editor
<1>2. Remembered \in Nat \ {0}  BY RememberedAssumption
<1>3. Newest(x) = [x EXCEPT !.history = kept, !.place = place]  BY DEF Newest, Editor
<1> HIDE DEF h, n
<1>4. over = IF n <= Remembered THEN 0 ELSE n - Remembered
  <2>1. 0 \in Int /\ n - Remembered \in Int  BY <1>1, <1>2
  <2>2. Max({0, n - Remembered}) = IF 0 >= n - Remembered THEN 0 ELSE n - Remembered  BY <2>1, OfTwo
  <2> QED  BY <1>1, <1>2, <2>2
<1> HIDE DEF over
<1>5. over \in 0..n /\ (n # 0 => over < n)  BY <1>1, <1>2, <1>4
<1>6. kept \in Seq(Words) /\ Len(kept) = n - over /\ \A i \in 1..(n - over) : kept[i] = h[over + i]
  <2>1. over + 1 \in Nat \ {0} /\ n \in 0..Len(h) /\ over + 1 <= n + 1  BY <1>1, <1>5 DEF n
  <2>2. kept \in Seq(Words) /\ Len(kept) = n - (over + 1) + 1
        /\ \A i \in 1..(n - (over + 1) + 1) : kept[i] = h[(over + 1) + i - 1]
    BY <1>1, <2>1, PartOf
  <2>3. n - (over + 1) + 1 = n - over  BY <1>1, <1>5
  <2>4. \A i \in 1..(n - over) : (over + 1) + i - 1 = over + i  BY <1>1, <1>5
  <2> HIDE DEF kept
  <2> QED  BY <2>2, <2>3, <2>4
<1>7. place = IF x.place = 0 THEN 0 ELSE IF x.place - over >= 1 THEN x.place - over ELSE 1
  <2>1. 1 \in Int /\ x.place - over \in Int  BY <1>1, <1>5
  <2>2. Max({1, x.place - over}) = IF 1 >= x.place - over THEN 1 ELSE x.place - over  BY <2>1, OfTwo
  <2> QED  BY <1>1, <1>5, <2>2
<1> HIDE DEF place, kept
<1>8. place \in Nat /\ place <= n - over  BY <1>1, <1>5, <1>7
<1>9. Newest(x).history = kept /\ Newest(x).place = place /\ Newest(x).chars = x.chars
      /\ Newest(x).cursor = x.cursor /\ Newest(x) \in Editor
  BY <1>3, <1>6, <1>8 DEF Editor
<1>10. ASSUME NEW k \in Nat, Len(x.history) <= Remembered + k, x.place > k
       PROVE  place # 0 /\ kept[place] = h[x.place]
  <2>1. n <= Remembered + k  BY <1>10 DEF n, h
  <2>2. over <= k  BY <1>1, <1>2, <1>4, <2>1
  <2>3. place = x.place - over /\ place \in 1..(n - over) /\ over + place = x.place  BY <1>1, <1>5, <1>7, <1>10, <2>2
  <2> QED  BY <1>6, <2>3
<1> QED  BY <1>6, <1>8, <1>9, <1>10 DEF Sound, h

\* A page without what repeats, whatever is in it.
LEMMA DistinctTyped ==
  ASSUME NEW lines \in Seq(Words)
  PROVE  Distinct(lines) \in Seq(Words)
<1> DEFINE n == Len(lines)
           s == [i \in DOMAIN lines |-> Trim(lines[i])]
           X == Seq(Words)
           Op(out, line) == IF line = <<>> \/ (out # <<>> /\ Last(out) = line) THEN out ELSE Append(out, line)
           G == [p \in X \X (1..n) |-> Op(p[1], s[p[2]])]
           H(it) == [T \in SUBSET (1..n) |-> IF T = {} THEN <<>> ELSE Op(it[T \ {Max(T)}], s[Max(T)])]
           Folds(it) == it = H(it)
           f == CHOOSE it : Folds(it)
<1>a. n \in Nat /\ DOMAIN lines = 1..n /\ \A k \in 1..n : s[k] \in Words  BY TrimTyped
<1>b. <<>> \in X  BY EmptySeq
<1>c. \A x \in X, k \in 1..n : Op(x, s[k]) \in X
  <2> TAKE x \in X, k \in 1..n
  <2>1. s[k] \in Words  BY <1>a
  <2> HIDE DEF s
  <2>2. Append(x, s[k]) \in X  BY <2>1, AppendProperties
  <2> QED  BY <2>2
<1>d. DOMAIN s = 1..n  BY <1>a
<1> HIDE DEF X, n, s
<1>1. Distinct(lines) = f[1..n]
  BY <1>d DEF Distinct, FoldLeft, MapThenFoldSet, s
<1> HIDE DEF Op
<1>2. \A x \in X, k \in 1..n : G[<<x, k>>] = Op(x, s[k])  OBVIOUS
<1>3. G \in [X \X (1..n) -> X]  BY <1>c
<1> HIDE DEF G
<1>4. PICK it \in [SUBSET (1..n) -> X] : Climbs(it, n, <<>>, G)  BY <1>a, <1>b, <1>3, ClimbExists DEF Climbable
<1>5. \A T \in SUBSET (1..n) : T # {} => T \ {Max(T)} \in SUBSET (1..n) /\ Max(T) \in 1..n
  <2> TAKE T \in SUBSET (1..n)
  <2>1. T \subseteq 0..n /\ n \in Nat  BY <1>a
  <2> QED  BY <2>1, MaxOf
<1>6. Folds(it)
  <2>1. \A T \in SUBSET (1..n) : T # {} => G[<<it[T \ {Max(T)}], Max(T)>>] = Op(it[T \ {Max(T)}], s[Max(T)])
    BY <1>2, <1>5
  <2> QED  BY <1>4, <2>1 DEF Climbs
<1>7. Folds(f)
  <2> HIDE DEF Folds
  <2> QED  BY <1>6
<1> HIDE DEF f
<1>8. StepsAlong(f, X, n, <<>>, G)
  <2>1. f[{}] = <<>>  BY <1>7
  <2>2. ASSUME NEW k \in 1..n, f[1..(k - 1)] \in X PROVE f[1..k] = G[<<f[1..(k - 1)], k>>]
    <3>1. k \in Nat \ {0} /\ 1..k \in SUBSET (1..n)  BY <1>a
    <3>2. (1..k) # {} /\ Max(1..k) = k /\ (1..k) \ {k} = 1..(k - 1)  BY <3>1, FirstPlaces
    <3>3. f[1..k] = Op(f[1..(k - 1)], s[k])  BY <1>7, <3>1, <3>2
    <3> QED  BY <3>3, <2>2, <1>2
  <2> QED  BY <2>1, <2>2 DEF StepsAlong
<1>9. IsPath(Trace(f, n), X, n, <<>>, G)  BY <1>a, <1>b, <1>3, <1>8, PathOf
<1>10. Trace(f, n)[n] = f[1..n] /\ Trace(f, n)[n] \in X  BY <1>a, <1>9 DEF Trace, IsPath
<1> QED  BY <1>1, <1>10 DEF X

\* A line kept in the history leaves the place on the same line, if there was room for one more;
LEMMA KeepSound ==
  ASSUME NEW x, Sound(x), NEW line \in Words
  PROVE  /\ Sound(Keep(x, line)) /\ Keep(x, line).chars = x.chars
         /\ Len(x.history) < Remembered /\ x.place # 0 =>
              Keep(x, line).place # 0 /\ Keep(x, line).history[Keep(x, line).place] = x.history[x.place]
<1>1. CASE Keep(x, line) = x  BY <1>1
<1>2. CASE Keep(x, line) = Newest([x EXCEPT !.history = Append(@, line)])
  <2> DEFINE y == [x EXCEPT !.history = Append(@, line)]
             h == x.history
  <2>1. h \in Seq(Words) /\ Len(h) \in Nat /\ x.place \in 0..Len(h)  BY DEF Sound, Editor
  <2>2. Append(h, line) \in Seq(Words) /\ Len(Append(h, line)) = Len(h) + 1
        /\ \A i \in 1..Len(h) : Append(h, line)[i] = h[i]
    BY <2>1, AppendProperties
  <2>3. y.history = Append(h, line) /\ y.place = x.place /\ y.chars = x.chars /\ y.cursor = x.cursor /\ y \in Editor
    BY <2>2 DEF Sound, Editor
  <2> HIDE DEF y
  <2>4. y.cursor <= Len(y.chars) /\ y.place <= Len(y.history)
    <3>1. x.cursor <= Len(x.chars)  BY DEF Sound
    <3> HIDE DEF h
    <3> QED  BY <3>1, <2>1, <2>2, <2>3
  <2>5. Sound(Newest(y)) /\ Newest(y).chars = x.chars  BY <2>3, <2>4, NewestSound
  <2>6. ASSUME Len(h) < Remembered, x.place # 0
        PROVE  Newest(y).place # 0 /\ Newest(y).history[Newest(y).place] = h[x.place]
    <3>1. Len(y.history) <= Remembered + 0 /\ y.place > 0 /\ x.place \in 1..Len(h)
      <4>1. Remembered \in Nat  BY RememberedAssumption
      <4>2. Len(y.history) = Len(h) + 1 /\ y.place = x.place  BY <2>2, <2>3
      <4> HIDE DEF h
      <4> QED  BY ONLY <4>1, <4>2, <2>1, <2>6
    <3>2. 0 \in Nat  OBVIOUS
    <3>3. Newest(y).place # 0 /\ Newest(y).history[Newest(y).place] = y.history[y.place]
      BY <2>3, <2>4, <3>1, <3>2, NewestSound
    <3> HIDE DEF h
    <3> QED  BY <3>1, <3>3, <2>2, <2>3
  <2> QED  BY <1>2, <2>5, <2>6 DEF y
<1> QED  BY <1>1, <1>2 DEF Keep

\* so do the older lines that a page brings.
LEMMA RememberOlderSound ==
  ASSUME NEW x, Sound(x), NEW lines \in Seq(Words)
  PROVE  /\ Sound(RememberOlder(x, lines)) /\ RememberOlder(x, lines).chars = x.chars
         /\ Len(x.history) < Remembered /\ x.place # 0 =>
              /\ RememberOlder(x, lines).place # 0
              /\ RememberOlder(x, lines).history[RememberOlder(x, lines).place] = x.history[x.place]
<1> DEFINE distinct == Distinct(lines)
           joined == distinct # <<>> /\ x.history # <<>> /\ Last(distinct) = Head(x.history)
           older == IF joined THEN Front(distinct) ELSE distinct
           h == x.history
           k == Len(older)
           y == [x EXCEPT !.history = older \o @, !.place = IF @ = 0 THEN 0 ELSE @ + Len(older)]
<1>1. distinct \in Seq(Words)  BY DistinctTyped
<1>2. RememberOlder(x, lines) = Newest(y)  BY DEF RememberOlder
<1> HIDE DEF distinct
<1>3. older \in Seq(Words)
  <2>1. CASE joined
    <3>1. Len(distinct) \in Nat \ {0}  BY <1>1, <2>1, EmptySeq
    <3>2. Len(distinct) - 1 \in 0..Len(distinct) /\ 1 <= (Len(distinct) - 1) + 1 /\ 1 \in Nat \ {0}  BY <3>1
    <3>3. SubSeq(distinct, 1, Len(distinct) - 1) \in Seq(Words)  BY <1>1, <3>2, PartOf
    <3> QED  BY <2>1, <3>3 DEF Front
  <2>2. CASE ~joined  BY <1>1, <2>2
  <2> QED  BY <2>1, <2>2
<1> HIDE DEF older
<1>4. h \in Seq(Words) /\ Len(h) \in Nat /\ x.place \in 0..Len(h) /\ k \in Nat  BY <1>3 DEF Sound, Editor
<1>5. older \o h \in Seq(Words) /\ Len(older \o h) = k + Len(h)
      /\ \A i \in 1..(k + Len(h)) : (older \o h)[i] = IF i <= k THEN older[i] ELSE h[i - k]
  BY <1>3, <1>4, ConcatProperties
<1>6. y.history = older \o h /\ y.place = (IF x.place = 0 THEN 0 ELSE x.place + k) /\ y.chars = x.chars
      /\ y.cursor = x.cursor /\ y \in Editor
  <2>1. (IF x.place = 0 THEN 0 ELSE x.place + k) \in Nat  BY <1>4
  <2> QED  BY <1>5, <2>1 DEF Sound, Editor
<1> HIDE DEF y, h, k
<1>7. y.cursor <= Len(y.chars) /\ y.place <= Len(y.history)
  <2>1. x.cursor <= Len(x.chars)  BY DEF Sound
  <2>2. Len(y.history) = k + Len(h)  BY <1>5, <1>6
  <2> QED  BY <1>4, <1>6, <2>1, <2>2
<1>8. Sound(Newest(y)) /\ Newest(y).chars = x.chars  BY <1>6, <1>7, NewestSound
<1>9. ASSUME Len(h) < Remembered, x.place # 0
      PROVE  Newest(y).place # 0 /\ Newest(y).history[Newest(y).place] = h[x.place]
  <2>1. Remembered \in Nat  BY RememberedAssumption
  <2>2. Len(y.history) <= Remembered + k /\ y.place > k /\ y.place = x.place + k
    <3>1. Len(y.history) = k + Len(h)  BY <1>5, <1>6
    <3> QED  BY <1>4, <1>6, <1>9, <2>1, <3>1
  <2>3. Newest(y).place # 0 /\ Newest(y).history[Newest(y).place] = y.history[y.place]
    BY <1>4, <1>6, <1>7, <2>2, NewestSound
  <2>4. x.place + k \in 1..(k + Len(h)) /\ ~(x.place + k <= k) /\ (x.place + k) - k = x.place  BY <1>4, <1>9
  <2>5. y.history[y.place] = h[x.place]  BY <1>5, <1>6, <2>2, <2>4
  <2> QED  BY <2>3, <2>5
<1> QED  BY <1>2, <1>8, <1>9 DEF h

\* Sending the line leaves an empty one.
LEMMA TakeSound ==
  ASSUME NEW x, Sound(x)
  PROVE  Sound(Take(x))
<1> DEFINE y == [x EXCEPT !.chars = <<>>, !.cursor = 0, !.place = 0, !.draft = <<>>]
<1>1. <<>> \in Words /\ Len(<<>>) = 0  BY EmptySeq DEF Words
<1>2. x.history \in Seq(Words) /\ Len(x.history) \in Nat /\ x.chars \in Words  BY DEF Sound, Editor
<1>3. y \in Editor /\ y.cursor = 0 /\ y.place = 0 /\ y.chars = <<>> /\ y.history = x.history
  BY <1>1 DEF Sound, Editor
<1>4. Take(x) = Keep(y, Trim(x.chars))  BY DEF Take
<1> HIDE DEF y
<1>5. Sound(y)  BY <1>1, <1>2, <1>3 DEF Sound
<1>6. Trim(x.chars) \in Words  BY <1>2, TrimTyped
<1> QED  BY <1>4, <1>5, <1>6, KeepSound

\* A step back in the history ends on a line of it,
LEMMA EarlierSound ==
  ASSUME NEW x, Sound(x)
  PROVE  Sound(Earlier(x))
<1> DEFINE h == x.history
           next == IF x.place = 0 THEN Len(h) ELSE Max({1, x.place - 1})
           y == [x EXCEPT !.place = next, !.draft = IF x.place = 0 THEN x.chars ELSE @]
<1>1. h \in Seq(Words) /\ Len(h) \in Nat /\ x.place \in 0..Len(h)  BY DEF Sound, Editor
<1>2. CASE h = <<>>  BY <1>2 DEF Earlier
<1>3. CASE h # <<>>
  <2>1. Len(h) \in Nat \ {0}  BY <1>1, <1>3, EmptySeq
  <2>2. next \in 1..Len(h)
    <3>1. 1 \in Int /\ x.place - 1 \in Int  BY <1>1
    <3>2. Max({1, x.place - 1}) = IF 1 >= x.place - 1 THEN 1 ELSE x.place - 1  BY <3>1, OfTwo
    <3> HIDE DEF h
    <3> QED  BY <1>1, <2>1, <3>2
  <2>3. Earlier(x) = Set(y, h[next])  BY <1>3 DEF Earlier
  <2> HIDE DEF next
  <2>4. y \in Editor /\ y.place = next /\ y.chars = x.chars /\ y.cursor = x.cursor /\ y.history = h
    <3>1. next \in Nat  BY <2>1, <2>2
    <3> QED  BY <3>1 DEF Sound, Editor
  <2> HIDE DEF y
  <2>5. Sound(y)
    <3>1. x.cursor <= Len(x.chars)  BY DEF Sound
    <3>2. next <= Len(h)  BY <2>1, <2>2
    <3> QED  BY <2>4, <3>1, <3>2 DEF Sound
  <2>6. h[next] \in Words  BY <1>1, <2>2, ElementOfSeq
  <2> QED  BY <2>3, <2>5, <2>6, SetSound
<1> QED  BY <1>2, <1>3

\* and a step forward on a line of it or on the draft.
LEMMA LaterSound ==
  ASSUME NEW x, Sound(x)
  PROVE  Sound(Later(x))
<1> DEFINE h == x.history
<1>1. h \in Seq(Words) /\ Len(h) \in Nat /\ x.place \in 0..Len(h) /\ x.cursor <= Len(x.chars)  BY DEF Sound, Editor
<1>2. CASE x.place = 0  BY <1>2 DEF Later
<1>3. CASE x.place # 0 /\ x.place \in 1..(Len(h) - 1)
  <2> DEFINE y == [x EXCEPT !.place = @ + 1]
  <2>1. x.place + 1 \in 1..Len(h) /\ x.place + 1 \in Nat /\ x.place + 1 <= Len(h)  BY <1>1, <1>3
  <2>2. Later(x) = Set(y, h[x.place + 1])  BY <1>3 DEF Later, Sound, Editor
  <2>3. y \in Editor /\ y.place = x.place + 1 /\ y.chars = x.chars /\ y.cursor = x.cursor /\ y.history = h
    BY <2>1 DEF Sound, Editor
  <2> HIDE DEF y
  <2>4. Sound(y)  BY <1>1, <2>1, <2>3 DEF Sound
  <2>5. h[x.place + 1] \in Words  BY <1>1, <2>1, ElementOfSeq
  <2> QED  BY <2>2, <2>4, <2>5, SetSound
<1>4. CASE x.place # 0 /\ x.place \notin 1..(Len(h) - 1)
  <2> DEFINE y == [x EXCEPT !.place = 0, !.draft = <<>>]
  <2>1. <<>> \in Words  BY EmptySeq DEF Words
  <2>2. Later(x) = Set(y, x.draft)  BY <1>4 DEF Later, Sound, Editor
  <2>3. y \in Editor /\ y.place = 0 /\ y.chars = x.chars /\ y.cursor = x.cursor /\ y.history = h /\ x.draft \in Words
    BY <2>1 DEF Sound, Editor
  <2> HIDE DEF y
  <2>4. Sound(y)
    <3>1. 0 <= Len(h)  BY <1>1
    <3> QED  BY <1>1, <2>3, <3>1 DEF Sound
  <2> QED  BY <2>2, <2>3, <2>4, SetSound
<1> QED  BY <1>2, <1>3, <1>4

\* Texts and pages are what the history is made of.
LEMMA TextsAreWords ==
  /\ \A n \in Nat : Texts(n) \subseteq Words
  /\ Pages \subseteq Seq(Words)
<1>1. ASSUME NEW n \in Nat, NEW t \in Texts(n) PROVE t \in Words
  <2>1. PICK k \in 0..n : t \in [1..k -> Chars]  BY <1>1 DEF Texts
  <2> QED  BY <2>1 DEF Words
<1>2. ASSUME NEW p \in Pages PROVE p \in Seq(Words)
  <2>1. PICK k \in 1..MaxPage : p \in [1..k -> Texts(1)]  BY <1>2 DEF Pages
  <2>2. Texts(1) \subseteq Words  BY <1>1
  <2>3. p \in [1..k -> Words]  BY <2>1, <2>2
  <2>4. MaxPage \in Nat  BY SizesAssumption
  <2>5. k \in Nat  BY <2>4
  <2> QED  BY <2>3, <2>5
<1> QED  BY <1>1, <1>2

\* The editor begins with an empty line.
LEMMA SoundInit == LineInit => Sound(e)
<1>1. <<>> \in Words /\ <<>> \in Seq(Words) /\ Len(<<>>) = 0  BY EmptySeq DEF Words
<1> QED  BY <1>1 DEF LineInit, Empty, Sound, Editor

\* Each key, and each page, leaves the cursor in the line and the place in the history.
LEMMA SoundStep ==
  ASSUME Sound(e), [LineNext]_lineVars
  PROVE  Sound(e')
<1>1. CASE Type
  <2>1. PICK c \in Chars : e' = Insert(e, c)  BY <1>1 DEF Type, Do
  <2> QED  BY <2>1, InsertSound
<1>2. CASE Go
  <2>1. PICK to \in {Left(e), Right(e), 0, Len(e.chars), WordLeft(e), WordRight(e)} : e' = Move(e, to)
    BY <1>2 DEF Go, Do
  <2>2. to \in 0..Len(e.chars)
    <3>1. /\ Left(e) \in 0..e.cursor /\ WordLeft(e) \in 0..e.cursor
          /\ Right(e) \in e.cursor..Len(e.chars) /\ WordRight(e) \in e.cursor..Len(e.chars)
          /\ e.cursor \in 0..Len(e.chars) /\ Len(e.chars) \in Nat  BY Places
    <3>2. {Left(e), Right(e), 0, Len(e.chars), WordLeft(e), WordRight(e)} \subseteq 0..Len(e.chars)  BY ONLY <3>1
    <3> QED  BY <3>2
  <2> QED  BY <2>1, <2>2, MoveSound
<1>3. CASE Erase
  <2>1. e' \in {Backspace(e), Delete(e), KillWordLeft(e), KillWordRight(e), KillToStart(e), KillToEnd(e)}
    BY <1>3 DEF Erase, Do
  <2>2. /\ Left(e) \in 0..e.cursor /\ WordLeft(e) \in 0..e.cursor
        /\ Right(e) \in e.cursor..Len(e.chars) /\ WordRight(e) \in e.cursor..Len(e.chars)
        /\ e.cursor \in 0..Len(e.chars) /\ Len(e.chars) \in Nat  BY Places
  <2>3. /\ Left(e) \in Nat /\ e.cursor \in Left(e)..Len(e.chars)
        /\ WordLeft(e) \in Nat /\ e.cursor \in WordLeft(e)..Len(e.chars)
        /\ e.cursor \in Nat /\ 0 \in Nat /\ e.cursor \in 0..Len(e.chars) /\ Len(e.chars) \in e.cursor..Len(e.chars)
    BY ONLY <2>2
  <2>4. Sound(Backspace(e)) /\ Sound(KillWordLeft(e)) /\ Sound(KillToStart(e))
    BY <2>3, CutSound DEF Backspace, KillWordLeft, KillToStart
  <2>5. Sound(Delete(e)) /\ Sound(KillWordRight(e)) /\ Sound(KillToEnd(e))
    BY <2>2, <2>3, CutSound DEF Delete, KillWordRight, KillToEnd
  <2> QED  BY <2>1, <2>4, <2>5
<1>4. CASE Submit
  <2>1. e' = Take(e)  BY <1>4 DEF Submit, Do
  <2> QED  BY <2>1, TakeSound
<1>5. CASE Reach
  <2>1. e' = Earlier(e) \/ e' = Later(e)  BY <1>5 DEF Reach, Do
  <2> QED  BY <2>1, EarlierSound, LaterSound
<1>6. CASE FirstPage
  <2>1. PICK line \in Texts(1) : e' = Keep(e, Trim(line))  BY <1>6 DEF FirstPage, Do, Remember
  <2>2. line \in Words  BY TextsAreWords
  <2>3. Trim(line) \in Words  BY <2>2, TrimTyped
  <2> QED  BY <2>1, <2>3, KeepSound
<1>7. CASE OlderPage
  <2>1. PICK page \in Pages : e' = RememberOlder(e, page)  BY <1>7 DEF OlderPage, Do
  <2>2. page \in Seq(Words)  BY TextsAreWords
  <2> QED  BY <2>1, <2>2, RememberOlderSound
<1>8. CASE UNCHANGED lineVars  BY <1>8 DEF lineVars
<1> QED  BY <1>1, <1>2, <1>3, <1>4, <1>5, <1>6, <1>7, <1>8 DEF LineNext

EditorSound == Sound(e)

(***************************************************************************)
(* The cursor is always in the line and the place in the history, whatever *)
(* keys are pressed and whatever pages come (ui/line.rs).                  *)
(***************************************************************************)
THEOREM LineIsSound == LineSpec => []EditorSound
<1>1. LineInit => EditorSound  BY SoundInit DEF EditorSound
<1>2. EditorSound /\ [LineNext]_lineVars => EditorSound'  BY SoundStep DEF EditorSound
<1> QED  BY <1>1, <1>2, PTL DEF LineSpec

(***************************************************************************)
(* A page of history that comes while a person is reaching back leaves     *)
(* them on the line they were on, if there was room for a line more        *)
(* ("Where you are in the history does not move", ui/line.rs).             *)
(***************************************************************************)
THEOREM ThePlaceHolds == LineSpec => PlaceHolds
<1> DEFINE Holds == act' = "page" /\ e.place # 0 /\ Len(e.history) < Remembered
                      => e'.place # 0 /\ e'.history[e'.place] = e.history[e.place] /\ e'.chars = e.chars
<1>1. ASSUME Sound(e), [LineNext]_lineVars PROVE [Holds]_lineVars
  <2> SUFFICES ASSUME act' = "page", e.place # 0, Len(e.history) < Remembered, LineNext
               PROVE  e'.place # 0 /\ e'.history[e'.place] = e.history[e.place] /\ e'.chars = e.chars
    BY <1>1
  <2>1. FirstPage \/ OlderPage
    BY DEF LineNext, Type, Go, Erase, Submit, Reach, Do
  <2>2. CASE FirstPage
    <3>1. PICK line \in Texts(1) : e' = Keep(e, Trim(line))  BY <2>2 DEF FirstPage, Do, Remember
    <3>2. line \in Words  BY TextsAreWords
    <3>3. Trim(line) \in Words  BY <3>2, TrimTyped
    <3> QED  BY <1>1, <3>1, <3>3, KeepSound
  <2>3. CASE OlderPage
    <3>1. PICK page \in Pages : e' = RememberOlder(e, page)  BY <2>3 DEF OlderPage, Do
    <3>2. page \in Seq(Words)  BY TextsAreWords
    <3> QED  BY <1>1, <3>1, <3>2, RememberOlderSound
  <2> QED  BY <2>1, <2>2, <2>3
<1> HIDE DEF Holds
<1>2. EditorSound /\ [LineNext]_lineVars => [Holds]_lineVars  BY <1>1 DEF EditorSound
<1>3. LineSpec => [][Holds]_lineVars  BY LineIsSound, <1>2, PTL DEF LineSpec
<1> QED  BY <1>3 DEF PlaceHolds, Holds

------------------------------------------------------------------------------
(* Wrapping *)

Row == [from : Nat, to : Nat]
WrapState == [rows : Seq(Row), start : Nat]
NoRows == [rows |-> <<>>, start |-> 0]

\* The end of a word is where the next character is a blank, or there is none.
LEMMA WordEndIs ==
  ASSUME NEW s \in Words, NEW i \in 1..Len(s)
  PROVE  /\ WordEnd(s, i) \in i..Len(s)
         /\ \A k \in i..Len(s) : (\A j \in i..k : s[j] # Blank) => k <= WordEnd(s, i)
<1> DEFINE n == Len(s)
           T == {n} \union {j \in i..n : j < n /\ s[j + 1] = Blank}
<1>1. n \in Nat /\ i \in Nat  BY DEF Words
<1> HIDE DEF n
<1>2. T \subseteq i..n /\ T \subseteq Nat /\ T # {}  BY <1>1 DEF n
<1>3. WordEnd(s, i) = Min(T)  BY DEF WordEnd, n
<1>4. Min(T) \in T
  <2> HIDE DEF T
  <2> QED  BY <1>2, MinOf
<1>5. ASSUME NEW k \in i..n, \A j \in i..k : s[j] # Blank PROVE k <= Min(T)
  <2>1. CASE Min(T) = n  BY <1>1, <2>1
  <2>2. CASE Min(T) # n
    <3>1. Min(T) \in i..n /\ Min(T) < n /\ s[Min(T) + 1] = Blank  BY <1>4, <2>2
    <3>2. Min(T) + 1 \notin i..k  BY <1>5, <3>1
    <3> QED  BY <1>1, <3>1, <3>2
  <2> QED  BY <2>1, <2>2
<1> QED  BY <1>2, <1>3, <1>4, <1>5 DEF n

InWord(s, f) == f > 0 /\ f < Len(s) /\ s[f] # Blank /\ s[f + 1] # Blank
TooLong(s, w, f) == \E i \in 1..f : StartsWord(s, i) /\ f < WordEnd(s, i) /\ WordEnd(s, i) - i >= w

\* A row is no wider than the width, and splits a word only if no row would hold it.
RowFits(s, w, a) == a.to - a.from \in 0..w /\ (InWord(s, a.from) => TooLong(s, w, a.from))
\* Between two rows nothing is left out but a blank, and the first was left short only for the
\* word the next begins with.
Joins(s, w, a, b) ==
  /\ b.from - a.to = 0 \/ (b.from - a.to = 1 /\ s[b.from] = Blank)
  /\ a.to - a.from = w \/ (StartsWord(s, b.from + 1) /\ (a.to - a.from) + WordEnd(s, b.from + 1) - b.from > w)
Laid(rows, s, w, k) ==
  /\ rows \in Seq(Row) /\ Len(rows) \in Nat \ {0} /\ rows[1].from = 0 /\ rows[Len(rows)].to = k
  /\ \A r \in 1..Len(rows) : RowFits(s, w, rows[r])
  /\ \A r \in 2..Len(rows) : Joins(s, w, rows[r - 1], rows[r])

Rows(v, k) == Append(v.rows, [from |-> v.start, to |-> k])
\* A word that some row would hold is held by the one it began on.
WordHeld(v, s, w, k) ==
  k > 0 /\ s[k] # Blank => \E i \in 1..k :
    /\ StartsWord(s, i) /\ \A j \in i..k : s[j] # Blank
    /\ WordEnd(s, i) - i < w => v.start < i /\ WordEnd(s, i) - v.start <= w
Wrapped(v, s, w, k) == Laid(Rows(v, k), s, w, k) /\ WordHeld(v, s, w, k)

\* The rows that k characters make are those finished and the one begun.
LEMMA RowsAre ==
  ASSUME NEW v \in WrapState, NEW k \in Nat
  PROVE  /\ Rows(v, k) \in Seq(Row) /\ Len(v.rows) \in Nat /\ Len(Rows(v, k)) = Len(v.rows) + 1
         /\ \A r \in 1..Len(v.rows) : Rows(v, k)[r] = v.rows[r]
         /\ Rows(v, k)[Len(v.rows) + 1] = [from |-> v.start, to |-> k]
<1>1. v.rows \in Seq(Row) /\ [from |-> v.start, to |-> k] \in Row  BY DEF WrapState, Row
<1>2. Len(v.rows) \in Nat  BY <1>1, LenProperties
<1> QED  BY <1>1, <1>2, AppendProperties DEF Rows

\* Another row below.
LEMMA OneRowMore ==
  ASSUME NEW s, NEW w \in Nat, NEW k \in Nat, NEW R, Laid(R, s, w, k), NEW f \in Nat, NEW m \in Nat,
         RowFits(s, w, [from |-> f, to |-> m]), Joins(s, w, R[Len(R)], [from |-> f, to |-> m])
  PROVE  Laid(Append(R, [from |-> f, to |-> m]), s, w, m)
<1> DEFINE b == [from |-> f, to |-> m]
           n == Len(R)
           Q == Append(R, b)
<1>1. R \in Seq(Row) /\ n \in Nat \ {0} /\ b \in Row  BY DEF Laid, Row
<1>2. Q \in Seq(Row) /\ Len(Q) = n + 1 /\ (\A r \in 1..n : Q[r] = R[r]) /\ Q[n + 1] = b  BY <1>1, AppendProperties
<1>3. b.to = m  OBVIOUS
<1> HIDE DEF b, n, Q
<1>4. 1 \in 1..n /\ Q[1].from = 0  BY <1>1, <1>2 DEF Laid
<1>5. \A r \in 1..(n + 1) : RowFits(s, w, Q[r])
  <2> TAKE r \in 1..(n + 1)
  <2>1. CASE r = n + 1  BY <1>2, <2>1 DEF b
  <2>2. CASE r # n + 1
    <3>1. r \in 1..n  BY <1>1, <2>2
    <3> QED  BY <1>2, <3>1 DEF Laid, n
  <2> QED  BY <2>1, <2>2
<1>6. \A r \in 2..(n + 1) : Joins(s, w, Q[r - 1], Q[r])
  <2> TAKE r \in 2..(n + 1)
  <2>1. CASE r = n + 1
    <3>1. r - 1 = n /\ n \in 1..n  BY <1>1, <2>1
    <3> QED  BY <1>2, <2>1, <3>1 DEF b, n
  <2>2. CASE r # n + 1
    <3>1. r \in 2..n /\ r \in 1..n /\ r - 1 \in 1..n  BY <1>1, <2>2
    <3> QED  BY <1>2, <3>1 DEF Laid, n
  <2> QED  BY <2>1, <2>2
<1>7. n + 1 \in Nat \ {0}  BY <1>1
<1> QED  BY <1>2, <1>3, <1>4, <1>5, <1>6, <1>7 DEF Laid, Q, b

\* The last row a character longer.
LEMMA LastRowLonger ==
  ASSUME NEW s, NEW w \in Nat, NEW k \in Nat, NEW v \in WrapState, Laid(Rows(v, k), s, w, k), k - v.start < w
  PROVE  Laid(Rows(v, k + 1), s, w, k + 1)
<1> DEFINE R == Rows(v, k)
           Q == Rows(v, k + 1)
           n == Len(v.rows) + 1
           a == [from |-> v.start, to |-> k]
           b == [from |-> v.start, to |-> k + 1]
<1>1. Len(R) = n /\ n \in Nat \ {0} /\ R[n] = a /\ \A r \in 1..(n - 1) : R[r] = v.rows[r]
  <2>1. Len(v.rows) \in Nat /\ (Len(v.rows) + 1) - 1 = Len(v.rows)  BY RowsAre
  <2> QED  BY <2>1, RowsAre
<1>2. k + 1 \in Nat /\ Q \in Seq(Row) /\ Len(Q) = n /\ Q[n] = b /\ \A r \in 1..(n - 1) : Q[r] = v.rows[r]
  <2>1. Len(v.rows) \in Nat /\ (Len(v.rows) + 1) - 1 = Len(v.rows) /\ k + 1 \in Nat  BY RowsAre
  <2> QED  BY <2>1, RowsAre
<1>3. a.from = v.start /\ b.from = v.start /\ a.to = k /\ b.to = k + 1 /\ v.start \in Nat  BY DEF WrapState
<1> HIDE DEF R, Q, n, a, b
<1>4. Laid(R, s, w, k)  BY DEF R
<1>5. RowFits(s, w, b)
  <2>1. n \in 1..Len(R)  BY <1>1
  <2>2. RowFits(s, w, a)  BY <1>1, <1>4, <2>1 DEF Laid
  <2>3. k - v.start \in 0..w  BY <1>3, <2>2 DEF RowFits
  <2>4. (k + 1) - v.start \in 0..w  BY <1>3, <2>3
  <2> QED  BY <1>3, <2>2, <2>4 DEF RowFits
<1>6. \A r \in 1..n : RowFits(s, w, Q[r])
  <2> TAKE r \in 1..n
  <2>1. CASE r = n  BY <1>2, <1>5, <2>1
  <2>2. CASE r # n
    <3>1. r \in 1..(n - 1)  BY <1>1, <2>2
    <3> QED  BY <1>1, <1>2, <1>4, <3>1 DEF Laid
  <2> QED  BY <2>1, <2>2
<1>7. \A r \in 2..n : Joins(s, w, Q[r - 1], Q[r])
  <2> TAKE r \in 2..n
  <2>1. Joins(s, w, R[r - 1], R[r])  BY <1>1, <1>4 DEF Laid
  <2>2. r - 1 \in 1..(n - 1)  BY <1>1
  <2>3. Q[r - 1] = R[r - 1] /\ Q[r].from = R[r].from
    <3>1. CASE r = n  BY <1>1, <1>2, <1>3, <2>2, <3>1
    <3>2. CASE r # n
      <4>1. r \in 1..(n - 1)  BY <1>1, <3>2
      <4> QED  BY <1>1, <1>2, <2>2, <4>1
    <3> QED  BY <3>1, <3>2
  <2> QED  BY <2>1, <2>3 DEF Joins
<1>8. Q[1].from = 0
  <2>1. R[1].from = 0  BY <1>4 DEF Laid
  <2>2. CASE n = 1  BY <1>1, <1>2, <1>3, <2>1, <2>2
  <2>3. CASE n # 1
    <3>1. 1 \in 1..(n - 1)  BY <1>1, <2>3
    <3> QED  BY <1>1, <1>2, <2>1, <3>1
  <2> QED  BY <2>2, <2>3
<1> QED  BY <1>1, <1>2, <1>3, <1>6, <1>7, <1>8 DEF Laid, Q

\* A row breaks before a word that fits a row of its own, but not the rest of this one.
LEMMA BreaksBeforeIs ==
  ASSUME NEW s, NEW w, NEW i, NEW start
  PROVE  BreaksBefore(s, w, i, start)
           <=> /\ StartsWord(s, i)
               /\ WordEnd(s, i) - i + 1 <= w
               /\ (i - 1 - start) + (WordEnd(s, i) - i + 1) > w
BY Zenon DEF BreaksBefore

\* counted in characters placed.
LEMMA BreaksIs ==
  ASSUME NEW s \in Words, NEW w \in Nat, NEW k \in Nat, k + 1 <= Len(s), NEW start \in Nat
  PROVE  BreaksBefore(s, w, k + 1, start)
           <=> /\ StartsWord(s, k + 1)
               /\ WordEnd(s, k + 1) - k <= w
               /\ (k - start) + (WordEnd(s, k + 1) - k) > w
<1>1. Len(s) \in Nat  BY DEF Words
<1>2. k + 1 \in 1..Len(s)  BY <1>1
<1>3. WordEnd(s, k + 1) \in (k + 1)..Len(s)  BY <1>2, WordEndIs
<1>4. WordEnd(s, k + 1) \in Int  BY <1>1, <1>3
<1>5. WordEnd(s, k + 1) - (k + 1) + 1 = WordEnd(s, k + 1) - k /\ k + 1 - 1 = k  BY <1>4
<1>6. BreaksBefore(s, w, k + 1, start)
        <=> /\ StartsWord(s, k + 1)
            /\ WordEnd(s, k + 1) - (k + 1) + 1 <= w
            /\ (k + 1 - 1 - start) + (WordEnd(s, k + 1) - (k + 1) + 1) > w
  BY BreaksBeforeIs
<1> QED  BY ONLY <1>5, <1>6

\* What placing one character more does to the rows.
LEMMA BreakIs ==
  ASSUME NEW s \in Words, NEW w \in Nat \ {0}, NEW k \in Nat, NEW v \in WrapState,
         k + 1 <= Len(s), v.start <= k
  PROVE  LET u == Break(s, w, v, k + 1)
             b == BreaksBefore(s, w, k + 1, v.start)
         IN  /\ u \in WrapState
             /\ ~b /\ k - v.start < w => u = v
             /\ b => v.start < k /\ u.rows = Rows(v, k) /\ u.start = k
             /\ ~b /\ k - v.start >= w => u.rows = Rows(v, k) /\ u.start = IF s[k + 1] = Blank THEN k + 1 ELSE k
<1> DEFINE b == BreaksBefore(s, w, k + 1, v.start)
           u == Break(s, w, v, k + 1)
           start == IF b THEN k ELSE v.start
           rows == IF start = v.start THEN v.rows ELSE Append(v.rows, [from |-> v.start, to |-> k])
           full == k - start >= w
<1>1. (k + 1) - 1 = k /\ v.start \in Nat /\ k + 1 \in Nat /\ k + 1 \in 1..Len(s) /\ Len(s) \in Nat
  BY DEF WrapState, Words
<1>2. u = [rows |-> IF full THEN Append(rows, [from |-> start, to |-> k]) ELSE rows,
           start |-> CASE full /\ s[k + 1] = Blank -> k + 1 [] full /\ s[k + 1] # Blank -> k [] OTHER -> start]
  <2>1. (k + 1) - 1 = k  BY <1>1
  <2> QED  BY <2>1 DEF Break
<1>3. b => v.start < k
  <2> SUFFICES ASSUME b PROVE v.start < k  OBVIOUS
  <2>1. WordEnd(s, k + 1) \in (k + 1)..Len(s)  BY <1>1, WordEndIs
  <2>2. WordEnd(s, k + 1) - k <= w /\ (k - v.start) + (WordEnd(s, k + 1) - k) > w
    BY <1>1, BreaksIs
  <2> HIDE DEF b
  <2>3. WordEnd(s, k + 1) \in Int  BY <1>1, <2>1
  <2> QED  BY ONLY <1>1, <2>2, <2>3
<1>4. Rows(v, k) = Append(v.rows, [from |-> v.start, to |-> k]) /\ Rows(v, k) \in Seq(Row)  BY RowsAre DEF Rows
<1>5. v = [rows |-> v.rows, start |-> v.start] /\ v.rows \in Seq(Row)  BY DEF WrapState
<1> HIDE DEF b, u
<1>6. CASE ~b /\ k - v.start < w
  <2>1. start = v.start /\ rows = v.rows /\ ~full  BY <1>1, <1>6
  <2> HIDE DEF start, rows, full
  <2>2. u = v  BY <1>2, <1>5, <2>1
  <2> QED  BY <2>2, <1>1, <1>6 DEF b, u
<1>7. CASE ~b /\ k - v.start >= w
  <2>1. start = v.start /\ rows = v.rows /\ full  BY <1>1, <1>7
  <2> HIDE DEF start, rows, full
  <2>2. u = [rows |-> Rows(v, k), start |-> IF s[k + 1] = Blank THEN k + 1 ELSE k]  BY <1>2, <1>4, <2>1
  <2>3. u \in WrapState  BY <1>1, <1>4, <2>2 DEF WrapState
  <2> QED  BY <1>1, <1>7, <2>2, <2>3 DEF b, u
<1>8. CASE b
  <2>1. start = k /\ start # v.start /\ rows = Rows(v, k) /\ ~full  BY <1>1, <1>3, <1>4, <1>8
  <2> HIDE DEF start, rows, full
  <2>2. u = [rows |-> Rows(v, k), start |-> k]  BY <1>2, <2>1
  <2>3. u \in WrapState  BY <1>1, <1>4, <2>2 DEF WrapState
  <2> QED  BY <1>3, <1>8, <2>2, <2>3 DEF b, u
<1>9. k - v.start < w \/ k - v.start >= w  BY <1>1
<1> QED  BY <1>6, <1>7, <1>8, <1>9 DEF b, u

\* Each character placed keeps what was laid out well laid out.
LEMMA WrapStep ==
  ASSUME NEW s \in Words, NEW w \in Nat \ {0}, NEW k \in Nat, k + 1 <= Len(s), NEW v \in WrapState,
         Wrapped(v, s, w, k)
  PROVE  Break(s, w, v, k + 1) \in WrapState /\ Wrapped(Break(s, w, v, k + 1), s, w, k + 1)
<1> DEFINE b == BreaksBefore(s, w, k + 1, v.start)
           u == Break(s, w, v, k + 1)
           n == Len(s)
           R == Rows(v, k)
           end == WordEnd(s, k + 1)
<1>1. n \in Nat /\ k + 1 \in 1..n /\ v.start \in Nat /\ (k + 1) - 1 = k /\ k + 1 \in Nat  BY DEF WrapState, Words
<1>2. Laid(R, s, w, k) /\ WordHeld(v, s, w, k)  BY DEF Wrapped
<1>3. Len(R) \in Nat \ {0} /\ R[Len(R)] = [from |-> v.start, to |-> k]  BY <1>2, RowsAre DEF Laid
<1>4. k - v.start \in 0..w
  <2>1. RowFits(s, w, R[Len(R)])
    <3>1. Len(R) \in 1..Len(R)  BY <1>3
    <3> QED  BY <1>2, <3>1 DEF Laid
  <2> HIDE DEF R
  <2> QED  BY <1>3, <2>1 DEF RowFits
<1>5. v.start <= k  BY <1>1, <1>4
<1>6. /\ u \in WrapState
      /\ ~b /\ k - v.start < w => u = v
      /\ b => v.start < k /\ u.rows = R /\ u.start = k
      /\ ~b /\ k - v.start >= w => u.rows = R /\ u.start = IF s[k + 1] = Blank THEN k + 1 ELSE k
  BY <1>5, BreakIs
<1>7. end \in (k + 1)..n  BY <1>1, WordEndIs
<1>8. b <=> StartsWord(s, k + 1) /\ end - k <= w /\ (k - v.start) + (end - k) > w
  BY <1>1, BreaksIs
<1> HIDE DEF b, u, n, R, end
\* Inside a word no row breaks that could hold it.
<1>9. ASSUME s[k + 1] # Blank, ~StartsWord(s, k + 1)
      PROVE  \E i \in 1..k : /\ StartsWord(s, i) /\ \A j \in i..(k + 1) : s[j] # Blank
                             /\ k + 1 <= WordEnd(s, i) /\ WordEnd(s, i) \in Nat
                             /\ WordEnd(s, i) - i < w => v.start < i /\ WordEnd(s, i) - v.start <= w
  <2>1. k > 0 /\ s[k] # Blank  BY <1>1, <1>9 DEF StartsWord
  <2>2. PICK i \in 1..k : /\ StartsWord(s, i) /\ \A j \in i..k : s[j] # Blank
                          /\ WordEnd(s, i) - i < w => v.start < i /\ WordEnd(s, i) - v.start <= w
    BY <1>2, <2>1 DEF WordHeld
  <2>3. \A j \in i..(k + 1) : s[j] # Blank
    <3> TAKE j \in i..(k + 1)
    <3>1. j = k + 1 \/ j \in i..k  OBVIOUS
    <3> QED  BY <1>9, <2>2, <3>1
  <2>4. i \in 1..Len(s) /\ k + 1 \in i..Len(s)  BY <1>1 DEF n
  <2>5. k + 1 <= WordEnd(s, i) /\ WordEnd(s, i) \in i..Len(s)  BY <2>3, <2>4, WordEndIs
  <2>6. WordEnd(s, i) \in Nat  BY <2>5
  <2> QED  BY <2>2, <2>3, <2>5, <2>6
<1>10. WordHeld(u, s, w, k + 1)
  <2> SUFFICES ASSUME s[k + 1] # Blank
               PROVE  \E i \in 1..(k + 1) :
                        /\ StartsWord(s, i) /\ \A j \in i..(k + 1) : s[j] # Blank
                        /\ WordEnd(s, i) - i < w => u.start < i /\ WordEnd(s, i) - u.start <= w
    BY DEF WordHeld
  <2>1. CASE StartsWord(s, k + 1)
    <3>1. \A j \in (k + 1)..(k + 1) : s[j] # Blank  OBVIOUS
    <3>2. ASSUME end - (k + 1) < w PROVE u.start < k + 1 /\ end - u.start <= w
      <4>1. CASE b  BY <1>1, <1>6, <1>7, <1>8, <4>1
      <4>2. CASE ~b
        <5>1. (k - v.start) + (end - k) <= w /\ end - k >= 1  BY <1>1, <1>4, <1>7, <1>8, <2>1, <3>2, <4>2
        <5>2. k - v.start < w /\ end - v.start <= w  BY <1>1, <1>4, <1>7, <5>1
        <5>3. u.start = v.start  BY <1>6, <4>2, <5>2
        <5> QED  BY <1>1, <1>5, <5>2, <5>3
      <4> QED  BY <4>1, <4>2
    <3>3. k + 1 \in 1..(k + 1)  OBVIOUS
    <3> QED  BY <2>1, <3>1, <3>2, <3>3 DEF end
  <2>2. CASE ~StartsWord(s, k + 1)
    <3>1. PICK i \in 1..k : /\ StartsWord(s, i) /\ \A j \in i..(k + 1) : s[j] # Blank
                            /\ k + 1 <= WordEnd(s, i) /\ WordEnd(s, i) \in Nat
                            /\ WordEnd(s, i) - i < w => v.start < i /\ WordEnd(s, i) - v.start <= w
      BY <1>9, <2>2
    <3>2. ~b  BY <1>8, <2>2
    <3>3. ASSUME WordEnd(s, i) - i < w PROVE u.start < i /\ WordEnd(s, i) - u.start <= w
      <4>1. k - v.start < w  BY <1>1, <1>4, <3>1, <3>3
      <4>2. u.start = v.start  BY <1>6, <3>2, <4>1
      <4> QED  BY <3>1, <3>3, <4>2
    <3>4. i \in 1..(k + 1)  OBVIOUS
    <3> QED  BY <3>1, <3>3, <3>4
  <2> QED  BY <2>1, <2>2
<1>11. Laid(Rows(u, k + 1), s, w, k + 1)
  <2>1. CASE ~b /\ k - v.start < w
    <3>1. u = v  BY <1>6, <2>1
    <3>2. Laid(Rows(v, k), s, w, k)  BY <1>2 DEF R
    <3> QED  BY <2>1, <3>1, <3>2, LastRowLonger
  <2>2. CASE b
    <3>1. Rows(u, k + 1) = Append(R, [from |-> k, to |-> k + 1])  BY <1>6, <2>2 DEF Rows
    <3>2. RowFits(s, w, [from |-> k, to |-> k + 1])
      <4>1. ~InWord(s, k)  BY <1>1, <1>8, <2>2 DEF InWord, StartsWord
      <4>2. (k + 1) - k \in 0..w  BY <1>1
      <4> QED  BY <4>1, <4>2 DEF RowFits
    <3>3. Joins(s, w, [from |-> v.start, to |-> k], [from |-> k, to |-> k + 1])
      <4>1. k - k = 0 /\ StartsWord(s, k + 1)  BY <1>8, <2>2
      <4>2. (k - v.start) + end - k > w  BY <1>1, <1>7, <1>8, <2>2
      <4> QED  BY <4>1, <4>2 DEF Joins, end
    <3> QED  BY <1>1, <1>2, <1>3, <3>1, <3>2, <3>3, OneRowMore
  <2>3. CASE ~b /\ k - v.start >= w /\ s[k + 1] = Blank
    <3>1. Rows(u, k + 1) = Append(R, [from |-> k + 1, to |-> k + 1])  BY <1>6, <2>3 DEF Rows
    <3>2. RowFits(s, w, [from |-> k + 1, to |-> k + 1])
      <4>1. ~InWord(s, k + 1)  BY <2>3 DEF InWord
      <4>2. (k + 1) - (k + 1) \in 0..w  BY <1>1
      <4> QED  BY <4>1, <4>2 DEF RowFits
    <3>3. Joins(s, w, [from |-> v.start, to |-> k], [from |-> k + 1, to |-> k + 1])
      <4>1. (k + 1) - k = 1 /\ k - v.start = w  BY <1>1, <1>4, <2>3
      <4> QED  BY <4>1, <2>3 DEF Joins
    <3> QED  BY <1>1, <1>2, <1>3, <3>1, <3>2, <3>3, OneRowMore
  <2>4. CASE ~b /\ k - v.start >= w /\ s[k + 1] # Blank
    <3>1. Rows(u, k + 1) = Append(R, [from |-> k, to |-> k + 1])  BY <1>6, <2>4 DEF Rows
    <3>2. RowFits(s, w, [from |-> k, to |-> k + 1])
      <4>1. ASSUME InWord(s, k) PROVE TooLong(s, w, k)
        <5>1. ~StartsWord(s, k + 1) /\ k \in Nat \ {0}  BY <1>1, <4>1 DEF InWord, StartsWord
        <5>2. PICK i \in 1..k : /\ StartsWord(s, i) /\ \A j \in i..(k + 1) : s[j] # Blank
                                /\ k + 1 <= WordEnd(s, i) /\ WordEnd(s, i) \in Nat
                                /\ WordEnd(s, i) - i < w => v.start < i /\ WordEnd(s, i) - v.start <= w
          BY <1>9, <2>4, <5>1
        <5>3. ~(WordEnd(s, i) - i < w)  BY <1>1, <1>4, <2>4, <5>2
        <5>4. k < WordEnd(s, i) /\ WordEnd(s, i) - i >= w  BY <5>2, <5>3
        <5> QED  BY <5>2, <5>4 DEF TooLong
      <4>2. (k + 1) - k \in 0..w  BY <1>1
      <4> QED  BY <4>1, <4>2 DEF RowFits
    <3>3. Joins(s, w, [from |-> v.start, to |-> k], [from |-> k, to |-> k + 1])
      <4>1. k - k = 0 /\ k - v.start = w  BY <1>1, <1>4, <2>4
      <4> QED  BY <4>1 DEF Joins
    <3> QED  BY <1>1, <1>2, <1>3, <3>1, <3>2, <3>3, OneRowMore
  <2>5. k - v.start < w \/ k - v.start >= w  BY <1>1
  <2> QED  BY <2>1, <2>2, <2>3, <2>4, <2>5
<1> QED  BY <1>6, <1>10, <1>11 DEF Wrapped, u

\* A character more leaves rows and the start of the one begun.
LEMMA BreakTyped ==
  ASSUME NEW s \in Words, NEW w \in Nat, NEW v \in WrapState, NEW i \in 1..Len(s)
  PROVE  Break(s, w, v, i) \in WrapState
<1> DEFINE b == BreaksBefore(s, w, i, v.start)
           start == IF b THEN i - 1 ELSE v.start
           rows == IF start = v.start THEN v.rows ELSE Append(v.rows, [from |-> v.start, to |-> i - 1])
           full == i - 1 - start >= w
<1>1. i \in Nat /\ i - 1 \in Nat /\ v.start \in Nat /\ v.rows \in Seq(Row)  BY DEF Words, WrapState
<1>2. Break(s, w, v, i)
        = [rows |-> IF full THEN Append(rows, [from |-> start, to |-> i - 1]) ELSE rows,
           start |-> CASE full /\ s[i] = Blank -> i [] full /\ s[i] # Blank -> i - 1 [] OTHER -> start]
  BY DEF Break
<1> HIDE DEF b
<1>3. start \in Nat  BY <1>1
<1> HIDE DEF full
<1>4. rows \in Seq(Row)
  <2>1. [from |-> v.start, to |-> i - 1] \in Row  BY <1>1 DEF Row
  <2>2. Append(v.rows, [from |-> v.start, to |-> i - 1]) \in Seq(Row)  BY <1>1, <2>1, AppendProperties
  <2> QED  BY <1>1, <2>2
<1> HIDE DEF start, rows
<1>5. Append(rows, [from |-> start, to |-> i - 1]) \in Seq(Row)
  <2>1. [from |-> start, to |-> i - 1] \in Row  BY <1>1, <1>3 DEF Row
  <2> QED  BY <1>4, <2>1, AppendProperties
<1>6. (CASE full /\ s[i] = Blank -> i [] full /\ s[i] # Blank -> i - 1 [] OTHER -> start) \in Nat
  BY <1>1, <1>3
<1> QED  BY <1>2, <1>4, <1>5, <1>6 DEF WrapState

\* Nothing placed is laid as it should be.
LEMMA NothingPlaced ==
  ASSUME NEW s \in Words, NEW w \in Nat \ {0}
  PROVE  NoRows \in WrapState /\ Wrapped(NoRows, s, w, 0)
<1>1. NoRows \in WrapState  BY EmptySeq DEF NoRows, WrapState
<1>2. NoRows.rows = <<>> /\ NoRows.start = 0  BY DEF NoRows
<1>3. Len(NoRows.rows) = 0  BY <1>2
<1> DEFINE R == Rows(NoRows, 0)
<1>4. R \in Seq(Row) /\ Len(R) = 1 /\ R[1] = [from |-> 0, to |-> 0]
  <2>1. 0 \in Nat /\ 0 + 1 = 1  OBVIOUS
  <2> HIDE DEF R
  <2>2. /\ R \in Seq(Row) /\ Len(R) = Len(NoRows.rows) + 1
        /\ R[Len(NoRows.rows) + 1] = [from |-> NoRows.start, to |-> 0]
    BY <1>1, <2>1, RowsAre DEF R
  <2> QED  BY <1>2, <1>3, <2>1, <2>2
<1> HIDE DEF R
<1>5. RowFits(s, w, [from |-> 0, to |-> 0])
  <2>1. ~InWord(s, 0) /\ 0 - 0 \in 0..w  BY DEF InWord
  <2> QED  BY <2>1 DEF RowFits
<1>6. Laid(R, s, w, 0)
  <2>1. \A r \in 1..1 : R[r] = [from |-> 0, to |-> 0]  BY <1>4
  <2>2. 2..1 = {} /\ 1 \in Nat \ {0}  OBVIOUS
  <2> QED  BY <1>4, <1>5, <2>1, <2>2 DEF Laid
<1>7. WordHeld(NoRows, s, w, 0)  BY DEF WordHeld
<1> QED  BY <1>1, <1>6, <1>7 DEF Wrapped, R

\* The whole line, wrapped.
LEMMA WrapLaid ==
  ASSUME NEW s \in Words, NEW w \in Nat \ {0}
  PROVE  Laid(Wrap(s, w), s, w, Len(s))
<1> DEFINE n == Len(s)
           d == [i \in DOMAIN s |-> i]
           X == WrapState
           G == [p \in X \X (1..n) |-> Break(s, w, p[1], p[2])]
           H(it) == [T \in SUBSET (1..n) |-> IF T = {} THEN NoRows ELSE Break(s, w, it[T \ {Max(T)}], d[Max(T)])]
           Folds(it) == it = H(it)
           f == CHOOSE it : Folds(it)
<1>a. n \in Nat /\ DOMAIN s = 1..n  BY DEF Words
<1>b. NoRows \in X /\ Wrapped(NoRows, s, w, 0)  BY NothingPlaced
<1>c. \A x \in X, k \in 1..n : Break(s, w, x, k) \in X  BY BreakTyped
<1>d. DOMAIN d = 1..n /\ Len(d) = n /\ \A k \in 1..n : d[k] = k
  <2>1. DOMAIN d = 1..n /\ \A k \in 1..n : d[k] = k  BY <1>a
  <2>2. d \in Seq(1..n)  BY <1>a, <2>1 DEF Seq
  <2> QED  BY <1>a, <2>1, <2>2, LenProperties
<1> HIDE DEF X, n, d
<1>1. FoldLeft(LAMBDA acc, i : Break(s, w, acc, i), NoRows, d) = f[1..n]
  BY <1>d DEF FoldLeft, MapThenFoldSet
<1>2. \A x \in X, k \in 1..n : G[<<x, k>>] = Break(s, w, x, k)  OBVIOUS
<1>3. G \in [X \X (1..n) -> X]  BY <1>c
<1> HIDE DEF G
<1>4. PICK it \in [SUBSET (1..n) -> X] : Climbs(it, n, NoRows, G)  BY <1>a, <1>b, <1>3, ClimbExists DEF Climbable
<1>5. \A T \in SUBSET (1..n) : T # {} => T \ {Max(T)} \in SUBSET (1..n) /\ Max(T) \in 1..n
  <2> TAKE T \in SUBSET (1..n)
  <2>1. T \subseteq 0..n /\ n \in Nat  BY <1>a
  <2> QED  BY <2>1, MaxOf
<1>6. Folds(it)
  <2>1. \A T \in SUBSET (1..n) : T # {} =>
          G[<<it[T \ {Max(T)}], Max(T)>>] = Break(s, w, it[T \ {Max(T)}], d[Max(T)])
    BY <1>2, <1>5, <1>d
  <2> QED  BY <1>4, <2>1 DEF Climbs
<1>7. Folds(f)
  <2> HIDE DEF Folds
  <2> QED  BY <1>6
<1> HIDE DEF f
<1>8. StepsAlong(f, X, n, NoRows, G)
  <2>1. f[{}] = NoRows  BY <1>7
  <2>2. ASSUME NEW k \in 1..n, f[1..(k - 1)] \in X PROVE f[1..k] = G[<<f[1..(k - 1)], k>>]
    <3>1. k \in Nat \ {0} /\ 1..k \in SUBSET (1..n)  BY <1>a
    <3>2. (1..k) # {} /\ Max(1..k) = k /\ (1..k) \ {k} = 1..(k - 1)  BY <3>1, FirstPlaces
    <3>3. d[Max(1..k)] = k  BY <1>d, <3>2
    <3>4. f[1..k] = Break(s, w, f[1..(k - 1)], k)  BY <1>7, <3>1, <3>2, <3>3
    <3> QED  BY <3>4, <2>2, <1>2
  <2> QED  BY <2>1, <2>2 DEF StepsAlong
<1> DEFINE a == Trace(f, n)
<1>9. IsPath(a, X, n, NoRows, G)  BY <1>a, <1>b, <1>3, <1>8, PathOf
<1>10. a[n] = f[1..n]  BY <1>a DEF Trace
<1> HIDE DEF a
<1>11. a[0] = NoRows /\ \A k \in 0..n : a[k] \in X  BY <1>9 DEF IsPath
<1>12. \A k \in 1..n : a[k] = Break(s, w, a[k - 1], k)
  <2> TAKE k \in 1..n
  <2>1. k - 1 \in 0..n  BY <1>a
  <2> QED  BY <1>2, <1>9, <1>11, <2>1 DEF IsPath
<1> DEFINE Good(k) == k <= n => Wrapped(a[k], s, w, k)
           S == {k \in Nat : Good(k)}
<1>13. 0 \in S  BY <1>b, <1>11
<1>14. \A k \in Nat : k \in S => k + 1 \in S
  <2> TAKE k \in Nat
  <2> SUFFICES ASSUME k \in S, k + 1 <= n PROVE Wrapped(a[k + 1], s, w, k + 1)  OBVIOUS
  <2>1. k \in 0..n /\ k + 1 \in 1..n /\ (k + 1) - 1 = k  BY <1>a
  <2>2. Wrapped(a[k], s, w, k) /\ a[k] \in WrapState  BY <1>11, <2>1 DEF X
  <2>3. a[k + 1] = Break(s, w, a[k], k + 1)  BY <1>12, <2>1
  <2>4. k + 1 <= Len(s)  BY DEF n
  <2> QED  BY <2>2, <2>3, <2>4, WrapStep
<1> HIDE DEF S
<1>15. n \in S  BY <1>13, <1>14, <1>a, CountingUp
<1>16. Laid(Rows(a[n], n), s, w, n)  BY <1>15, <1>a DEF S, Wrapped
<1>17. Wrap(s, w) = Rows(a[n], n)  BY <1>1, <1>10 DEF Wrap, Rows, NoRows, d, n
<1> QED  BY <1>16, <1>17 DEF n

------------------------------------------------------------------------------
(* The box the line is drawn in *)

\* What is clamped lies between the two ends.
LEMMA ClampIs ==
  ASSUME NEW n \in Int, NEW lo \in Int, NEW hi \in Int, lo <= hi
  PROVE  Clamp(n, lo, hi) \in lo..hi
<1> DEFINE m == Max({n, lo})
<1>1. m \in Int /\ m >= lo  BY OfTwo
<1> HIDE DEF m
<1>2. Min({m, hi}) \in lo..hi  BY <1>1, OfTwo
<1> QED  BY <1>2 DEF Clamp, m

\* The height the layout gives is a number of rows.
LEMMA GrantedIs ==
  ASSUME NEW rows, Len(rows) \in Nat, NEW height \in Nat
  PROVE  Granted(rows, height) \subseteq Nat
<1>1. height \div 3 \in Int /\ 3 \in Int /\ 12 \in Int /\ 3 <= 12  OBVIOUS
<1>2. InputLimit(height) \in 3..12
  <2>1. Clamp(height \div 3, 3, 12) \in 3..12  BY ONLY <1>1, ClampIs
  <2> QED  BY <2>1 DEF InputLimit
<1>3. InputLimit(height) \in Int /\ 3 <= InputLimit(height) /\ Len(rows) + 2 \in Int  BY <1>2
<1>4. InputHeight(rows, height) \in 3..InputLimit(height)
  <2>1. Clamp(Len(rows) + 2, 3, InputLimit(height)) \in 3..InputLimit(height)  BY ONLY <1>1, <1>3, ClampIs
  <2> QED  BY <2>1 DEF InputHeight
<1>5. InputHeight(rows, height) \in Nat  BY <1>3, <1>4
<1> QED  BY <1>5 DEF Granted

\* There is room for a character in every window.
LEMMA TypingWidthIs ==
  ASSUME NEW width \in Nat
  PROVE  TypingWidth(width) \in Nat \ {0}
<1>1. width - 2 \in Int /\ 1 \in Int  OBVIOUS
<1> QED  BY <1>1, OfTwo DEF TypingWidth

\* The row the cursor is on is one of the rows, and wide enough for it.
LEMMA CursorOnARow ==
  ASSUME NEW s \in Words, NEW w \in Nat \ {0}, NEW rows, Laid(rows, s, w, Len(s)), NEW cursor \in 0..Len(s)
  PROVE  /\ CursorRow(rows, cursor) \in 1..Len(rows)
         /\ cursor - rows[CursorRow(rows, cursor)].from \in 0..w
<1> DEFINE n == Len(rows)
           T == {r \in 1..n : rows[r].from <= cursor}
           r == Max(T)
<1>1. rows \in Seq(Row) /\ n \in Nat \ {0} /\ DOMAIN rows = 1..n  BY DEF Laid
<1>2. \A q \in 1..n : rows[q] \in Row /\ rows[q].from \in Nat /\ rows[q].to \in Nat
  <2>1. \A q \in 1..n : rows[q] \in Row  BY <1>1, ElementOfSeq
  <2> QED  BY <2>1 DEF Row
<1>3. cursor \in Nat /\ Len(s) \in Nat /\ cursor <= Len(s)  BY DEF Words
<1> HIDE DEF n
<1>4. CursorRow(rows, cursor) = r  BY <1>1 DEF CursorRow
<1>5. rows[1].from = 0 /\ rows[n].to = Len(s)  BY DEF Laid, n
<1>6. 1 \in T /\ T \subseteq 0..n  BY <1>1, <1>3, <1>5
<1>7. r \in T /\ \A q \in T : q <= r
  <2> HIDE DEF T
  <2> QED  BY <1>1, <1>6, MaxOf
<1> HIDE DEF r
<1>8. r \in 1..n /\ rows[r].from <= cursor  BY <1>7
<1>9. rows[r].to - rows[r].from \in 0..w  BY <1>8 DEF Laid, RowFits, n
<1>10. cursor <= rows[r].to
  <2>1. CASE r = n  BY <1>3, <1>5, <2>1
  <2>2. CASE r # n
    <3>1. r + 1 \in 2..n /\ r + 1 \in 1..n /\ (r + 1) - 1 = r  BY <1>1, <1>8, <2>2
    <3>2. ~(rows[r + 1].from <= cursor)
      <4>1. r + 1 \notin T  BY <1>7, <1>8, <3>1
      <4> QED  BY <3>1, <4>1
    <3>3. rows[r + 1].from - rows[r].to = 0 \/ rows[r + 1].from - rows[r].to = 1
      BY <3>1 DEF Laid, Joins, n
    <3>4. rows[r + 1].from \in Nat /\ rows[r].to \in Nat  BY <1>2, <1>8, <3>1
    <3> QED  BY ONLY <1>3, <3>2, <3>3, <3>4
  <2> QED  BY <2>1, <2>2
<1>11. rows[r].from \in Nat /\ rows[r].to \in Nat /\ w \in Nat  BY <1>2, <1>8
<1>12. cursor - rows[r].from \in 0..w  BY ONLY <1>3, <1>8, <1>9, <1>10, <1>11
<1> QED  BY <1>4, <1>8, <1>12 DEF n

\* The rows taken to be shown are rows there are, and the cursor's is among them when the box has
\* an inside.
LEMMA RowIsShown ==
  ASSUME NEW rows, Len(rows) \in Nat, NEW granted \in Nat, NEW row \in 1..Len(rows)
  PROVE  /\ Shown(rows, granted, row) \subseteq 1..Len(rows)
         /\ granted > 2 => row \in Shown(rows, granted, row)
<1> DEFINE v == RowsVisible(granted)
           back == Max({0, v - 1})
           first == FirstRow(granted, row)
           last == Min({Len(rows), first + v - 1})
           n == Len(rows)
<1>1. v = IF 0 >= granted - 2 THEN 0 ELSE granted - 2
  <2>1. 0 \in Int /\ granted - 2 \in Int  OBVIOUS
  <2> QED  BY <2>1, OfTwo DEF RowsVisible
<1>2. v \in Nat /\ (granted > 2 => v >= 1)  BY <1>1
<1>3. row \in Nat /\ row >= 1 /\ row <= n /\ n \in Nat  OBVIOUS
<1> HIDE DEF v, n
<1>4. back = IF 0 >= v - 1 THEN 0 ELSE v - 1
  <2>1. 0 \in Int /\ v - 1 \in Int  BY <1>2
  <2> QED  BY <2>1, OfTwo
<1>5. back \in Nat /\ (v >= 1 => back = v - 1)  BY <1>2, <1>4
<1> HIDE DEF back
<1>6. first = IF 1 >= row - back THEN 1 ELSE row - back
  <2>1. 1 \in Int /\ row - back \in Int  BY <1>3, <1>5
  <2> QED  BY <2>1, OfTwo DEF FirstRow, back, v
<1> HIDE DEF first
<1>7. first \in Nat /\ first >= 1 /\ first <= row /\ (v >= 1 => row <= first + v - 1)  BY <1>2, <1>3, <1>5, <1>6
<1>8. last = IF n <= first + v - 1 THEN n ELSE first + v - 1
  <2> DEFINE z == first + v - 1
  <2>1. n \in Int /\ z \in Int  BY <1>2, <1>3, <1>7
  <2> HIDE DEF z
  <2>2. Min({n, z}) = IF n <= z THEN n ELSE z  BY ONLY <2>1, OfTwo
  <2> QED  BY <2>2 DEF n, z
<1> HIDE DEF last
<1>9. first..last \subseteq 1..n  BY <1>2, <1>3, <1>7, <1>8
<1>10. granted > 2 => row \in first..last  BY <1>2, <1>3, <1>7, <1>8
<1> QED  BY <1>9, <1>10 DEF Shown, last, first, v, n

\* Laid out says of each window what the property says.
LEMMA LaidIsWhole ==
  ASSUME Sound(e)
  PROVE  WrapKeepsAll
<1> SUFFICES ASSUME NEW width \in Widths
             PROVE  LET w == TypingWidth(width)
                        rows == Wrap(e.chars, w)
                        InWd(f) == f > 0 /\ f < Len(e.chars) /\ e.chars[f] # Blank /\ e.chars[f + 1] # Blank
                        Long(f) == \E i \in 1..f : StartsWord(e.chars, i) /\ f < WordEnd(e.chars, i) /\ WordEnd(e.chars, i) - i >= w
                    IN  /\ rows[1].from = 0 /\ Last(rows).to = Len(e.chars)
                        /\ \A r \in DOMAIN rows : rows[r].to - rows[r].from \in 0..w
                        /\ \A r \in 2..Len(rows) :
                             LET gap == rows[r].from - rows[r - 1].to
                             IN  gap = 0 \/ (gap = 1 /\ e.chars[rows[r].from] = Blank)
                        /\ \A r \in DOMAIN rows : InWd(rows[r].from) => Long(rows[r].from)
                        /\ \A r \in 2..Len(rows) :
                             LET f == rows[r].from
                                 used == rows[r - 1].to - rows[r - 1].from
                             IN  used = w \/ (StartsWord(e.chars, f + 1) /\ used + WordEnd(e.chars, f + 1) - f > w)
  BY Zenon DEF WrapKeepsAll
<1> DEFINE w == TypingWidth(width)
           s == e.chars
           rows == Wrap(s, w)
<1>1. w \in Nat \ {0} /\ s \in Words  BY SizesAssumption, TypingWidthIs DEF Sound, Editor
<1> HIDE DEF w, s
<1>2. Laid(rows, s, w, Len(s))  BY <1>1, WrapLaid
<1> HIDE DEF rows
<1>3. rows[1].from = 0 /\ Last(rows).to = Len(s) /\ DOMAIN rows = 1..Len(rows)  BY <1>2 DEF Laid, Last
<1>4. \A r \in DOMAIN rows : rows[r].to - rows[r].from \in 0..w  BY <1>2, <1>3 DEF Laid, RowFits
<1>5. \A r \in 2..Len(rows) : LET gap == rows[r].from - rows[r - 1].to
                              IN  gap = 0 \/ (gap = 1 /\ s[rows[r].from] = Blank)
  BY <1>2 DEF Laid, Joins
<1>6. \A r \in DOMAIN rows : InWord(s, rows[r].from) => TooLong(s, w, rows[r].from)  BY <1>2, <1>3 DEF Laid, RowFits
<1>7. \A r \in 2..Len(rows) : LET f == rows[r].from
                                  used == rows[r - 1].to - rows[r - 1].from
                              IN  used = w \/ (StartsWord(s, f + 1) /\ used + WordEnd(s, f + 1) - f > w)
  BY <1>2, Zenon DEF Laid, Joins
<1> QED  BY ONLY <1>3, <1>4, <1>5, <1>6, <1>7, Zenon DEF InWord, TooLong, rows, s, w

\* The cursor is on a row that is shown, and no further along it than the row is wide.
LEMMA CursorRowShown ==
  ASSUME Sound(e)
  PROVE  CursorRowIsShown
<1> SUFFICES ASSUME NEW width \in Widths, NEW height \in Heights
             PROVE  LET rows == Wrap(e.chars, TypingWidth(width))
                        at == CursorAt(rows, e.cursor)
                    IN  /\ at.col \in 0..TypingWidth(width)
                        /\ \A granted \in Granted(rows, height) :
                             /\ Shown(rows, granted, at.row) \subseteq DOMAIN rows
                             /\ granted > 2 => at.row \in Shown(rows, granted, at.row)
  BY DEF CursorRowIsShown
<1> DEFINE w == TypingWidth(width)
           rows == Wrap(e.chars, w)
           r == CursorRow(rows, e.cursor)
<1>1. w \in Nat \ {0} /\ e.chars \in Words /\ height \in Nat  BY SizesAssumption, TypingWidthIs DEF Sound, Editor
<1>2. e.cursor \in 0..Len(e.chars)
  <2>1. e.cursor \in Nat /\ e.cursor <= Len(e.chars) /\ Len(e.chars) \in Nat  BY DEF Sound, Editor, Words
  <2> QED  BY ONLY <2>1
<1> HIDE DEF w
<1>3. Laid(rows, e.chars, w, Len(e.chars))  BY <1>1, WrapLaid
<1> HIDE DEF rows
<1>a. r \in 1..Len(rows) /\ e.cursor - rows[r].from \in 0..w
  <2>1. e.chars \in Words /\ w \in Nat \ {0} /\ e.cursor \in 0..Len(e.chars)  BY <1>1, <1>2
  <2> QED  BY ONLY <2>1, <1>3, CursorOnARow
<1>b. Len(rows) \in Nat /\ DOMAIN rows = 1..Len(rows)  BY <1>3 DEF Laid
<1> HIDE DEF r
<1>4. /\ r \in 1..Len(rows) /\ e.cursor - rows[r].from \in 0..w
      /\ Len(rows) \in Nat /\ DOMAIN rows = 1..Len(rows)
  BY <1>a, <1>b
<1>5. ASSUME NEW granted \in Granted(rows, height)
      PROVE  Shown(rows, granted, r) \subseteq DOMAIN rows /\ (granted > 2 => r \in Shown(rows, granted, r))
  <2>1. granted \in Nat  BY <1>1, <1>4, <1>5, GrantedIs
  <2> QED  BY <1>4, <2>1, RowIsShown
<1>6. CursorAt(rows, e.cursor).row = r /\ CursorAt(rows, e.cursor).col = e.cursor - rows[r].from
  BY DEF CursorAt, r
<1> QED  BY <1>4, <1>5, <1>6 DEF rows, w

(***************************************************************************)
(* Whatever is typed and however wide the window, the rows the line is     *)
(* wrapped into hold every character in order and break where they should  *)
(* (ui/line.rs: wrap), and whatever height the box is given, the row the   *)
(* cursor is on is one of those shown if any is (ui/draw.rs: input).       *)
(***************************************************************************)
THEOREM TheRowsKeepTheLine == LineSpec => []RowsKeepTheLine
<1>1. EditorSound => RowsKeepTheLine  BY LaidIsWhole, CursorRowShown DEF EditorSound, RowsKeepTheLine
<1> QED  BY <1>1, LineIsSound, PTL

\* While an older line is shown, the draft is what was being written.
DraftKept == e.place # 0 => e.draft = written

\* Every key keeps it so.
LEMMA DraftKeptStep ==
  ASSUME Sound(e), DraftKept, [LineNext]_lineVars
  PROVE  DraftKept'
<1>1. e \in Editor  BY DEF Sound
<1>2. ASSUME NEW name, NEW after, Do(name, after), after.place = e.place, after.draft = e.draft
      PROVE  DraftKept'
  BY <1>2 DEF DraftKept, Do
<1>3. \A x \in Editor : Newest(x).draft = x.draft /\ (x.place = 0 => Newest(x).place = 0)
  BY DEF Newest, Editor
<1>4. ASSUME NEW name, NEW after, Do(name, after), after.draft = e.draft, e.place = 0 => after.place = 0
      PROVE  DraftKept'
  <2>1. e' = after  BY <1>4 DEF Do
  <2>2. CASE e.place = 0  BY <1>4, <2>1, <2>2 DEF DraftKept
  <2>3. CASE e.place # 0 /\ after.place # 0
    <3>1. written' = written  BY <1>4, <2>3 DEF Do
    <3> QED  BY <1>4, <2>1, <2>3, <3>1 DEF DraftKept
  <2>4. CASE after.place = 0  BY <2>1, <2>4 DEF DraftKept
  <2> QED  BY <2>2, <2>3, <2>4
<1>5. ASSUME NEW line \in Words
      PROVE  Keep(e, line).draft = e.draft /\ (e.place = 0 => Keep(e, line).place = 0)
  <2> DEFINE y == [e EXCEPT !.history = Append(@, line)]
  <2>1. CASE Keep(e, line) = e  BY <2>1
  <2>2. CASE Keep(e, line) = Newest(y)
    <3>1. e.history \in Seq(Words)  BY <1>1 DEF Editor
    <3>2. Append(e.history, line) \in Seq(Words)  BY <3>1, AppendProperties
    <3>3. y \in Editor /\ y.draft = e.draft /\ y.place = e.place  BY <1>1, <3>2 DEF Editor
    <3> HIDE DEF y
    <3> QED  BY <2>2, <3>3, <1>3
  <2> QED  BY <2>1, <2>2 DEF Keep
<1>a. CASE Type
  <2>1. PICK c \in Chars : Do("edit", Insert(e, c))  BY <1>a DEF Type
  <2>2. Insert(e, c).place = e.place /\ Insert(e, c).draft = e.draft  BY <1>1 DEF Insert, Editor
  <2> QED  BY <2>1, <2>2, <1>2
<1>b. CASE Go
  <2>1. PICK to \in {Left(e), Right(e), 0, Len(e.chars), WordLeft(e), WordRight(e)} : Do("move", Move(e, to))
    BY <1>b DEF Go
  <2>2. Move(e, to).place = e.place /\ Move(e, to).draft = e.draft  BY <1>1 DEF Move, Editor
  <2> QED  BY <2>1, <2>2, <1>2
<1>c. CASE Erase
  <2>1. PICK after \in {Backspace(e), Delete(e), KillWordLeft(e), KillWordRight(e), KillToStart(e), KillToEnd(e)} :
          Do("edit", after)
    BY <1>c DEF Erase
  <2>2. \A from, to : Cut(e, from, to).place = e.place /\ Cut(e, from, to).draft = e.draft
    BY <1>1 DEF Cut, Editor
  <2>3. after.place = e.place /\ after.draft = e.draft
    BY <2>1, <2>2 DEF Backspace, Delete, KillWordLeft, KillWordRight, KillToStart, KillToEnd
  <2> QED  BY <2>1, <2>3, <1>2
<1>d. CASE Submit
  <2> DEFINE y == [e EXCEPT !.chars = <<>>, !.cursor = 0, !.place = 0, !.draft = <<>>]
             t == Trim(e.chars)
  <2>1. e' = Keep(y, t)  BY <1>d DEF Submit, Do, Take
  <2>2. y \in Editor /\ y.place = 0
    <3>1. <<>> \in Words  BY EmptySeq DEF Words
    <3> QED  BY <1>1, <3>1 DEF Editor
  <2>3. t \in Words  BY <1>1, TrimTyped DEF Editor
  <2> HIDE DEF y, t
  <2>4. CASE Keep(y, t) = y  BY <2>1, <2>2, <2>4 DEF DraftKept
  <2>5. CASE Keep(y, t) = Newest([y EXCEPT !.history = Append(@, t)])
    <3>1. y.history \in Seq(Words)  BY <2>2 DEF Editor
    <3>2. Append(y.history, t) \in Seq(Words)  BY <2>3, <3>1, AppendProperties
    <3>3. [y EXCEPT !.history = Append(@, t)] \in Editor /\ [y EXCEPT !.history = Append(@, t)].place = 0
      BY <2>2, <3>2 DEF Editor
    <3>4. Keep(y, t).place = 0  BY <2>5, <3>3, <1>3
    <3> QED  BY <2>1, <3>4 DEF DraftKept
  <2> QED  BY <2>4, <2>5 DEF Keep
<1>e. CASE Reach
  <2>1. CASE Do("earlier", Earlier(e))
    <3>1. e' = Earlier(e)  BY <2>1 DEF Do
    <3>2. CASE e.history = <<>>
      <4>1. Earlier(e) = e  BY <3>2 DEF Earlier
      <4> QED  BY <2>1, <4>1, <1>2
    <3>3. CASE e.history # <<>> /\ e.place = 0
      <4>1. Earlier(e).draft = e.chars  BY <1>1, <3>3 DEF Earlier, Set, Editor
      <4>2. CASE Earlier(e).place # 0
        <5>1. written' = e.chars  BY <2>1, <3>3, <4>2 DEF Do
        <5> QED  BY <3>1, <4>1, <5>1 DEF DraftKept
      <4>3. CASE Earlier(e).place = 0  BY <3>1, <4>3 DEF DraftKept
      <4> QED  BY <4>2, <4>3
    <3>4. CASE e.history # <<>> /\ e.place # 0
      <4>1. Earlier(e).draft = e.draft  BY <1>1, <3>4 DEF Earlier, Set, Editor
      <4> QED  BY <2>1, <3>4, <4>1, <1>4
    <3> QED  BY <3>2, <3>3, <3>4
  <2>2. CASE Do("later", Later(e))
    <3>1. e' = Later(e)  BY <2>2 DEF Do
    <3>2. CASE e.place = 0
      <4>1. Later(e) = e  BY <3>2 DEF Later
      <4> QED  BY <2>2, <4>1, <1>2
    <3>3. CASE e.place # 0 /\ e.place \in 1..(Len(e.history) - 1)
      <4>1. Later(e).draft = e.draft  BY <1>1, <3>3 DEF Later, Set, Editor
      <4> QED  BY <2>2, <3>3, <4>1, <1>4
    <3>4. CASE e.place # 0 /\ e.place \notin 1..(Len(e.history) - 1)
      <4>1. Later(e).place = 0  BY <1>1, <3>4 DEF Later, Set, Editor
      <4> QED  BY <3>1, <4>1 DEF DraftKept
    <3> QED  BY <3>2, <3>3, <3>4
  <2> QED  BY <1>e, <2>1, <2>2 DEF Reach
<1>f. CASE FirstPage
  <2>1. PICK line \in Texts(1) : Do("page", Keep(e, Trim(line)))  BY <1>f DEF FirstPage, Remember
  <2>2. line \in Words  BY TextsAreWords
  <2>3. Trim(line) \in Words  BY <2>2, TrimTyped
  <2> QED  BY <2>1, <2>3, <1>4, <1>5
<1>g. CASE OlderPage
  <2>1. PICK page \in Pages : Do("page", RememberOlder(e, page))  BY <1>g DEF OlderPage
  <2> DEFINE x == RememberOlder(e, page)
             distinct == Distinct(page)
             older == IF distinct # <<>> /\ e.history # <<>> /\ Last(distinct) = Head(e.history)
                      THEN Front(distinct) ELSE distinct
             y == [e EXCEPT !.history = older \o @, !.place = IF @ = 0 THEN 0 ELSE @ + Len(older)]
  <2>2. x = Newest(y)  BY DEF RememberOlder
  <2> HIDE DEF older
  <2>3. y.draft = e.draft /\ (e.place = 0 => y.place = 0)  BY <1>1 DEF Editor
  <2>4. Newest(y).draft = y.draft /\ (y.place = 0 => Newest(y).place = 0)  BY <1>1 DEF Newest, Editor
  <2> HIDE DEF x, y
  <2>5. x.draft = e.draft /\ (e.place = 0 => x.place = 0)  BY <2>2, <2>3, <2>4
  <2> QED  BY <2>1, <2>5, <1>4 DEF x
<1>h. CASE UNCHANGED lineVars  BY <1>h DEF lineVars, DraftKept
<1> QED  BY <1>a, <1>b, <1>c, <1>d, <1>e, <1>f, <1>g, <1>h DEF LineNext

(***************************************************************************)
(* Coming forward past the newest line gives back what was being written   *)
(* when the history was first reached into, however far back it went and   *)
(* whatever pages came meanwhile (ui/line.rs).                             *)
(***************************************************************************)
THEOREM TheDraftReturns == LineSpec => DraftReturns
<1> DEFINE Returns == act' = "later" /\ e.place # 0 /\ e'.place = 0 => e'.chars = written
<1>1. ASSUME Sound(e), DraftKept, [LineNext]_lineVars PROVE [Returns]_lineVars
  <2> SUFFICES ASSUME LineNext, act' = "later", e.place # 0, e'.place = 0 PROVE e'.chars = written
    BY <1>1
  <2>1. e' = Later(e)
    BY DEF LineNext, Type, Go, Erase, Submit, Reach, FirstPage, OlderPage, Do
  <2>2. e \in Editor  BY <1>1 DEF Sound
  <2>3. CASE e.place \in 1..(Len(e.history) - 1)
    <3>1. Later(e).place = e.place + 1 /\ e.place \in Nat  BY <2>2, <2>3 DEF Later, Set, Editor
    <3> QED  BY <2>1, <3>1
  <2>4. CASE e.place \notin 1..(Len(e.history) - 1)
    <3>1. Later(e).chars = e.draft  BY <2>2, <2>4 DEF Later, Set, Editor
    <3> QED  BY <1>1, <2>1, <3>1 DEF DraftKept
  <2> QED  BY <2>3, <2>4
<1> HIDE DEF Returns
<1>2. LineInit => DraftKept  BY DEF LineInit, Empty, DraftKept
<1>3. EditorSound /\ DraftKept /\ [LineNext]_lineVars => DraftKept'  BY DraftKeptStep DEF EditorSound
<1>4. EditorSound /\ DraftKept /\ [LineNext]_lineVars => [Returns]_lineVars  BY <1>1 DEF EditorSound
<1>5. LineSpec => [][Returns]_lineVars  BY LineIsSound, <1>2, <1>3, <1>4, PTL DEF LineSpec
<1> QED  BY <1>5 DEF DraftReturns, Returns

------------------------------------------------------------------------------
(* What is said while a turn is taken *)

\* A generation only grows, or is begun again.
LEMMA RawGrows ==
  ASSUME [Next]_vars
  PROVE  \/ raw' = raw
         \/ raw' = <<>>
         \/ \E t \in Sayable : raw' = Append(raw, Piece(t, Len(raw) + 1))
<1>1. CASE UNCHANGED vars  BY <1>1 DEF vars
<1>2. CASE Arrive  BY <1>2 DEF Arrive
<1>3. CASE Interrupt  BY <1>3 DEF Interrupt
<1>4. CASE Feel  BY <1>4 DEF Feel
<1>5. CASE Begin  BY <1>5 DEF Begin, Lives
<1>6. CASE Claim  BY <1>6 DEF Claim, Lives
<1>7. CASE Restart(FALSE) \/ Restart(TRUE)  BY <1>7 DEF Restart
<1>8. CASE Ask  BY <1>8 DEF Ask
<1>9. CASE Stream  BY <1>9 DEF Stream
<1>10. CASE Answered  BY <1>10 DEF Answered
<1>11. CASE RunCall  BY <1>11 DEF RunCall
<1>12. CASE Report  BY <1>12 DEF Report
<1>13. CASE Die  BY <1>13 DEF Die
<1>14. CASE ThoughtTraced  BY <1>14 DEF ThoughtTraced
<1>15. CASE Tick  BY <1>15 DEF Tick
<1> QED  BY <1>1, <1>2, <1>3, <1>4, <1>5, <1>6, <1>7, <1>8, <1>9, <1>10, <1>11, <1>12, <1>13, <1>14, <1>15
         DEF Next, Mentor, Core, Process

\* A piece put at the end of a generation knows its place.
LEMMA PieceSaid ==
  ASSUME NEW r, InPlace(r), NEW t \in Sayable
  PROVE  /\ Piece(t, Len(r) + 1) \in P
         /\ InPlace(Append(r, Piece(t, Len(r) + 1)))
         /\ Len(r) \in Nat /\ Len(Append(r, Piece(t, Len(r) + 1))) = Len(r) + 1
<1> DEFINE p == Piece(t, Len(r) + 1)
           u == Append(r, p)
<1>1. r \in Seq(P) /\ Len(r) \in Nat /\ \A i \in 1..Len(r) : r[i].at = i  BY DEF InPlace
<1>2. p \in P /\ p.at = Len(r) + 1  BY <1>1, MindAssumption DEF Piece, P
<1> HIDE DEF p
<1>3. u \in Seq(P) /\ Len(u) = Len(r) + 1 /\ u[Len(r) + 1] = p /\ \A i \in 1..Len(r) : u[i] = r[i]
  BY <1>1, <1>2, AppendProperties
<1> HIDE DEF u
<1>4. \A i \in 1..(Len(r) + 1) : u[i].at = i
  <2> TAKE i \in 1..(Len(r) + 1)
  <2>1. i = Len(r) + 1 \/ i \in 1..Len(r)  BY <1>1
  <2> QED  BY <1>1, <1>2, <1>3, <2>1
<1> QED  BY <1>1, <1>2, <1>3, <1>4 DEF InPlace, u, p

SaidInPlace == InPlace(raw)

\* A generation is always pieces that know their places.
LEMMA SaidInPlaceAlways == Spec => []SaidInPlace
<1>0. InPlace(<<>>)  BY EmptySeq DEF InPlace
<1>1. Init => SaidInPlace  BY <1>0 DEF Init, SaidInPlace
<1>2. SaidInPlace /\ [Next]_vars => SaidInPlace'
  <2> SUFFICES ASSUME SaidInPlace, [Next]_vars PROVE InPlace(raw')  BY DEF SaidInPlace
  <2>1. InPlace(raw)  BY DEF SaidInPlace
  <2>2. CASE raw' = raw  BY <2>1, <2>2
  <2>3. CASE raw' = <<>>  BY <1>0, <2>3
  <2>4. CASE \E t \in Sayable : raw' = Append(raw, Piece(t, Len(raw) + 1))  BY <2>1, <2>4, PieceSaid
  <2> QED  BY <2>2, <2>3, <2>4, RawGrows
<1> QED  BY <1>1, <1>2, PTL DEF Spec

(***************************************************************************)
(* However a generation is made of words, tags and calls, and wherever it  *)
(* ends, nothing of its reasoning and nothing from inside a call is among  *)
(* what a person is shown (parse.rs).                                      *)
(***************************************************************************)
THEOREM NothingInsideIsShown == Spec => []NothingInside
<1>1. SaidInPlace => NothingInside  BY VisibleIsOutside DEF SaidInPlace, NothingInside
<1> QED  BY <1>1, SaidInPlaceAlways, PTL

\* Whatever a generation is cut off to, the calls between its tags are the first of the whole.
CallsBegin == /\ SaidInPlace /\ Parsed(raw).calls \in Seq(Tools)
              /\ \A c \in Cuts(raw) : Grows(Parsed(c).calls, Parsed(raw).calls)

LEMMA NothingCut == Cuts(<<>>) = {} /\ Parsed(<<>>).calls \in Seq(Tools)
<1>1. Len(<<>>) = 0 /\ 0..(0 - 1) = {}  OBVIOUS
<1>2. Cuts(<<>>) = {}  BY <1>1 DEF Cuts
<1>3. <<>> \in Seq(P)  BY EmptySeq
<1>4. Piece("word", 1) \in P  BY DEF Piece, P, Pieces
<1> QED  BY <1>2, <1>3, <1>4, CallsGrow

LEMMA CallsBeginAlways == Spec => []CallsBegin
<1>1. Init /\ SaidInPlace => CallsBegin  BY NothingCut DEF Init, CallsBegin
<1>2. CallsBegin /\ SaidInPlace' /\ [Next]_vars => CallsBegin'
  <2> SUFFICES ASSUME CallsBegin, SaidInPlace', [Next]_vars PROVE CallsBegin'  OBVIOUS
  <2>1. CASE raw' = raw  BY <2>1 DEF CallsBegin
  <2>2. CASE raw' = <<>>  BY <2>2, NothingCut DEF CallsBegin
  <2>3. CASE \E t \in Sayable : raw' = Append(raw, Piece(t, Len(raw) + 1))
    <3>1. PICK t \in Sayable : raw' = Append(raw, Piece(t, Len(raw) + 1))  BY <2>3
    <3> DEFINE p == Piece(t, Len(raw) + 1)
               w == Piece("word", Len(raw) + 1)
    <3>2. raw \in Seq(P) /\ p \in P /\ InPlace(raw)  BY PieceSaid DEF CallsBegin, SaidInPlace, InPlace
    <3>3. w \in P /\ w.t = "word"  BY <3>2, PieceSaid DEF InPlace, Piece, P, Pieces
    <3> HIDE DEF p, w
    <3>4. PICK x \in Seq(Tools) : Parsed(raw').calls = Parsed(raw).calls \o x  BY <3>1, <3>2, CallsGrow DEF p
    <3>5. Parsed(raw).calls \in Seq(Tools)  BY DEF CallsBegin
    <3>6. Grows(Parsed(raw).calls, Parsed(raw').calls)  BY <3>4, <3>5, ConcatProperties DEF Grows
    <3>7. Parsed(Append(raw, w)).calls = Parsed(raw).calls  BY <3>2, <3>3, CallsGrow
    <3>8. ASSUME NEW c \in Cuts(raw') PROVE Grows(Parsed(c).calls, Parsed(raw').calls)
      <4>1. c \in Cuts(raw) \/ c = raw \/ c = Append(raw, w)  BY <3>1, <3>2, <3>8, CutsGrow DEF p, w
      <4>2. CASE c \in Cuts(raw)
        <5>1. Grows(Parsed(c).calls, Parsed(raw).calls)  BY <4>2 DEF CallsBegin
        <5> QED  BY <3>6, <5>1, GrowsOn
      <4>3. CASE c = raw \/ c = Append(raw, w)  BY <3>6, <3>7, <4>3
      <4> QED  BY <4>1, <4>2, <4>3
    <3> QED  BY <3>6, <3>8 DEF CallsBegin, Grows
  <2> QED  BY <2>1, <2>2, <2>3, RawGrows
<1> QED  BY <1>1, <1>2, SaidInPlaceAlways, PTL DEF Spec

(***************************************************************************)
(* Wherever a generation is cut off, what is run of it is the beginning of *)
(* what the whole would have run, or one call written in full without its  *)
(* tags and nothing else that had come (parse.rs parse_with_tools, run.rs).*)
(***************************************************************************)
THEOREM CutOffRunsNothingElse == Spec => []CutOffRunsNoOther
<1>1. CallsBegin => CutOffRunsNoOther
  <2> SUFFICES ASSUME CallsBegin, NEW c \in Cuts(raw), ~Bare(c) PROVE IsPrefix(Runs(c), Runs(raw))
    BY DEF CutOffRunsNoOther
  <2>1. Grows(Parsed(c).calls, Parsed(raw).calls)  BY DEF CallsBegin
  <2>2. PICK x \in Seq(Tools) : Parsed(raw).calls = Parsed(c).calls \o x  BY <2>1 DEF Grows
  <2>3. Parsed(c).calls \in Seq(Tools)  BY <2>1 DEF Grows
  <2>4. CASE Parsed(c).calls # <<>>
    <3>1. Runs(c) = Parsed(c).calls  BY <2>4 DEF Runs, ParsedWithTools
    <3>2. Parsed(raw).calls # <<>>  BY <2>2, <2>3, <2>4
    <3>3. Runs(raw) = Parsed(raw).calls  BY <3>2 DEF Runs, ParsedWithTools
    <3> QED  BY <2>2, <2>3, <3>1, <3>3, BeginsTheLonger
  <2>5. CASE Parsed(c).calls = <<>>
    <3>1. Runs(c) = <<>>
      <4> DEFINE p == Parsed(c)
      <4>1. CASE ReadCall(p.content) # <<>> /\ Head(ReadCall(p.content)) \in OnOffer
        <5>1. Len(p.content) = 1 /\ ReadCall(p.content) = <<p.content[1].t>>  BY <4>1 DEF ReadCall
        <5>2. Runs(c) = ReadCall(p.content)
          BY <2>5, <4>1 DEF Runs, ParsedWithTools, Parsed
        <5> QED  BY <2>5, <5>1, <5>2 DEF Bare
      <4>2. CASE ~(ReadCall(p.content) # <<>> /\ Head(ReadCall(p.content)) \in OnOffer)
        BY <2>5, <4>2 DEF Runs, ParsedWithTools
      <4> QED  BY <4>1, <4>2
    <3>2. Runs(raw) \in Seq(Tools)
      <4>1. Parsed(raw).calls \in Seq(Tools)  BY <2>1 DEF Grows
      <4>2. ReadCall(Parsed(raw).content) \in Seq(Tools)  BY DEF ReadCall
      <4> QED  BY <4>1, <4>2 DEF Runs, ParsedWithTools, Parsed
    <3>3. <<>> \in Seq(Tools) /\ <<>> \o Runs(raw) = Runs(raw)  BY <3>2, EmptySeq, ConcatEmptySeq
    <3> QED  BY <3>1, <3>2, <3>3, BeginsTheLonger
  <2> QED  BY <2>4, <2>5
<1> QED  BY <1>1, CallsBeginAlways, PTL

------------------------------------------------------------------------------
(* The order of the files of the conversation *)

Name == Nat \X Nat
OlderIn(D, f) == {g \in D : Before(g, f)}
NameAt(D, k) == CHOOSE f \in D : Cardinality(OlderIn(D, f)) = k - 1
\* Some names of a finite number, each place in their order taken.
Sorted(D) == /\ IsFiniteSet(D) /\ D \subseteq Name /\ Cardinality(D) \in Nat
             /\ \A k \in 1..Cardinality(D) : \E f \in D : Cardinality(OlderIn(D, f)) = k - 1

\* Names are in a strict total order.
LEMMA NamesInOrder ==
  ASSUME NEW f \in Name, NEW g \in Name, NEW h \in Name
  PROVE  /\ ~Before(f, f)
         /\ Before(f, g) /\ Before(g, h) => Before(f, h)
         /\ f = g \/ Before(f, g) \/ Before(g, f)
<1>1. f[1] \in Nat /\ f[2] \in Nat /\ g[1] \in Nat /\ g[2] \in Nat /\ h[1] \in Nat /\ h[2] \in Nat  BY DEF Name
<1>2. f[1] = g[1] /\ f[2] = g[2] => f = g  BY DEF Name
<1>3. ~Before(f, f)  BY <1>1 DEF Before
<1>4. Before(f, g) /\ Before(g, h) => Before(f, h)  BY <1>1 DEF Before
<1>5. f = g \/ Before(f, g) \/ Before(g, f)  BY <1>1, <1>2 DEF Before
<1> QED  BY <1>3, <1>4, <1>5

\* An older name has fewer before it.
LEMMA RankGrows ==
  ASSUME NEW D, IsFiniteSet(D), D \subseteq Name, NEW f \in D, NEW g \in D, Before(f, g)
  PROVE  /\ Cardinality(OlderIn(D, f)) \in Nat /\ Cardinality(OlderIn(D, g)) \in Nat
         /\ Cardinality(OlderIn(D, f)) < Cardinality(OlderIn(D, g))
<1> DEFINE a == OlderIn(D, f)
           b == OlderIn(D, g)
<1>1. a \in SUBSET D /\ b \in SUBSET D  BY DEF OlderIn
<1>2. a \in SUBSET b
  <2> SUFFICES ASSUME NEW x \in a PROVE x \in b  OBVIOUS
  <2>1. x \in D /\ Before(x, f)  BY DEF OlderIn
  <2>2. x \in Name /\ f \in Name /\ g \in Name  BY <2>1
  <2>3. Before(x, g)  BY <2>1, <2>2, NamesInOrder
  <2> QED  BY <2>1, <2>3 DEF OlderIn
<1>3. f \in b /\ f \notin a
  <2>1. f \in Name  OBVIOUS
  <2> QED  BY <2>1, NamesInOrder DEF OlderIn
<1> HIDE DEF a, b
<1>4. IsFiniteSet(a) /\ IsFiniteSet(b)  BY <1>1, FS_Subset
<1>5. Cardinality(a) \in Nat /\ Cardinality(b) \in Nat  BY <1>4, FS_CardinalityType
<1>6. Cardinality(a) <= Cardinality(b) /\ (Cardinality(b) = Cardinality(a) => b = a)  BY <1>2, <1>4, FS_Subset
<1>7. Cardinality(b) # Cardinality(a)  BY <1>3, <1>6
<1>8. Cardinality(a) < Cardinality(b)  BY ONLY <1>5, <1>6, <1>7
<1> QED  BY <1>5, <1>8 DEF a, b

\* Of the names of a set, fewer come before one of them than there are.
LEMMA RankBound ==
  ASSUME NEW D, IsFiniteSet(D), D \subseteq Name, NEW f \in D
  PROVE  Cardinality(D) \in Nat \ {0} /\ Cardinality(OlderIn(D, f)) \in 0..(Cardinality(D) - 1)
<1> DEFINE a == OlderIn(D, f)
<1>1. a \in SUBSET D  BY DEF OlderIn
<1>2. f \notin a
  <2>1. f \in Name  OBVIOUS
  <2> QED  BY <2>1, NamesInOrder DEF OlderIn
<1> HIDE DEF a
<1>3. IsFiniteSet(a) /\ Cardinality(a) <= Cardinality(D) /\ (Cardinality(D) = Cardinality(a) => D = a)
  BY <1>1, FS_Subset
<1>4. Cardinality(a) \in Nat /\ Cardinality(D) \in Nat  BY <1>3, FS_CardinalityType
<1>5. Cardinality(D) # Cardinality(a)  BY <1>2, <1>3
<1>6. Cardinality(D) \in Nat \ {0} /\ Cardinality(a) \in 0..(Cardinality(D) - 1)  BY ONLY <1>3, <1>4, <1>5
<1> QED  BY <1>6 DEF a

\* The name at a place is the one with as many before it.
LEMMA NameAtIs ==
  ASSUME NEW D, Sorted(D), NEW k \in 1..Cardinality(D)
  PROVE  /\ NameAt(D, k) \in D /\ Cardinality(OlderIn(D, NameAt(D, k))) = k - 1
         /\ \A f \in D : Cardinality(OlderIn(D, f)) = k - 1 => f = NameAt(D, k)
<1>1. NameAt(D, k) \in D /\ Cardinality(OlderIn(D, NameAt(D, k))) = k - 1  BY DEF Sorted, NameAt
<1>2. ASSUME NEW f \in D, Cardinality(OlderIn(D, f)) = k - 1 PROVE f = NameAt(D, k)
  <2> DEFINE g == NameAt(D, k)
  <2>1. f \in Name /\ g \in Name /\ IsFiniteSet(D) /\ D \subseteq Name  BY <1>1 DEF Sorted
  <2> HIDE DEF g
  <2>2. f = g \/ Before(f, g) \/ Before(g, f)  BY <2>1, NamesInOrder
  <2>3. g \in D /\ Cardinality(OlderIn(D, f)) = Cardinality(OlderIn(D, g))  BY <1>1, <1>2 DEF g
  <2>4. ~Before(f, g)
    <3> SUFFICES ASSUME Before(f, g) PROVE FALSE  OBVIOUS
    <3>1. Cardinality(OlderIn(D, f)) \in Nat /\ Cardinality(OlderIn(D, f)) < Cardinality(OlderIn(D, g))
      BY <2>1, <2>3, RankGrows
    <3> QED  BY ONLY <2>3, <3>1
  <2>5. ~Before(g, f)
    <3> SUFFICES ASSUME Before(g, f) PROVE FALSE  OBVIOUS
    <3>1. Cardinality(OlderIn(D, g)) \in Nat /\ Cardinality(OlderIn(D, g)) < Cardinality(OlderIn(D, f))
      BY <2>1, <2>3, RankGrows
    <3> QED  BY ONLY <2>3, <3>1
  <2> QED  BY <2>2, <2>4, <2>5 DEF g
<1> QED  BY <1>1, <1>2

\* The last place is that of the newest, and every other place that of another.
LEMMA LastName ==
  ASSUME NEW D, Sorted(D), NEW c \in D
  PROVE  (\A f \in D : f = c \/ Before(f, c)) <=> c = NameAt(D, Cardinality(D))
<1> DEFINE n == Cardinality(D)
<1>1. n \in Nat \ {0} /\ IsFiniteSet(D) /\ D \subseteq Name  BY RankBound DEF Sorted
<1>2. n \in 1..n  BY <1>1
<1>3. \A f \in D : Cardinality(OlderIn(D, f)) \in 0..(n - 1)  BY <1>1, RankBound
<1>4. NameAt(D, n) \in D /\ Cardinality(OlderIn(D, NameAt(D, n))) = n - 1  BY <1>2, NameAtIs
<1> HIDE DEF n
<1>5. \A f, g \in D : Before(f, g) => Cardinality(OlderIn(D, f)) < Cardinality(OlderIn(D, g))
  BY <1>1, RankGrows
<1>6. ASSUME NEW f \in D PROVE ~Before(NameAt(D, n), f)
  <2> SUFFICES ASSUME Before(NameAt(D, n), f) PROVE FALSE  OBVIOUS
  <2>1. n - 1 < Cardinality(OlderIn(D, f))  BY <1>4, <1>5
  <2>2. Cardinality(OlderIn(D, f)) \in 0..(n - 1)  BY <1>3
  <2> QED  BY ONLY <1>1, <2>1, <2>2
<1>7. ASSUME \A f \in D : f = c \/ Before(f, c) PROVE c = NameAt(D, n)  BY <1>4, <1>6, <1>7
<1>8. ASSUME c = NameAt(D, n), NEW f \in D PROVE f = c \/ Before(f, c)
  <2>1. f \in Name /\ c \in Name  BY <1>1
  <2> QED  BY <1>6, <1>8, <2>1, NamesInOrder
<1> QED  BY <1>7, <1>8 DEF n

\* No name is found at two places.
LEMMA PlacesDiffer ==
  ASSUME NEW D, Sorted(D), NEW j \in 1..Cardinality(D), NEW k \in 1..Cardinality(D), j # k
  PROVE  NameAt(D, j) # NameAt(D, k)
<1>1. Cardinality(D) \in Nat  BY DEF Sorted
<1>2. Cardinality(OlderIn(D, NameAt(D, j))) = j - 1 /\ Cardinality(OlderIn(D, NameAt(D, k))) = k - 1
  BY NameAtIs
<1>3. j - 1 # k - 1  BY <1>1
<1> QED  BY <1>2, <1>3

\* A name after all the others takes the place after theirs.
LEMMA OneNameMore ==
  ASSUME NEW D, Sorted(D), NEW t \in Name, t \notin D, \A f \in D : Before(f, t)
  PROVE  /\ Sorted(D \cup {t}) /\ Cardinality(D \cup {t}) = Cardinality(D) + 1
         /\ \A k \in 1..Cardinality(D) : NameAt(D \cup {t}, k) = NameAt(D, k)
         /\ NameAt(D \cup {t}, Cardinality(D) + 1) = t
<1> DEFINE E == D \cup {t}
           n == Cardinality(D)
<1>1. IsFiniteSet(D) /\ D \subseteq Name /\ n \in Nat  BY DEF Sorted
<1>2. IsFiniteSet(E) /\ Cardinality(E) = n + 1 /\ E \subseteq Name  BY <1>1, FS_AddElement
<1>3. \A f \in D : OlderIn(E, f) = OlderIn(D, f)
  <2> TAKE f \in D
  <2>1. ~Before(t, f)
    <3>1. f \in Name /\ Before(f, t)  BY <1>1
    <3> QED  BY <3>1, NamesInOrder
  <2> QED  BY <2>1 DEF OlderIn
<1>4. OlderIn(E, t) = D
  <2>1. ~Before(t, t)  BY NamesInOrder
  <2> QED  BY <2>1 DEF OlderIn
<1> HIDE DEF n
<1>5. \A k \in 1..n : NameAt(D, k) \in D /\ Cardinality(OlderIn(D, NameAt(D, k))) = k - 1  BY NameAtIs DEF n
<1>6. \A k \in 1..(n + 1) : \E f \in E : Cardinality(OlderIn(E, f)) = k - 1
  <2> TAKE k \in 1..(n + 1)
  <2>1. CASE k = n + 1
    <3>1. Cardinality(OlderIn(E, t)) = k - 1  BY <1>1, <1>4, <2>1 DEF n
    <3> QED  BY <3>1
  <2>2. CASE k # n + 1
    <3>1. k \in 1..n  BY <1>1, <2>2
    <3>2. NameAt(D, k) \in D /\ Cardinality(OlderIn(D, NameAt(D, k))) = k - 1  BY <1>5, <3>1
    <3> QED  BY <1>3, <3>2
  <2> QED  BY <2>1, <2>2
<1> HIDE DEF E
<1>7. Sorted(E)
  <2>1. n + 1 \in Nat  BY <1>1
  <2> QED  BY <1>2, <1>6, <2>1 DEF Sorted
<1>8. \A k \in 1..n : NameAt(E, k) = NameAt(D, k)
  <2> TAKE k \in 1..n
  <2>1. k \in 1..Cardinality(E)  BY <1>1, <1>2
  <2>2. NameAt(D, k) \in E /\ Cardinality(OlderIn(E, NameAt(D, k))) = k - 1  BY <1>3, <1>5 DEF E
  <2> QED  BY <1>7, <2>1, <2>2, NameAtIs
<1>9. NameAt(E, n + 1) = t
  <2>1. n + 1 \in 1..Cardinality(E) /\ (n + 1) - 1 = n  BY <1>1, <1>2
  <2>2. t \in E /\ Cardinality(OlderIn(E, t)) = (n + 1) - 1  BY <1>4, <2>1 DEF E, n
  <2> QED  BY <1>7, <2>1, <2>2, NameAtIs
<1> QED  BY <1>2, <1>7, <1>8, <1>9 DEF E, n

------------------------------------------------------------------------------
(* What the files hold, read one after the other *)

Chain(F, names) == FoldLeft(LAMBDA lines, f : lines \o F[f], <<>>, names)
IsChain(a, n, F, names) == a[0] = <<>> /\ \A k \in 1..n : a[k] = a[k - 1] \o F[names[k]]

\* Chaining files goes through them one after the other.
LEMMA ChainPath ==
  ASSUME NEW S, NEW F, NEW n \in Nat, NEW names, DOMAIN names = 1..n, Len(names) = n,
         \A k \in 1..n : F[names[k]] \in Seq(S)
  PROVE  \E a : IsChain(a, n, F, names) /\ a[n] = Chain(F, names) /\ \A k \in 0..n : a[k] \in Seq(S)
<1> DEFINE X == Seq(S)
           Op(lines, f) == lines \o F[f]
           G == [p \in X \X (1..n) |-> Op(p[1], names[p[2]])]
           H(it) == [T \in SUBSET (1..n) |-> IF T = {} THEN <<>> ELSE Op(it[T \ {Max(T)}], names[Max(T)])]
           Folds(it) == it = H(it)
           f == CHOOSE it : Folds(it)
<1>b. <<>> \in X  BY EmptySeq
<1>c. \A x \in X, k \in 1..n : Op(x, names[k]) \in X  BY ConcatProperties
<1> HIDE DEF X
<1>1. Chain(F, names) = f[1..n]  BY DEF Chain, FoldLeft, MapThenFoldSet
<1> HIDE DEF Op
<1>2. \A x \in X, k \in 1..n : G[<<x, k>>] = Op(x, names[k])  OBVIOUS
<1>3. G \in [X \X (1..n) -> X]  BY <1>c
<1> HIDE DEF G
<1>4. PICK it \in [SUBSET (1..n) -> X] : Climbs(it, n, <<>>, G)  BY <1>b, <1>3, ClimbExists DEF Climbable
<1>5. \A T \in SUBSET (1..n) : T # {} => T \ {Max(T)} \in SUBSET (1..n) /\ Max(T) \in 1..n
  <2> TAKE T \in SUBSET (1..n)
  <2>1. T \subseteq 0..n  OBVIOUS
  <2> QED  BY <2>1, MaxOf
<1>6. Folds(it)
  <2>1. \A T \in SUBSET (1..n) : T # {} => G[<<it[T \ {Max(T)}], Max(T)>>] = Op(it[T \ {Max(T)}], names[Max(T)])
    BY <1>2, <1>5
  <2> QED  BY <1>4, <2>1 DEF Climbs
<1>7. Folds(f)
  <2> HIDE DEF Folds
  <2> QED  BY <1>6
<1> HIDE DEF f
<1>8. StepsAlong(f, X, n, <<>>, G)
  <2>1. f[{}] = <<>>  BY <1>7
  <2>2. ASSUME NEW k \in 1..n, f[1..(k - 1)] \in X PROVE f[1..k] = G[<<f[1..(k - 1)], k>>]
    <3>1. k \in Nat \ {0} /\ 1..k \in SUBSET (1..n)  OBVIOUS
    <3>2. (1..k) # {} /\ Max(1..k) = k /\ (1..k) \ {k} = 1..(k - 1)  BY <3>1, FirstPlaces
    <3>3. f[1..k] = Op(f[1..(k - 1)], names[k])  BY <1>7, <3>1, <3>2
    <3> QED  BY <3>3, <2>2, <1>2
  <2> QED  BY <2>1, <2>2 DEF StepsAlong
<1> DEFINE a == Trace(f, n)
<1>9. IsPath(a, X, n, <<>>, G)  BY <1>b, <1>3, <1>8, PathOf
<1>10. a[n] = f[1..n]  BY DEF Trace
<1> HIDE DEF a
<1>11. a[0] = <<>> /\ \A k \in 0..n : a[k] \in X  BY <1>9 DEF IsPath
<1>12. \A k \in 1..n : a[k] = a[k - 1] \o F[names[k]]
  <2> TAKE k \in 1..n
  <2>1. k - 1 \in 0..n  OBVIOUS
  <2>2. a[k] = G[<<a[k - 1], k>>]  BY <1>9 DEF IsPath
  <2>3. G[<<a[k - 1], k>>] = Op(a[k - 1], names[k])  BY <1>2, <1>11, <2>1
  <2> QED  BY <2>2, <2>3 DEF Op
<1> QED  BY <1>1, <1>10, <1>11, <1>12 DEF IsChain, X

\* Two chains of the same files agree as far as the shorter goes.
LEMMA ChainsAgree ==
  ASSUME NEW n \in Nat, NEW m \in Nat, n <= m, NEW a, NEW b, NEW F, NEW G, NEW p, NEW q,
         IsChain(a, n, F, p), IsChain(b, m, G, q), \A k \in 1..n : F[p[k]] = G[q[k]]
  PROVE  \A k \in 0..n : a[k] = b[k]
<1> DEFINE S == {k \in Nat : k <= n => a[k] = b[k]}
<1>1. 0 \in S  BY DEF IsChain
<1>2. \A k \in Nat : k \in S => k + 1 \in S
  <2> TAKE k \in Nat
  <2> SUFFICES ASSUME k \in S, k + 1 <= n PROVE a[k + 1] = b[k + 1]  OBVIOUS
  <2>1. k + 1 \in 1..n /\ k + 1 \in 1..m /\ (k + 1) - 1 = k  OBVIOUS
  <2>2. a[k] = b[k]  OBVIOUS
  <2>3. a[k + 1] = a[(k + 1) - 1] \o F[p[k + 1]]  BY <2>1 DEF IsChain
  <2>4. b[k + 1] = b[(k + 1) - 1] \o G[q[k + 1]]  BY <2>1 DEF IsChain
  <2>5. F[p[k + 1]] = G[q[k + 1]]  BY <2>1
  <2> QED  BY <2>1, <2>2, <2>3, <2>4, <2>5
<1> HIDE DEF S
<1>3. \A k \in Nat : k \in S  BY <1>1, <1>2, CountingUp
<1> QED  BY <1>3 DEF S

InTurn(D) == [i \in 1..Cardinality(D) |-> NameAt(D, i)]
LogOf(F) == Chain(F, InTurn(DOMAIN F))

\* The names of the files, put in turn, are each at its place.
LEMMA InTurnIs ==
  ASSUME NEW D, Sorted(D)
  PROVE  /\ DOMAIN InTurn(D) = 1..Cardinality(D) /\ Len(InTurn(D)) = Cardinality(D) /\ Cardinality(D) \in Nat
         /\ \A k \in 1..Cardinality(D) : InTurn(D)[k] = NameAt(D, k) /\ NameAt(D, k) \in D
<1>1. Cardinality(D) \in Nat  BY DEF Sorted
<1>2. \A k \in 1..Cardinality(D) : NameAt(D, k) \in D  BY NameAtIs
<1>3. DOMAIN InTurn(D) = 1..Cardinality(D) /\ \A k \in 1..Cardinality(D) : InTurn(D)[k] = NameAt(D, k)
  BY DEF InTurn
<1>4. InTurn(D) \in Seq(D)
  <2>1. InTurn(D) \in [1..Cardinality(D) -> D]  BY <1>2 DEF InTurn
  <2> QED  BY <1>1, <2>1 DEF Seq
<1>5. Len(InTurn(D)) = Cardinality(D)
  <2>1. Len(InTurn(D)) \in Nat /\ DOMAIN InTurn(D) = 1..Len(InTurn(D))  BY <1>4, LenProperties
  <2>2. 1..Len(InTurn(D)) = 1..Cardinality(D)  BY <1>3, <2>1
  <2> QED  BY <1>1, <2>1, <2>2
<1> QED  BY <1>1, <1>2, <1>3, <1>5

\* A line at the end of the last file is a line at the end of all.
LEMMA LineAtTheEnd ==
  ASSUME NEW S, NEW x \in Seq(S), NEW y \in Seq(S), NEW line \in S
  PROVE  x \o Append(y, line) = Append(x \o y, line)
<1>1. <<line>> \in Seq(S)  OBVIOUS
<1>2. Append(y, line) = y \o <<line>>  BY AppendIsConcat
<1>3. x \o y \in Seq(S)  BY ConcatProperties
<1>4. Append(x \o y, line) = (x \o y) \o <<line>>  BY <1>3, AppendIsConcat
<1>5. (x \o y) \o <<line>> = x \o (y \o <<line>>)
  <2> DEFINE z == <<line>>
  <2>1. z \in Seq(S)  BY <1>1
  <2> HIDE DEF z
  <2>2. (x \o y) \o z = x \o (y \o z)  BY <2>1, ConcatAssociative
  <2> QED  BY <2>2 DEF z
<1> QED  BY <1>2, <1>4, <1>5

\* A line more in the newest file is a line more in what is read.
LEMMA OneLineMore ==
  ASSUME NEW S, NEW F, Sorted(DOMAIN F), \A f \in DOMAIN F : F[f] \in Seq(S), NEW line \in S,
         NEW c \in DOMAIN F, \A f \in DOMAIN F : f = c \/ Before(f, c),
         NEW G, DOMAIN G = DOMAIN F, G[c] = Append(F[c], line), \A f \in DOMAIN F : f # c => G[f] = F[f]
  PROVE  LogOf(F) \in Seq(S) /\ LogOf(G) = Append(LogOf(F), line)
<1> DEFINE D == DOMAIN F
           n == Cardinality(D)
           p == InTurn(D)
<1>1. DOMAIN p = 1..n /\ Len(p) = n /\ n \in Nat /\ \A k \in 1..n : p[k] = NameAt(D, k) /\ NameAt(D, k) \in D
  BY InTurnIs
<1>2. NameAt(D, n) = c  BY LastName
<1>3. n \in Nat \ {0}  BY RankBound DEF Sorted
<1>4. \A k \in 1..(n - 1) : NameAt(D, k) # c
  <2> TAKE k \in 1..(n - 1)
  <2>1. k \in 1..n /\ n \in 1..n /\ k # n  BY <1>3
  <2> QED  BY <1>2, <2>1, PlacesDiffer
<1>5. \A f \in D : G[f] \in Seq(S)
  <2> TAKE f \in D
  <2>1. CASE f = c
    <3>1. Append(F[c], line) \in Seq(S)  BY AppendProperties
    <3> QED  BY <2>1, <3>1
  <2>2. CASE f # c  BY <2>2
  <2> QED  BY <2>1, <2>2
<1>6. LogOf(F) = Chain(F, p) /\ LogOf(G) = Chain(G, p)  BY DEF LogOf
<1> HIDE DEF n, p
<1>7. \A k \in 1..n : F[p[k]] \in Seq(S) /\ G[p[k]] \in Seq(S)  BY <1>1, <1>5
<1>8. PICK a : IsChain(a, n, F, p) /\ a[n] = Chain(F, p) /\ \A k \in 0..n : a[k] \in Seq(S)
  BY <1>1, <1>7, ChainPath
<1>9. PICK b : IsChain(b, n, G, p) /\ b[n] = Chain(G, p) /\ \A k \in 0..n : b[k] \in Seq(S)
  BY <1>1, <1>7, ChainPath
<1>10. a[n - 1] = b[n - 1] /\ a[n - 1] \in Seq(S)
  <2>1. IsChain(a, n - 1, F, p)
    <3>1. \A k \in 1..(n - 1) : k \in 1..n  BY <1>3
    <3> QED  BY <1>8, <3>1 DEF IsChain
  <2>2. \A k \in 1..(n - 1) : F[p[k]] = G[p[k]]
    <3> TAKE k \in 1..(n - 1)
    <3>1. k \in 1..n  BY <1>3
    <3> QED  BY <1>1, <1>4, <3>1
  <2>3. n - 1 \in Nat /\ n - 1 <= n /\ n - 1 \in 0..(n - 1) /\ n - 1 \in 0..n  BY <1>3
  <2>4. IsChain(b, n, G, p)  BY <1>9
  <2> DEFINE m == n - 1
  <2> HIDE DEF m
  <2>5. m \in Nat /\ m <= n /\ IsChain(a, m, F, p) /\ \A k \in 1..m : F[p[k]] = G[p[k]]
    BY <2>1, <2>2, <2>3 DEF m
  <2>6. \A k \in 0..m : a[k] = b[k]  BY <1>1, <2>4, <2>5, ChainsAgree
  <2> QED  BY <1>8, <2>3, <2>6 DEF m
<1>11. n \in 1..n /\ n \in 0..n  BY <1>3
<1>12. a[n] = a[n - 1] \o F[c] /\ b[n] = b[n - 1] \o Append(F[c], line)
  <2>1. p[n] = c  BY <1>1, <1>2, <1>11 DEF n
  <2> QED  BY <1>8, <1>9, <1>11, <2>1 DEF IsChain
<1>13. a[n - 1] \o Append(F[c], line) = Append(a[n - 1] \o F[c], line)
  <2> DEFINE x == a[n - 1]
             y == F[c]
  <2>1. x \in Seq(S) /\ y \in Seq(S)  BY <1>10
  <2> HIDE DEF x, y
  <2>2. x \o Append(y, line) = Append(x \o y, line)  BY <2>1, LineAtTheEnd
  <2> QED  BY <2>2 DEF x, y
<1> QED  BY <1>6, <1>8, <1>9, <1>10, <1>11, <1>12, <1>13

OneFileIsMore(S, F, t, G, line) ==
  /\ Sorted(DOMAIN F) /\ (\A f \in DOMAIN F : F[f] \in Seq(S)) /\ line \in S
  /\ t \in Name /\ t \notin DOMAIN F /\ (\A f \in DOMAIN F : Before(f, t))
  /\ DOMAIN G = DOMAIN F \cup {t} /\ G[t] = Append(<<>>, line) /\ (\A f \in DOMAIN F : G[f] = F[f])

\* So is a new file, newer than all, with one line.
LEMMA OneFileMore ==
  ASSUME NEW S, NEW F, NEW t, NEW G, NEW line, OneFileIsMore(S, F, t, G, line)
  PROVE  LogOf(F) \in Seq(S) /\ LogOf(G) = Append(LogOf(F), line)
<1>h. /\ Sorted(DOMAIN F) /\ (\A f \in DOMAIN F : F[f] \in Seq(S)) /\ line \in S
      /\ t \in Name /\ t \notin DOMAIN F /\ (\A f \in DOMAIN F : Before(f, t))
      /\ DOMAIN G = DOMAIN F \cup {t} /\ G[t] = Append(<<>>, line) /\ (\A f \in DOMAIN F : G[f] = F[f])
  BY DEF OneFileIsMore
<1> DEFINE D == DOMAIN F
           E == D \cup {t}
           n == Cardinality(D)
           p == InTurn(D)
           q == InTurn(E)
<1>1. DOMAIN p = 1..n /\ Len(p) = n /\ n \in Nat /\ \A k \in 1..n : p[k] = NameAt(D, k) /\ NameAt(D, k) \in D
  BY <1>h, InTurnIs
<1>2. Sorted(E) /\ Cardinality(E) = n + 1 /\ (\A k \in 1..n : NameAt(E, k) = NameAt(D, k)) /\ NameAt(E, n + 1) = t
  BY <1>h, OneNameMore
<1>3. DOMAIN q = 1..(n + 1) /\ Len(q) = n + 1 /\ \A k \in 1..(n + 1) : q[k] = NameAt(E, k) /\ NameAt(E, k) \in E
  BY <1>2, InTurnIs
<1>4. LogOf(F) = Chain(F, p) /\ LogOf(G) = Chain(G, q)  BY <1>h DEF LogOf
<1>5. <<line>> \in Seq(S) /\ Append(<<>>, line) = <<line>>  BY <1>h
<1> HIDE DEF n, p, q
<1>6. \A k \in 1..n : F[p[k]] \in Seq(S)  BY <1>h, <1>1
<1>7. \A k \in 1..(n + 1) : G[q[k]] \in Seq(S)
  <2>1. \A f \in E : G[f] \in Seq(S)  BY <1>h, <1>5
  <2> QED  BY <1>3, <2>1
<1>8. PICK a : IsChain(a, n, F, p) /\ a[n] = Chain(F, p) /\ \A k \in 0..n : a[k] \in Seq(S)
  BY <1>1, <1>6, ChainPath
<1>9. n + 1 \in Nat /\ n <= n + 1 /\ n \in 0..n /\ n + 1 \in 1..(n + 1) /\ (n + 1) - 1 = n  BY <1>1
<1>10. PICK b : IsChain(b, n + 1, G, q) /\ b[n + 1] = Chain(G, q)
  <2> DEFINE m == n + 1
  <2>1. m \in Nat /\ DOMAIN q = 1..m /\ Len(q) = m /\ \A k \in 1..m : G[q[k]] \in Seq(S)
    BY <1>3, <1>7, <1>9
  <2> HIDE DEF m
  <2>2. \E b : IsChain(b, m, G, q) /\ b[m] = Chain(G, q) /\ \A k \in 0..m : b[k] \in Seq(S)  BY <2>1, ChainPath
  <2> QED  BY <2>2 DEF m
<1>11. a[n] = b[n]
  <2>1. \A k \in 1..n : F[p[k]] = G[q[k]]
    <3> TAKE k \in 1..n
    <3>1. k \in 1..(n + 1)  BY <1>1
    <3>2. p[k] \in D /\ q[k] = p[k]  BY <1>1, <1>2, <1>3, <3>1
    <3> QED  BY <1>h, <3>2
  <2> QED  BY <1>1, <1>8, <1>9, <1>10, <2>1, ChainsAgree
<1>12. b[n + 1] = b[n] \o <<line>>
  <2>1. q[n + 1] = t  BY <1>2, <1>3, <1>9
  <2>2. b[n + 1] = b[(n + 1) - 1] \o G[q[n + 1]]  BY <1>9, <1>10 DEF IsChain
  <2> QED  BY <1>h, <1>5, <1>9, <2>1, <2>2
<1>13. a[n] \in Seq(S) /\ Append(a[n], line) = a[n] \o <<line>>  BY <1>h, <1>8, <1>9, AppendIsConcat
<1> QED  BY <1>4, <1>8, <1>10, <1>11, <1>12, <1>13

------------------------------------------------------------------------------
(* The files as they are written *)

Tidy ==
  /\ Sorted(DOMAIN files) /\ clock \in Nat
  /\ \E S : \A f \in DOMAIN files : files[f] \in Seq(S)
  /\ \A f \in DOMAIN files : f[1] <= clock /\ \A m \in 0..f[2] : <<f[1], m>> \in DOMAIN files
  /\ cur = NoFile \/ (cur \in DOMAIN files /\ \A f \in DOMAIN files : f = cur \/ Before(f, cur))

Written(F) == UNION {ToSet(F[f]) : f \in DOMAIN F}

\* The conversation is what the files hold, in the order of their names.
LEMMA LogIs == Log = LogOf(files) /\ ByName = InTurn(DOMAIN files)
<1>1. ByName = InTurn(DOMAIN files)  BY DEF ByName, Older, InTurn, NameAt, OlderIn
<1> QED  BY <1>1 DEF Log, LogOf, Chain

\* And so it is after a step.
LEMMA LogWillBe ==
  /\ Log' = LogOf(files')
  /\ files' = files => Log' = Log /\ ByName' = ByName
<1>1. Log = LogOf(files) /\ ByName = InTurn(DOMAIN files)  BY LogIs
<1>2. (Log = LogOf(files) /\ ByName = InTurn(DOMAIN files))'  BY LogIs, PTL
<1> QED  BY <1>1, <1>2

\* The first count that is free is one past all that are taken.
LEMMA NewFileIs ==
  ASSUME Tidy
  PROVE  /\ NewFile \in Name /\ NewFile \notin DOMAIN files /\ \A f \in DOMAIN files : Before(f, NewFile)
         /\ NewFile[1] = clock /\ \A m \in 0..(NewFile[2] - 1) : <<clock, m>> \in DOMAIN files
<1> DEFINE D == DOMAIN files
           here == {g \in D : g[1] = clock}
           taken == {f[2] : f \in here}
           free(n) == n \notin taken /\ \A m \in 0..(n - 1) : m \in taken
           c == CHOOSE n \in 0..Cardinality(taken) : free(n)
<1>1. IsFiniteSet(D) /\ D \subseteq Name /\ clock \in Nat  BY DEF Tidy, Sorted
<1>2. \A f \in D : f[1] \in Nat /\ f[2] \in Nat /\ f = <<f[1], f[2]>>  BY <1>1 DEF Name
<1>3. IsFiniteSet(taken)
  <2>1. IsFiniteSet(here)
    <3>1. here \in SUBSET D  OBVIOUS
    <3> HIDE DEF here
    <3> QED  BY <1>1, <3>1, FS_Subset
  <2> DEFINE h == [g \in here |-> g[2]]
  <2>2. h \in Surjection(here, taken)  BY DEF Surjection
  <2> HIDE DEF h, here, taken
  <2> QED  BY <2>1, <2>2, FS_Surjection
<1>4. taken \subseteq Nat  BY <1>2
<1>5. Cardinality(taken) \in Nat
  <2> HIDE DEF taken
  <2> QED  BY <1>3, FS_CardinalityType
<1>6. \A m \in Nat : m \in taken <=> <<clock, m>> \in D
  <2> TAKE m \in Nat
  <2>1. ASSUME m \in taken PROVE <<clock, m>> \in D
    <3>1. PICK f \in here : m = f[2]  BY <2>1
    <3> QED  BY <1>2, <3>1
  <2>2. ASSUME <<clock, m>> \in D PROVE m \in taken
    <3>1. <<clock, m>> \in here /\ <<clock, m>>[2] = m  BY <2>2
    <3> QED  BY <3>1
  <2> QED  BY <2>1, <2>2
<1>7. NewFile = <<clock, c>>  BY DEF NewFile
<1>8. \E n \in 0..Cardinality(taken) : free(n)
  <2> DEFINE n == Cardinality(taken)
             T == {k \in 0..n : k \notin taken}
  <2>1. T # {}
    <3> SUFFICES ASSUME \A k \in 0..n : k \in taken PROVE FALSE  OBVIOUS
    <3>1. 0..n \in SUBSET taken  OBVIOUS
    <3>2. Cardinality(0..n) <= Cardinality(taken)
      <4> HIDE DEF taken, n
      <4> QED  BY <1>3, <3>1, FS_Subset
    <3> HIDE DEF taken
    <3>3. n \in Int /\ 0 \in Int /\ ~(0 > n)  BY <1>5
    <3>4. Cardinality(0..n) = n - 0 + 1
      <4> HIDE DEF n
      <4> QED  BY <3>3, FS_Interval
    <3> QED  BY <1>5, <3>2, <3>4
  <2>2. T \subseteq Nat  BY <1>5
  <2> HIDE DEF T, n
  <2>3. PICK x \in T : \A y \in T : x <= y  BY <2>1, <2>2, LeastOf
  <2>4. x \in 0..n /\ x \notin taken /\ n \in Nat  BY <1>5, <2>3 DEF T, n
  <2>5. \A m \in 0..(x - 1) : m \in taken
    <3> TAKE m \in 0..(x - 1)
    <3>1. m \in 0..n /\ ~(x <= m)  BY <2>4
    <3> HIDE DEF taken
    <3> QED  BY <2>3, <3>1 DEF T
  <2> QED  BY <2>4, <2>5 DEF n
<1>9. c \in 0..Cardinality(taken) /\ free(c)
  <2> HIDE DEF free
  <2> QED  BY <1>8
<1>10. c \in Nat  BY <1>5, <1>9
<1>11. c \notin taken /\ \A m \in 0..(c - 1) : m \in taken  BY <1>9
<1> HIDE DEF c, taken, here
<1>12. NewFile \in Name /\ NewFile[1] = clock /\ NewFile[2] = c  BY <1>1, <1>7, <1>10 DEF Name
<1>13. NewFile \notin D  BY <1>6, <1>7, <1>10, <1>11
<1>14. \A m \in 0..(c - 1) : <<clock, m>> \in D
  <2> TAKE m \in 0..(c - 1)
  <2>1. m \in Nat  BY <1>10
  <2> QED  BY <1>6, <1>11, <2>1
<1>15. ASSUME NEW f \in D PROVE Before(f, NewFile)
  <2>1. f[1] \in Nat /\ f[2] \in Nat /\ f[1] <= clock  BY <1>2 DEF Tidy
  <2>2. CASE f[1] < clock  BY <1>12, <2>2 DEF Before
  <2>3. CASE f[1] = clock
    <3>1. ~(c <= f[2])
      <4> SUFFICES ASSUME c <= f[2] PROVE FALSE  OBVIOUS
      <4>1. c \in 0..f[2]  BY <1>10, <2>1
      <4>2. <<f[1], c>> \in D  BY <4>1 DEF Tidy
      <4> QED  BY <1>7, <1>13, <2>3, <4>2
    <3>2. f[2] < c  BY <1>10, <2>1, <3>1
    <3> QED  BY <1>12, <2>3, <3>2 DEF Before
  <2> QED  BY <1>1, <2>1, <2>2, <2>3
<1> QED  BY <1>12, <1>13, <1>14, <1>15

Stamped(l) == [l EXCEPT !.ts = Len(Log) + 1]
\* A line is written: one line more is read, and one line more is there.
Adds(line) == Log' = Append(Log, line) /\ Written(files') = Written(files) \cup {line}

\* A sequence with one thing more holds that thing more.
LEMMA LinesOfOneMore ==
  ASSUME NEW S, NEW s \in Seq(S), NEW line \in S
  PROVE  ToSet(Append(s, line)) = ToSet(s) \cup {line}
<1> DEFINE u == Append(s, line)
           n == Len(s)
<1>1. n \in Nat /\ DOMAIN s = 1..n /\ u \in Seq(S) /\ DOMAIN u = 1..(n + 1) /\ (\A i \in 1..n : u[i] = s[i]) /\ u[n + 1] = line
  <2>1. n \in Nat /\ DOMAIN s = 1..n  BY LenProperties
  <2>2. u \in Seq(S) /\ Len(u) = n + 1 /\ (\A i \in 1..n : u[i] = s[i]) /\ u[n + 1] = line  BY AppendProperties
  <2>3. DOMAIN u = 1..(n + 1)  BY <2>2, LenProperties
  <2> QED  BY <2>1, <2>2, <2>3
<1> HIDE DEF u, n
<1>2. ASSUME NEW x \in ToSet(u) PROVE x \in ToSet(s) \cup {line}
  <2>1. PICK i \in 1..(n + 1) : x = u[i]  BY <1>1 DEF ToSet
  <2>2. i = n + 1 \/ i \in 1..n  BY <1>1
  <2> QED  BY <1>1, <2>1, <2>2 DEF ToSet
<1>3. ASSUME NEW x \in ToSet(s) PROVE x \in ToSet(u)
  <2>1. PICK i \in 1..n : x = s[i]  BY <1>1 DEF ToSet
  <2>2. i \in 1..(n + 1)  BY <1>1
  <2> QED  BY <1>1, <2>1, <2>2 DEF ToSet
<1>4. line \in ToSet(u)
  <2>1. n + 1 \in 1..(n + 1)  BY <1>1
  <2> QED  BY <1>1, <2>1 DEF ToSet
<1> QED  BY <1>2, <1>3, <1>4 DEF u

\* Writing a line puts it, stamped, at the end of the conversation, whether the file is rotated for
\* it or not.
LEMMA WriteOne ==
  ASSUME Tidy, NEW l, Write(<<l>>), clock' = clock
  PROVE  Tidy' /\ Adds(Stamped(l))
<1> DEFINE D == DOMAIN files
           line == Stamped(l)
           to == IF Rotates THEN NewFile ELSE cur
           here == IF to \in DOMAIN files THEN files[to] ELSE <<>>
<1>1. files' = [f \in DOMAIN files \cup {to} |-> IF f = to THEN Append(here, line) ELSE files[f]] /\ cur' = to
  <2>1. <<l>> # <<>> /\ Head(<<l>>) = l  OBVIOUS
  <2> QED  BY <2>1 DEF Write, Stamped
<1>2. PICK S : \A f \in D : files[f] \in Seq(S)  BY DEF Tidy
<1> DEFINE Q == S \cup {line}
<1>3. line \in Q  OBVIOUS
<1>3a. ASSUME NEW f \in D PROVE files[f] \in Seq(Q)
  <2>1. files[f] \in Seq(S)  BY <1>2
  <2>2. \A i \in 1..Len(files[f]) : files[f][i] \in Q  BY <2>1, ElementOfSeq
  <2>3. files[f] \in [1..Len(files[f]) -> Q] /\ Len(files[f]) \in Nat  BY <2>1, <2>2, LenProperties
  <2> QED  BY <2>3 DEF Seq
<1> DEFINE G == files'
<1> HIDE DEF line, to, here, Q
<1>4. DOMAIN G = D \cup {to} /\ G[to] = Append(here, line) /\ \A f \in D : f # to => G[f] = files[f]
  BY <1>1
<1>5. Log = LogOf(files) /\ Log' = LogOf(G)  BY LogIs, LogWillBe
<1> HIDE DEF G
<1>6. Sorted(D) /\ clock \in Nat /\ D \subseteq Name  BY DEF Tidy, Sorted
<1>7. here \in Seq(Q) /\ Append(here, line) \in Seq(Q)
  <2>1. here \in Seq(Q)  BY <1>3a, EmptySeq DEF here
  <2> QED  BY <1>3, <2>1, AppendProperties
<1>8. \A f \in DOMAIN G : G[f] \in Seq(Q)  BY <1>3a, <1>4, <1>7
<1>9. Written(G) = Written(files) \cup {line}
  <2>1. ToSet(Append(here, line)) = ToSet(here) \cup {line}  BY <1>3, <1>7, LinesOfOneMore
  <2>2. ToSet(here) \subseteq Written(files)
    <3>1. ToSet(<<>>) = {}  BY DEF ToSet
    <3> QED  BY <3>1 DEF here, Written
  <2>3. \A f \in D : f = to => here = files[f]  BY DEF here
  <2>4. \A f \in D : ToSet(files[f]) \subseteq ToSet(G[f])
    <3> TAKE f \in D
    <3>1. CASE f = to  BY <1>4, <2>1, <2>3, <3>1
    <3>2. CASE f # to  BY <1>4, <3>2
    <3> QED  BY <3>1, <3>2
  <2>5. ASSUME NEW x \in Written(G) PROVE x \in Written(files) \cup {line}
    <3>1. PICK f \in D \cup {to} : x \in ToSet(G[f])  BY <1>4 DEF Written
    <3>2. CASE f = to  BY <1>4, <2>1, <2>2, <3>1, <3>2
    <3>3. CASE f # to
      <4>1. f \in D /\ x \in ToSet(files[f])  BY <1>4, <3>1, <3>3
      <4> QED  BY <4>1 DEF Written
    <3> QED  BY <3>2, <3>3
  <2>6. ASSUME NEW x \in Written(files) PROVE x \in Written(G)
    <3>1. PICK f \in D : x \in ToSet(files[f])  BY DEF Written
    <3>2. f \in DOMAIN G /\ x \in ToSet(G[f])  BY <1>4, <2>4, <3>1
    <3> QED  BY <3>2 DEF Written
  <2>7. line \in Written(G)
    <3>1. to \in DOMAIN G /\ line \in ToSet(G[to])  BY <1>4, <2>1
    <3> QED  BY <3>1 DEF Written
  <2> QED  BY <2>5, <2>6, <2>7
<1>10. CASE Rotates
  <2>1. /\ to \in Name /\ to \notin D /\ (\A f \in D : Before(f, to)) /\ to[1] = clock
        /\ \A m \in 0..(to[2] - 1) : <<clock, m>> \in D
    BY <1>10, NewFileIs DEF to
  <2>2. here = <<>> /\ G[to] = Append(<<>>, line)
    <3>1. here = <<>>  BY <2>1 DEF here
    <3> QED  BY <1>4, <3>1
  <2>3. \A f \in D : G[f] = files[f]  BY <1>4, <2>1
  <2>3a. DOMAIN G = DOMAIN files \cup {to} /\ Sorted(DOMAIN files) /\ \A f \in DOMAIN files : files[f] \in Seq(Q)
    BY <1>3a, <1>4, <1>6, <2>1
  <2>4. Log' = Append(Log, line)
    <3>1. \A f \in DOMAIN files : Before(f, to) /\ G[f] = files[f]  BY <2>1, <2>3
    <3>2. to \notin DOMAIN files /\ to \in Name  BY <2>1
    <3>3. LogOf(G) = Append(LogOf(files), line)
      <4> DEFINE F == files
      <4>1. OneFileIsMore(Q, F, to, G, line)  BY <1>3, <2>2, <2>3a, <3>1, <3>2 DEF OneFileIsMore
      <4> HIDE DEF F
      <4>2. LogOf(G) = Append(LogOf(F), line)  BY ONLY <4>1, OneFileMore
      <4> QED  BY <4>2 DEF F
    <3> QED  BY <1>5, <3>3
  <2>5. Sorted(DOMAIN G)
    <3>1. \A f \in D : Before(f, to)  BY <2>1
    <3>2. Sorted(D \cup {to})
      <4> HIDE DEF D
      <4> QED  BY ONLY <1>6, <2>1, <3>1, OneNameMore
    <3> QED  BY <1>4, <3>2
  <2>6. \A f \in DOMAIN G : f[1] <= clock' /\ \A m \in 0..f[2] : <<f[1], m>> \in DOMAIN G
    <3>1. ASSUME NEW f \in D PROVE f[1] <= clock' /\ \A m \in 0..f[2] : <<f[1], m>> \in DOMAIN G
      BY <1>4 DEF Tidy
    <3>2. to = <<clock, to[2]>> /\ to[2] \in Nat  BY <2>1 DEF Name
    <3>3. ASSUME NEW m \in 0..to[2] PROVE <<to[1], m>> \in DOMAIN G
      <4>1. m = to[2] \/ m \in 0..(to[2] - 1)  BY <3>2
      <4> QED  BY <1>4, <2>1, <3>2, <4>1
    <3>4. to[1] <= clock'  BY <1>6, <2>1
    <3> QED  BY <1>4, <3>1, <3>3, <3>4
  <2>7. cur' \in DOMAIN G /\ \A f \in DOMAIN G : f = cur' \/ Before(f, cur')  BY <1>1, <1>4, <2>1
  <2> QED  BY <1>6, <1>8, <1>9, <2>4, <2>5, <2>6, <2>7 DEF Tidy, Adds, line, G
<1>11. CASE ~Rotates
  <2>1. to = cur /\ cur # NoFile  BY <1>11 DEF to, Rotates
  <2>2. to \in D /\ \A f \in D : f = to \/ Before(f, to)  BY <2>1 DEF Tidy
  <2>3. DOMAIN G = D /\ G[to] = Append(files[to], line)  BY <1>4, <2>2 DEF here
  <2>4. Log' = Append(Log, line)
    <3>1. to \in DOMAIN files /\ Sorted(DOMAIN files) /\ DOMAIN G = DOMAIN files  BY <1>6, <2>2, <2>3
    <3>2. \A f \in DOMAIN files : (f = to \/ Before(f, to)) /\ files[f] \in Seq(Q) /\ (f # to => G[f] = files[f])
      BY <1>3a, <1>4, <2>2
    <3>3. LogOf(G) = Append(LogOf(files), line)  BY ONLY <1>3, <2>3, <3>1, <3>2, OneLineMore
    <3> QED  BY <1>5, <3>3
  <2>5. \A f \in DOMAIN G : f[1] <= clock' /\ \A m \in 0..f[2] : <<f[1], m>> \in DOMAIN G
    BY <2>3 DEF Tidy
  <2> QED  BY <1>1, <1>6, <1>8, <1>9, <2>2, <2>3, <2>4, <2>5 DEF Tidy, Adds, line, G
<1> QED  BY <1>10, <1>11

\* Nothing is written when there is nothing to write, or the time goes on.
LEMMA NothingWritten ==
  ASSUME Tidy, files' = files, cur' = cur, clock' \in Nat, clock <= clock'
  PROVE  Tidy' /\ Log' = Log /\ Written(files') = Written(files)
<1>1. \A f \in DOMAIN files : f[1] \in Nat /\ f[1] <= clock /\ clock \in Nat  BY DEF Tidy, Sorted, Name
<1>2. \A f \in DOMAIN files : f[1] <= clock'
  <2> TAKE f \in DOMAIN files
  <2>1. f[1] \in Nat /\ f[1] <= clock /\ clock \in Nat  BY <1>1
  <2> QED  BY ONLY <2>1, clock' \in Nat, clock <= clock'
<1>3. Tidy'  BY <1>2 DEF Tidy
<1>4. Log' = Log  BY LogWillBe
<1> QED  BY <1>3, <1>4

\* A core that opens the conversation again goes on with the newest file, or a new one.
LEMMA Resumed ==
  ASSUME Tidy, Resume, files' = files, clock' = clock
  PROVE  Tidy' /\ Log' = Log /\ Written(files') = Written(files)
<1> DEFINE D == DOMAIN files
           n == Cardinality(D)
<1>1. ByName = InTurn(D) /\ Len(ByName) = n /\ n \in Nat
  <2>1. Sorted(D)  BY DEF Tidy
  <2> QED  BY <2>1, LogIs, InTurnIs
<1>2. cur' = NoFile \/ (ByName # <<>> /\ cur' = ByName[n])  BY <1>1 DEF Resume
<1>3. ASSUME ByName # <<>>, cur' = ByName[n]
      PROVE  cur' \in D /\ \A f \in D : f = cur' \/ Before(f, cur')
  <2>1. Sorted(D)  BY DEF Tidy
  <2>2. DOMAIN ByName = 1..n /\ \A k \in 1..n : ByName[k] = NameAt(D, k) /\ NameAt(D, k) \in D
    BY <1>1, <2>1, InTurnIs
  <2>3. n # 0
    <3> SUFFICES ASSUME n = 0 PROVE FALSE  OBVIOUS
    <3>1. DOMAIN ByName = {}  BY <2>2
    <3>2. ByName = [i \in {} |-> NameAt(D, i)]  BY <1>1, <2>2, <3>1 DEF InTurn
    <3>3. ByName = <<>>  BY <3>2
    <3> QED  BY <1>3, <3>3
  <2>4. n \in 1..n  BY <1>1, <2>3
  <2>5. cur' = NameAt(D, n) /\ cur' \in D  BY <1>3, <2>2, <2>4
  <2> QED  BY <2>1, <2>5, LastName
<1>4. Tidy'  BY <1>2, <1>3 DEF Tidy
<1>5. Log' = Log  BY LogWillBe
<1> QED  BY <1>4, <1>5

\* A new home has no conversation.
LEMMA NothingYet ==
  ASSUME JournalInit
  PROVE  Tidy /\ Log = <<>> /\ Written(files) = {}
<1> DEFINE D == DOMAIN files
<1>1. D = {} /\ clock = 0 /\ cur = NoFile  BY DEF JournalInit
<1>2. IsFiniteSet(D) /\ Cardinality(D) = 0  BY <1>1, FS_EmptySet
<1>3. Sorted(D)  BY <1>1, <1>2 DEF Sorted
<1>4. Tidy  BY <1>1, <1>3 DEF Tidy
<1>5. Written(files) = {}  BY <1>1 DEF Written
<1>6. Log = <<>>
  <2> DEFINE p == InTurn(D)
  <2>1. DOMAIN p = 1..0 /\ Len(p) = 0  BY <1>2, <1>3, InTurnIs
  <2> HIDE DEF p
  <2>2. \A k \in 1..0 : files[p[k]] \in Seq({})  OBVIOUS
  <2>3. PICK a : IsChain(a, 0, files, p) /\ a[0] = Chain(files, p)
    <3> DEFINE m == 0
               S == {}
    <3>1. m \in Nat /\ DOMAIN p = 1..m /\ Len(p) = m /\ \A k \in 1..m : files[p[k]] \in Seq(S)  BY <2>1, <2>2
    <3> HIDE DEF m, S
    <3>2. \E a : IsChain(a, m, files, p) /\ a[m] = Chain(files, p) /\ \A k \in 0..m : a[k] \in Seq(S)
      BY ONLY <3>1, ChainPath
    <3> QED  BY <3>2 DEF m
  <2>4. Log = Chain(files, p)  BY LogIs DEF LogOf, p
  <2> QED  BY <2>3, <2>4 DEF IsChain
<1> QED  BY <1>4, <1>5, <1>6

------------------------------------------------------------------------------
(* What a step of the mind does to the turns, the conversation and the process *)

Outcomes == {"", "ok", "interrupted", "abandoned"}
Flags == {"tool_error", "repeat", "recovered", "truncated", "exhausted", "completed", "interrupted", "abandoned"}
TurnRecord == [sig : Nat, kind : {"user", "alarm"}, outcome : Outcomes, flags : SUBSET Flags, hurt : BOOLEAN]
SignalRecord == [sig : Nat, kind : {"user", "alarm"}, attempts : Nat]

TurnsTyped ==
  /\ arrived \in Nat /\ queue \subseteq SignalRecord
  /\ active = NoSignal \/ active \in SignalRecord
  /\ turns \in Seq(TurnRecord)
  /\ Open => This # 0 /\ turns[This].outcome = ""

\* What the conversation may meet in a step.
Quiet == files' = files /\ cur' = cur /\ clock' \in {clock, clock + 1}
Reopens == Resume /\ files' = files /\ clock' = clock
IsSaid(l, n) == \E sig, role, kind, text, calls, ok : l = Line(n, sig, role, kind, text, calls, ok)
Says(l) == /\ Write(<<l>>) /\ clock' = clock /\ IsSaid(l, Len(turns'))
           /\ \/ l.role = "user" /\ Len(turns') = This + 1
              \/ l.role # "user" /\ Open /\ Len(turns') = This

\* A process that goes on has the window it was given.
Carries == {"turn", "window"} \subseteq DOMAIN proc
GoesOn == /\ proc # NoProc /\ {"turn", "window"} \subseteq DOMAIN proc'
          /\ proc'.turn = proc.turn /\ proc'.window = proc.window
Claimed == /\ Open /\ UNCHANGED <<journalVars, turns, active>>
           /\ {"turn", "window"} \subseteq DOMAIN proc'
           /\ proc'.turn = This /\ proc'.window = RestoreWindow(ToForget)

\* Ending a turn changes the record of that turn only.
LEMMA EndedIs ==
  ASSUME TurnsTyped, Open, NEW outcome \in Outcomes, NEW flags \in SUBSET Flags
  PROVE  /\ Ended(outcome, flags) \in Seq(TurnRecord) /\ Len(Ended(outcome, flags)) = This
         /\ \A n \in 1..This : n # This => Ended(outcome, flags)[n] = turns[n]
<1> DEFINE u == Ended(outcome, flags)
<1>1. turns \in Seq(TurnRecord) /\ This \in Nat \ {0} /\ DOMAIN turns = 1..This
  BY LenProperties DEF TurnsTyped, This
<1>2. This \in 1..This /\ turns[This] \in TurnRecord  BY <1>1, ElementOfSeq DEF This
<1>3. u = [turns EXCEPT ![This] = [turns[This] EXCEPT !.outcome = outcome, !.flags = flags]]  BY DEF Ended
<1>4. [turns[This] EXCEPT !.outcome = outcome, !.flags = flags] \in TurnRecord  BY <1>2 DEF TurnRecord
<1>5. u \in Seq(TurnRecord) /\ Len(u) = This  BY <1>1, <1>2, <1>3, <1>4, ExceptSeq DEF This
<1>6. \A n \in 1..This : n # This => u[n] = turns[n]  BY <1>1, <1>3
<1> QED  BY <1>5, <1>6

\* A step leaves the conversation alone, opens it again, or writes one line: the first of a new turn
\* or another of the open one.
LEMMA StepWrites ==
  ASSUME TurnsTyped, [Next]_vars
  PROVE  Quiet \/ Reopens \/ \E l : Says(l)
<1>a. ASSUME NEW sig, NEW role, NEW kind, NEW text, NEW calls, NEW ok, role # "user", Open, Len(turns') = This,
             Write(<<Line(This, sig, role, kind, text, calls, ok)>>), clock' = clock
      PROVE  \E l : Says(l)
  <2> DEFINE l == Line(This, sig, role, kind, text, calls, ok)
  <2>1. l.role # "user"  BY <1>a DEF Line
  <2>2. IsSaid(l, Len(turns'))  BY <1>a DEF IsSaid
  <2> HIDE DEF l
  <2>3. Write(<<l>>)  BY <1>a DEF l
  <2>4. Says(l)  BY <1>a, <2>1, <2>2, <2>3 DEF Says
  <2> QED  BY <2>4
<1>b. Write(<<>>) => files' = files /\ cur' = cur  BY DEF Write
<1>1. CASE UNCHANGED vars  BY <1>1 DEF vars, journalVars, Quiet
<1>2. CASE Arrive  BY <1>2 DEF Arrive, journalVars, Quiet
<1>3. CASE Interrupt
  <2>1. Open /\ clock' = clock /\ turns' = Ended("interrupted", {"interrupted"})  BY <1>3 DEF Interrupt
  <2>2. Len(turns') = This
    <3>1. "interrupted" \in Outcomes /\ {"interrupted"} \in SUBSET Flags  BY DEF Outcomes, Flags
    <3> QED  BY <2>1, <3>1, EndedIs
  <2> QED  BY <1>3, <1>a, <2>1, <2>2 DEF Interrupt
<1>4. CASE Feel  BY <1>4 DEF Feel, journalVars, Quiet
<1>5. CASE Begin
  <2>1. clock' = clock  BY <1>5 DEF Begin, Lives
  <2>2. PICK s \in queue :
          /\ turns' = Append(turns, [sig |-> s.sig, kind |-> s.kind, outcome |-> "", flags |-> {}, hurt |-> FALSE])
          /\ Write(IF s.attempts = 0 THEN <<Line(This + 1, s.sig, "user", s.kind, <<>>, <<>>, TRUE)>> ELSE <<>>)
    BY <1>5 DEF Begin
  <2>3. CASE s.attempts # 0  BY <1>b, <2>1, <2>2, <2>3 DEF Quiet
  <2>4. CASE s.attempts = 0
    <3> DEFINE l == Line(This + 1, s.sig, "user", s.kind, <<>>, <<>>, TRUE)
    <3>1. Len(turns') = This + 1
      <4> DEFINE new == [sig |-> s.sig, kind |-> s.kind, outcome |-> "", flags |-> {}, hurt |-> FALSE]
      <4>1. s \in SignalRecord /\ turns \in Seq(TurnRecord)  BY DEF TurnsTyped
      <4>2. new \in TurnRecord
        <5>1. s.sig \in Nat /\ s.kind \in {"user", "alarm"}  BY <4>1 DEF SignalRecord
        <5>2. "" \in Outcomes /\ {} \in SUBSET Flags /\ FALSE \in BOOLEAN  BY DEF Outcomes
        <5> QED  BY <5>1, <5>2 DEF TurnRecord
      <4> HIDE DEF new
      <4>3. Len(Append(turns, new)) = Len(turns) + 1  BY <4>1, <4>2, AppendProperties
      <4> QED  BY <2>2, <4>3 DEF new, This
    <3>2. l.role = "user"  BY DEF Line
    <3>3. IsSaid(l, Len(turns'))  BY <3>1 DEF IsSaid
    <3>4. Write(<<l>>)  BY <2>2, <2>4
    <3> HIDE DEF l
    <3>5. Says(l)  BY <2>1, <3>1, <3>2, <3>3, <3>4 DEF Says
    <3> QED  BY <3>5
  <2> QED  BY <2>3, <2>4
<1>6. CASE Claim  BY <1>6 DEF Claim, Lives, journalVars, Quiet
<1>7. CASE Restart(FALSE) \/ Restart(TRUE)  BY <1>7 DEF Restart, Reopens
<1>8. CASE Ask  BY <1>8 DEF Ask, journalVars, Quiet
<1>9. CASE Stream  BY <1>9 DEF Stream, journalVars, Quiet
<1>c. ASSUME Gone, clock' = clock PROVE Quiet \/ \E l : Says(l)
  <2>1. CASE ~Guard(proc)  BY <1>c, <2>1 DEF Gone, Quiet
  <2>2. CASE Guard(proc)
    <3>1. Open /\ turns' = Ended("abandoned", {"abandoned"})  BY <1>c, <2>2 DEF Gone, Guard, Abandon
    <3>2. Len(turns') = This
      <4>1. "abandoned" \in Outcomes /\ {"abandoned"} \in SUBSET Flags  BY DEF Outcomes, Flags
      <4> QED  BY <3>1, <4>1, EndedIs
    <3>3. \/ Write(<<>>)
          \/ Write(<<Line(This, active.sig, "assistant", "none", <<Piece("gave up", 0)>>, <<>>, TRUE)>>)
      BY <1>c, <2>2 DEF Gone, Abandon
    <3> QED  BY <1>a, <1>b, <1>c, <3>1, <3>2, <3>3 DEF Quiet
  <2> QED  BY <2>1, <2>2
<1>d. ASSUME NEW role, NEW text, NEW calls, NEW ok, NEW next, role # "user", clock' = clock,
             Record(Line(proc.turn, 0, role, "none", text, calls, ok), next)
      PROVE  Quiet \/ \E l : Says(l)
  <2>1. CASE Guard(proc)
    <3>1. Open /\ proc.turn = This /\ turns' = turns /\ Write(<<Line(This, 0, role, "none", text, calls, ok)>>)
      BY <1>d, <2>1 DEF Record, Guard
    <3>2. Len(turns') = This  BY <3>1 DEF This
    <3> QED  BY <1>a, <1>d, <3>1, <3>2
  <2>2. CASE ~Guard(proc)  BY <1>c, <1>d, <2>2 DEF Record
  <2> QED  BY <2>1, <2>2
<1>10. CASE Answered
  <2>1. clock' = clock  BY <1>10 DEF Answered
  <2>2. \E text, calls, next : Record(Line(proc.turn, 0, "assistant", "none", text, calls, TRUE), next)
    BY <1>10 DEF Answered
  <2> QED  BY <1>d, <2>1, <2>2
<1>11. CASE RunCall
  <2>1. clock' = clock  BY <1>11 DEF RunCall
  <2>2. \E calls, ok, next : Record(Line(proc.turn, 0, "tool", "none", <<>>, calls, ok), next)
    BY <1>11 DEF RunCall
  <2> QED  BY <1>d, <2>1, <2>2
<1>12. CASE Report  BY <1>12 DEF Report, Finish, Quiet
<1>13. CASE Die  BY <1>13, <1>c DEF Die
<1>14. CASE ThoughtTraced  BY <1>14 DEF ThoughtTraced, journalVars, Quiet
<1>15. CASE Tick  BY <1>15 DEF Tick, Quiet
<1> QED  BY <1>1, <1>2, <1>3, <1>4, <1>5, <1>6, <1>7, <1>8, <1>9, <1>10, <1>11, <1>12, <1>13, <1>14, <1>15
         DEF Next, Mentor, Core, Process

\* The table only grows, and a turn that ended well has done so for good.
LEMMA StepTurns ==
  ASSUME TurnsTyped, [Next]_vars
  PROVE  /\ TurnsTyped' /\ Len(turns') \in {This, This + 1} /\ This \in Nat
         /\ \A n \in 1..This : turns[n].outcome = "ok" => turns'[n].outcome = "ok"
<1> DEFINE Fine == /\ TurnsTyped' /\ Len(turns') \in {This, This + 1}
                   /\ \A n \in 1..This : turns[n].outcome = "ok" => turns'[n].outcome = "ok"
<1>t. This \in Nat /\ turns \in Seq(TurnRecord) /\ DOMAIN turns = 1..This  BY LenProperties DEF TurnsTyped, This
<1> SUFFICES Fine  BY <1>t
<1>a. ASSUME turns' = turns, active' = active, arrived' = arrived, queue' = queue PROVE Fine
  BY <1>a, <1>t DEF TurnsTyped, Open, This
<1>s. NoSignal \notin SignalRecord
  <2> SUFFICES ASSUME NoSignal \in SignalRecord PROVE FALSE  OBVIOUS
  <2>1. NoSignal.kind \in {"user", "alarm"}  BY DEF SignalRecord
  <2> QED  BY <2>1 DEF NoSignal
\* The open turn is closed, and its signal may be put back.
<1>b. ASSUME Open, NEW outcome \in Outcomes, NEW flags \in SUBSET Flags, turns' = Ended(outcome, flags),
             active' = NoSignal, arrived' = arrived, queue' \subseteq SignalRecord
      PROVE  Fine
  <2>1. turns' \in Seq(TurnRecord) /\ Len(turns') = This /\ \A n \in 1..This : n # This => turns'[n] = turns[n]
    BY <1>b, EndedIs
  <2>2. TurnsTyped'  BY <1>b, <2>1 DEF TurnsTyped, Open
  <2>3. ASSUME NEW n \in 1..This, turns[n].outcome = "ok" PROVE turns'[n].outcome = "ok"
    <3>1. n # This  BY <1>b, <2>3 DEF TurnsTyped
    <3> QED  BY <2>1, <2>3, <3>1
  <2> QED  BY <2>1, <2>2, <2>3
<1> HIDE DEF Fine
<1>e. ASSUME NEW names, names \in {"ok", "interrupted", "abandoned"} PROVE names \in Outcomes  BY <1>e DEF Outcomes
<1>f. Noted(proc.flags) \in SUBSET Flags /\ {"interrupted"} \in SUBSET Flags /\ {"abandoned"} \in SUBSET Flags
  BY DEF Noted, Flags
<1>1. CASE UNCHANGED vars  BY <1>1, <1>a DEF vars
<1>2. CASE Arrive
  <2>1. turns' = turns /\ active' = active /\ arrived \in Nat /\ arrived < Len(Signals) /\ arrived' = arrived + 1
        /\ queue' = queue \cup {[sig |-> arrived', kind |-> Signals[arrived'], attempts |-> 0]}
    BY <1>2 DEF Arrive, TurnsTyped
  <2>2. arrived' \in Nat /\ arrived' \in 1..Len(Signals)
    <3>1. Len(Signals) \in Nat  BY MindAssumption, LenProperties DEF MindAssumption
    <3> QED  BY <2>1, <3>1
  <2>3. Signals[arrived'] \in {"user", "alarm"}
    <3> DEFINE s == Signals
               a == arrived'
    <3>1. s \in Seq({"user", "alarm"})  BY MindAssumption DEF MindAssumption
    <3>2. a \in 1..Len(s)  BY <2>2
    <3> HIDE DEF s, a
    <3>3. s[a] \in {"user", "alarm"}  BY <3>1, <3>2, ElementOfSeq
    <3> QED  BY <3>3 DEF s, a
  <2>4. [sig |-> arrived', kind |-> Signals[arrived'], attempts |-> 0] \in SignalRecord
    BY <2>2, <2>3 DEF SignalRecord
  <2>5. TurnsTyped'  BY <2>1, <2>2, <2>4 DEF TurnsTyped, Open, This
  <2> QED  BY <1>t, <2>1, <2>5 DEF This, Fine
<1>3. CASE Interrupt
  <2>1. Open /\ turns' = Ended("interrupted", {"interrupted"}) /\ active' = NoSignal /\ arrived' = arrived /\ queue' = queue
    BY <1>3 DEF Interrupt
  <2>2. queue' \subseteq SignalRecord  BY <2>1 DEF TurnsTyped
  <2> QED  BY <1>b, <1>e, <1>f, <2>1, <2>2
<1>4. CASE Feel
  <2>1. PICK n \in 1..This : turns' = [turns EXCEPT ![n].hurt = TRUE]  BY <1>4, <1>t DEF Feel
  <2>2. active' = active /\ arrived' = arrived /\ queue' = queue  BY <1>4 DEF Feel
  <2>3. turns[n] \in TurnRecord  BY <1>t, ElementOfSeq DEF This
  <2> DEFINE r == [turns[n] EXCEPT !.hurt = TRUE]
  <2>4. r \in TurnRecord /\ r.outcome = turns[n].outcome  BY <2>3 DEF TurnRecord
  <2>5. turns' = [turns EXCEPT ![n] = r]  BY <2>1
  <2> HIDE DEF r
  <2>6. turns' \in Seq(TurnRecord) /\ Len(turns') = This  BY <1>t, <2>4, <2>5, ExceptSeq DEF This
  <2>7. \A m \in 1..This : turns'[m].outcome = turns[m].outcome  BY <1>t, <2>4, <2>5
  <2>8. Open' => This' # 0 /\ turns'[This'].outcome = ""
    <3> SUFFICES ASSUME Open PROVE This # 0 /\ turns'[This].outcome = ""  BY <2>2, <2>6 DEF Open, This
    <3>1. This # 0 /\ turns[This].outcome = ""  BY DEF TurnsTyped
    <3> HIDE DEF This
    <3>n. This \in Nat /\ This # 0  BY <1>t, <3>1
    <3>2. This \in 1..This  BY ONLY <3>n
    <3> QED  BY <2>7, <3>1, <3>2
  <2>9. TurnsTyped'  BY <2>2, <2>6, <2>8 DEF TurnsTyped
  <2> QED  BY <2>6, <2>7, <2>9 DEF Fine
<1>5. CASE Begin
  <2>1. PICK s \in queue :
          /\ turns' = Append(turns, [sig |-> s.sig, kind |-> s.kind, outcome |-> "", flags |-> {}, hurt |-> FALSE])
          /\ queue' = queue \ {s} /\ active' = s
    BY <1>5 DEF Begin
  <2>2. arrived' = arrived  BY <1>5 DEF Begin, Lives
  <2> DEFINE new == [sig |-> s.sig, kind |-> s.kind, outcome |-> "", flags |-> {}, hurt |-> FALSE]
  <2>3. s \in SignalRecord  BY DEF TurnsTyped
  <2>4. new \in TurnRecord /\ new.outcome = ""
    <3>1. s.sig \in Nat /\ s.kind \in {"user", "alarm"}  BY <2>3 DEF SignalRecord
    <3>2. "" \in Outcomes /\ {} \in SUBSET Flags /\ FALSE \in BOOLEAN  BY DEF Outcomes
    <3> QED  BY <3>1, <3>2 DEF TurnRecord
  <2>5. turns' = Append(turns, new)  BY <2>1
  <2> HIDE DEF new
  <2>6. turns' \in Seq(TurnRecord) /\ Len(turns') = This + 1 /\ turns'[This + 1] = new
        /\ \A n \in 1..This : turns'[n] = turns[n]
    <3> DEFINE T == TurnRecord
               s0 == turns
    <3>1. s0 \in Seq(T) /\ new \in T  BY <1>t, <2>4
    <3> HIDE DEF T, s0
    <3>2. /\ Append(s0, new) \in Seq(T) /\ Len(Append(s0, new)) = Len(s0) + 1
          /\ (\A n \in 1..Len(s0) : Append(s0, new)[n] = s0[n]) /\ Append(s0, new)[Len(s0) + 1] = new
      BY <3>1, AppendProperties
    <3> QED  BY <2>5, <3>2 DEF T, s0, This
  <2>7. This' # 0 /\ turns'[This'].outcome = ""
    <3>1. This' = This + 1  BY <2>6 DEF This
    <3>2. This + 1 # 0  BY <1>t
    <3> QED  BY <2>4, <2>6, <3>1, <3>2
  <2>8. TurnsTyped'  BY <2>1, <2>2, <2>3, <2>6, <2>7 DEF TurnsTyped
  <2> QED  BY <2>6, <2>8 DEF Fine
<1>6. CASE Claim  BY <1>6, <1>a DEF Claim, Lives
<1>7. CASE Restart(FALSE) \/ (Guard(proc) /\ Restart(TRUE))
  <2>1. active' = NoSignal /\ arrived' = arrived /\ queue' \subseteq SignalRecord
    BY <1>7 DEF Restart, TurnsTyped, Open
  <2>2. CASE turns' = turns
    <3>1. TurnsTyped'  BY <2>1, <2>2 DEF TurnsTyped, Open
    <3> QED  BY <1>t, <2>2, <3>1 DEF This, Fine
  <2>3. CASE turns' # turns
    <3>1. Open /\ turns' = Ended("ok", Noted(proc.flags))  BY <1>7, <2>3 DEF Restart, Guard
    <3> QED  BY <1>b, <1>e, <1>f, <2>1, <3>1
  <2> QED  BY <2>2, <2>3
<1>8. CASE Ask  BY <1>8, <1>a DEF Ask
<1>9. CASE Stream  BY <1>9, <1>a DEF Stream
<1>c. ASSUME Gone, arrived' = arrived PROVE Fine
  <2>1. CASE ~Guard(proc)  BY <1>a, <1>c, <2>1 DEF Gone
  <2>2. CASE Guard(proc)
    <3>1. Open /\ turns' = Ended("abandoned", {"abandoned"}) /\ active' = NoSignal
      BY <1>c, <2>2 DEF Gone, Guard, Abandon
    <3>2. queue' \subseteq SignalRecord
      <4>1. queue \subseteq SignalRecord /\ active \in SignalRecord  BY <3>1 DEF TurnsTyped, Open
      <4>2. [active EXCEPT !.attempts = @ + 1] \in SignalRecord  BY <4>1 DEF SignalRecord
      <4>3. queue' = queue \cup {[active EXCEPT !.attempts = @ + 1]} \/ queue' = queue
        BY <1>c, <2>2 DEF Gone, Abandon
      <4> QED  BY <4>1, <4>2, <4>3
    <3> QED  BY <1>b, <1>c, <1>e, <1>f, <3>1, <3>2
  <2> QED  BY <2>1, <2>2
<1>10. CASE Answered
  <2>1. arrived' = arrived  BY <1>10 DEF Answered
  <2>2. Gone \/ UNCHANGED <<queue, turns, active>>  BY <1>10 DEF Answered, Record
  <2> QED  BY <1>a, <1>c, <2>1, <2>2
<1>11. CASE RunCall
  <2>1. arrived' = arrived  BY <1>11 DEF RunCall
  <2>2. Gone \/ UNCHANGED <<queue, turns, active>>  BY <1>11 DEF RunCall, Record
  <2> QED  BY <1>a, <1>c, <2>1, <2>2
<1>12. CASE Report
  <2>1. arrived' = arrived  BY <1>12 DEF Report
  <2>2. CASE ~Guard(proc)  BY <1>12, <1>a, <2>2 DEF Report
  <2>3. CASE Guard(proc)
    <3>1. Open /\ turns' = Ended("ok", Noted(proc.flags)) /\ active' = NoSignal /\ queue' = queue
      BY <1>12, <2>3 DEF Report, Finish, Guard
    <3>2. queue' \subseteq SignalRecord  BY <3>1 DEF TurnsTyped
    <3> QED  BY <1>b, <1>e, <1>f, <2>1, <3>1, <3>2
  <2> QED  BY <2>2, <2>3
<1>13. CASE Die  BY <1>13, <1>c DEF Die
<1>14. CASE ThoughtTraced  BY <1>14, <1>a DEF ThoughtTraced
<1>15. CASE Tick  BY <1>15, <1>a DEF Tick
<1> QED  BY <1>1, <1>2, <1>3, <1>4, <1>5, <1>6, <1>7, <1>8, <1>9, <1>10, <1>11, <1>12, <1>13, <1>14, <1>15
         DEF Next, Mentor, Core, Process

\* A process carries the window it was given to its end.
LEMMA StepProc ==
  ASSUME proc = NoProc \/ Carries, [Next]_vars
  PROVE  proc' = NoProc \/ proc' = proc \/ GoesOn \/ Claimed
<1>a. NoProc.pc = "none"  BY DEF NoProc
<1>b. ASSUME NEW line, NEW next, Record(line, next) PROVE proc' = next \/ proc' = NoProc  BY <1>b DEF Record, Gone
<1>1. CASE UNCHANGED vars  BY <1>1 DEF vars
<1>2. CASE Arrive  BY <1>2 DEF Arrive
<1>3. CASE Interrupt  BY <1>3 DEF Interrupt
<1>4. CASE Feel  BY <1>4 DEF Feel
<1>5. CASE Begin  BY <1>5 DEF Begin
<1>6. CASE Claim
  <2>1. proc' = [pc |-> "top", turn |-> This, window |-> RestoreWindow(ToForget), round |-> 0, calls |-> <<>>,
                 seen |-> {}, failed |-> FALSE, flags |-> NoFlags]
    BY <1>6 DEF Claim
  <2>2. proc'.turn = This /\ proc'.window = RestoreWindow(ToForget) /\ {"turn", "window"} \subseteq DOMAIN proc'
    BY <2>1
  <2> QED  BY <1>6, <2>2 DEF Claim, Claimed
<1>7. CASE Restart(FALSE) \/ Restart(TRUE)  BY <1>7 DEF Restart
<1>8. CASE Ask
  <2>1. proc # NoProc /\ Carries  BY <1>8, <1>a DEF Ask
  <2>2. proc' = [proc EXCEPT !.pc = "waiting"]  BY <1>8 DEF Ask
  <2> QED  BY <2>1, <2>2 DEF GoesOn, Carries
<1>9. CASE Stream  BY <1>9 DEF Stream
<1>10. CASE Answered
  <2>1. proc # NoProc /\ Carries  BY <1>10, <1>a DEF Answered
  <2>2. \E pc, calls, flags : proc' = [proc EXCEPT !.pc = pc, !.calls = calls, !.flags = flags] \/ proc' = NoProc
    BY <1>10, <1>b DEF Answered
  <2> QED  BY <2>1, <2>2 DEF GoesOn, Carries
<1>11. CASE RunCall
  <2>1. proc # NoProc /\ Carries  BY <1>11, <1>a DEF RunCall
  <2> DEFINE Same(p) == {"turn", "window"} \subseteq DOMAIN p /\ p.turn = proc.turn /\ p.window = proc.window
  <2>2. PICK ok, call : LET p == Noticed([proc EXCEPT !.calls = Tail(@)], call, ok)
                            next == IF call = "finish" THEN [p EXCEPT !.pc = "report", !.flags.completed = TRUE]
                                    ELSE IF p.calls = <<>> THEN NextRound(p) ELSE p
                        IN  proc' = next \/ proc' = NoProc
    BY <1>11, <1>b DEF RunCall
  <2> DEFINE p == Noticed([proc EXCEPT !.calls = Tail(@)], call, ok)
  <2>3. Same(p)  BY <2>1 DEF Noticed, Carries
  <2> HIDE DEF p
  <2>4. Same([p EXCEPT !.pc = "report", !.flags.completed = TRUE])  BY <2>3
  <2>5. Same(NextRound(p))  BY <2>3 DEF NextRound
  <2>6. proc' = NoProc \/ proc' = [p EXCEPT !.pc = "report", !.flags.completed = TRUE]
        \/ proc' = NextRound(p) \/ proc' = p
    BY <2>2 DEF p
  <2>7. proc' = NoProc \/ Same(proc')  BY <2>3, <2>4, <2>5, <2>6
  <2> QED  BY <2>1, <2>7 DEF GoesOn
<1>12. CASE Report  BY <1>12 DEF Report
<1>13. CASE Die  BY <1>13 DEF Die, Gone
<1>14. CASE ThoughtTraced  BY <1>14 DEF ThoughtTraced
<1>15. CASE Tick  BY <1>15 DEF Tick
<1> QED  BY <1>1, <1>2, <1>3, <1>4, <1>5, <1>6, <1>7, <1>8, <1>9, <1>10, <1>11, <1>12, <1>13, <1>14, <1>15
         DEF Next, Mentor, Core, Process

------------------------------------------------------------------------------
(* The conversation is in order, and the lines of a turn stand together *)

\* Stamped one after the other, turn after turn; what comes in is the first line of its turn.
InOrder(g, n) ==
  /\ \E S : g \in Seq(S)
  /\ \A i \in 1..Len(g) : g[i].ts = i /\ g[i].turn \in 1..n
  /\ \A i, j \in 1..Len(g) : i < j => /\ g[i].turn <= g[j].turn
                                      /\ g[j].role = "user" => g[i].turn < g[j].turn

\* More turns leave it in order.
LEMMA LaterInOrder ==
  ASSUME NEW g, NEW n \in Nat, NEW m \in Nat, n <= m, InOrder(g, n)
  PROVE  InOrder(g, m)
<1>1. \A k \in 1..n : k \in 1..m  OBVIOUS
<1> QED  BY <1>1 DEF InOrder

\* So does a line of the last turn, or the first line of a new one.
LEMMA OneMoreInOrder ==
  ASSUME NEW g, NEW n \in Nat, NEW m \in Nat \ {0}, n <= m, InOrder(g, n),
         NEW x, x.ts = Len(g) + 1, x.turn = m, x.role = "user" => m = n + 1
  PROVE  InOrder(Append(g, x), m)
<1> DEFINE k == Len(g)
           u == Append(g, x)
<1>1. PICK S : g \in Seq(S)  BY DEF InOrder
<1> DEFINE Q == S \cup {x}
<1>2. g \in Seq(Q) /\ x \in Q /\ k \in Nat
  <2>1. \A i \in 1..Len(g) : g[i] \in Q  BY <1>1, ElementOfSeq
  <2>2. g \in [1..Len(g) -> Q] /\ Len(g) \in Nat  BY <1>1, <2>1, LenProperties
  <2> QED  BY <2>2 DEF Seq
<1>3. u \in Seq(Q) /\ Len(u) = k + 1 /\ u[k + 1] = x /\ \A i \in 1..k : u[i] = g[i]
  BY <1>2, AppendProperties
<1>4. \A i \in 1..k : g[i].ts = i /\ g[i].turn \in 1..n  BY DEF InOrder
<1>5. \A i, j \in 1..k : i < j => /\ g[i].turn <= g[j].turn
                                  /\ g[j].role = "user" => g[i].turn < g[j].turn
  BY DEF InOrder
<1>6. x.ts = k + 1  OBVIOUS
<1>k. k \in Nat  BY <1>2
<1> HIDE DEF k, u, Q
<1>7. ASSUME NEW i \in 1..(k + 1) PROVE u[i].ts = i /\ u[i].turn \in 1..m
  <2>1. CASE i = k + 1
    <3>1. u[i] = x /\ m \in 1..m  BY <1>3, <2>1
    <3> QED  BY <1>6, <2>1, <3>1
  <2>2. CASE i # k + 1
    <3>1. i \in 1..k  BY <1>k, <2>2
    <3>2. u[i] = g[i] /\ g[i].ts = i /\ g[i].turn \in 1..n  BY <1>3, <1>4, <3>1
    <3>3. \A z \in 1..n : z \in 1..m  OBVIOUS
    <3> QED  BY <3>2, <3>3
  <2> QED  BY <2>1, <2>2
<1>8. ASSUME NEW i \in 1..(k + 1), NEW j \in 1..(k + 1), i < j
      PROVE  u[i].turn <= u[j].turn /\ (u[j].role = "user" => u[i].turn < u[j].turn)
  <2>1. i \in 1..k  BY <1>k, <1>8
  <2>2. u[i] = g[i] /\ g[i].turn \in 1..n  BY <1>3, <1>4, <2>1
  <2>3. CASE j = k + 1
    <3>1. u[j] = x  BY <1>3, <2>3
    <3>2. g[i].turn <= m /\ (m = n + 1 => g[i].turn < m)
      <4> DEFINE z == g[i].turn
      <4>1. z \in 1..n  BY <2>2
      <4> HIDE DEF z
      <4>2. z <= m /\ (m = n + 1 => z < m)  BY <4>1
      <4> QED  BY <4>2 DEF z
    <3> QED  BY <2>2, <3>1, <3>2
  <2>4. CASE j # k + 1
    <3>1. j \in 1..k  BY <1>k, <2>4
    <3> QED  BY <1>3, <1>5, <1>8, <2>1, <2>2, <3>1
  <2> QED  BY <2>3, <2>4
<1>9. \E T : u \in Seq(T)  BY <1>3
<1>10. Len(u) = k + 1  BY <1>3
<1> HIDE DEF InOrder
<1>11. InOrder(u, m)  BY <1>7, <1>8, <1>9, <1>10 DEF InOrder
<1> QED  BY <1>11 DEF u

\* The lines of the turn stand at other + 1 to last, and those found are the ones from lo.
IsStretch(found, t, limit, other, lo, last) ==
  /\ other < lo /\ lo <= last /\ last <= Len(Log)
  /\ Len(found) = last - lo + 1 /\ DOMAIN found = 1..(last - lo + 1)
  /\ \A k \in 1..(last - lo + 1) : found[k] = Log[lo + k - 1]
  /\ \A i \in 1..Len(Log) : Log[i].turn = t <=> i \in (other + 1)..last
  /\ lo = other + 1 \/ last - lo + 1 = limit

\* The lines between the last of a turn and the last of another before it, no more than the limit.
LEMMA FoundIs ==
  ASSUME NEW n, InOrder(Log, n), n \in Nat, NEW t \in Nat, NEW limit \in Nat \ {0}
  PROVE  \/ OfTurn(t, limit) = <<>> /\ \A i \in 1..Len(Log) : Log[i].turn # t
         \/ \E other, lo, last \in Nat : IsStretch(OfTurn(t, limit), t, limit, other, lo, last)
<1> DEFINE N == Len(Log)
           I == {i \in 1..N : Log[i].turn = t}
           last == Max(I)
           O == {i \in 1..last : Log[i].turn # t}
           other == IF O # {} THEN Max(O) ELSE 0
           B == SubSeq(Log, other + 1, last)
<1>1. PICK S : Log \in Seq(S)  BY DEF InOrder
<1>2. N \in Nat /\ Log \in Seq(S)  BY <1>1, LenProperties
<1>3. OfTurn(t, limit) = IF I = {} THEN <<>> ELSE LastOf(B, limit)
  <2>1. SelectLastInSeq(Log, LAMBDA l : l.turn = t) = IF I # {} THEN last ELSE 0  BY DEF SelectLastInSeq
  <2>2. SelectLastInSubSeq(Log, 1, last, LAMBDA l : l.turn # t) = other  BY DEF SelectLastInSubSeq
  <2>3. I # {} => last # 0
    <3> SUFFICES ASSUME I # {} PROVE last # 0  OBVIOUS
    <3>1. I \subseteq 0..N  BY <1>2
    <3> HIDE DEF I, N
    <3>2. last \in I  BY <1>2, <3>1, MaxOf
    <3> QED  BY <1>2, <3>2 DEF I
  <2> QED  BY <2>1, <2>2, <2>3 DEF OfTurn
<1>4. CASE I = {}  BY <1>3, <1>4
<1>5. CASE I # {}
  <2>1. last \in I /\ \A y \in I : y <= last
    <3>1. I \subseteq 0..N  BY <1>2
    <3> HIDE DEF I, N
    <3> QED  BY <1>2, <1>5, <3>1, MaxOf
  <2>2. last \in 1..N /\ Log[last].turn = t /\ \A i \in 1..N : Log[i].turn = t => i <= last  BY <2>1
  <2> HIDE DEF last, I, N
  <2>3. other \in 0..(last - 1) /\ (other # 0 => Log[other].turn # t) /\ \A i \in (other + 1)..last : Log[i].turn = t
    <3>0. last \in Nat \ {0}  BY <1>2, <2>2
    <3>1. CASE O = {}
      <4>1. other = 0  BY <3>1
      <4> QED  BY <3>0, <3>1, <4>1
    <3>2. CASE O # {}
      <4>1. O \subseteq 0..last  BY <3>0
      <4>2. other = Max(O)  BY <3>2
      <4>3. \A i \in 1..last : i \in O <=> Log[i].turn # t  OBVIOUS
      <4>4. O \subseteq 1..last  OBVIOUS
      <4> HIDE DEF O
      <4>5. Max(O) \in O /\ \A y \in O : y <= Max(O)  BY <3>0, <3>2, <4>1, MaxOf
      <4> DEFINE m == Max(O)
      <4>6. m \in 1..last /\ Log[m].turn # t  BY <4>3, <4>4, <4>5
      <4>7. m # last  BY <2>2, <4>6
      <4>8. ASSUME NEW i \in (m + 1)..last PROVE Log[i].turn = t
        <5>1. i \in 1..last /\ ~(i <= m)  BY <3>0, <4>6
        <5> QED  BY <4>3, <4>5, <5>1
      <4> HIDE DEF m
      <4>9. m \in 0..(last - 1) /\ m # 0  BY <3>0, <4>6, <4>7
      <4> QED  BY <4>2, <4>6, <4>8, <4>9 DEF m
    <3> QED  BY <3>1, <3>2
  <2>4. \A i \in 1..N : Log[i].turn = t <=> i \in (other + 1)..last
    <3> TAKE i \in 1..N
    <3> HIDE DEF other
    <3>1. other \in Nat /\ last \in Nat /\ other < last /\ last <= N  BY <1>2, <2>2, <2>3
    <3>2. ASSUME Log[i].turn = t PROVE i \in (other + 1)..last
      <4>1. i <= last  BY <2>2, <3>2
      <4>2. ~(i < other)
        <5> SUFFICES ASSUME i < other PROVE FALSE  OBVIOUS
        <5>0. other \in 1..N /\ last \in 1..N  BY <1>2, <2>2, <3>1
        <5>1. Log[i].turn <= Log[other].turn /\ Log[other].turn <= Log[last].turn
          BY <3>1, <5>0 DEF InOrder, N
        <5>2. Log[other].turn \in Nat /\ Log[other].turn # t  BY <2>3, <5>0 DEF InOrder, N
        <5> DEFINE z == Log[other].turn
        <5>3. t <= z /\ z <= t /\ z \in Nat /\ z # t  BY <2>2, <3>2, <5>1, <5>2
        <5> HIDE DEF z
        <5> QED  BY ONLY <5>3, t \in Nat
      <4>3. i # other
        <5>1. other # 0 => Log[other].turn # t  BY <2>3
        <5> QED  BY <3>1, <3>2, <5>1
      <4> QED  BY <3>1, <4>1, <4>2, <4>3
    <3>3. ASSUME i \in (other + 1)..last PROVE Log[i].turn = t  BY <2>3, <3>3
    <3> QED  BY <3>2, <3>3
  <2> HIDE DEF other
  <2>n. other \in Nat /\ last \in Nat /\ other < last /\ last <= N  BY <1>2, <2>2, <2>3
  <2>5. B \in Seq(S) /\ Len(B) = last - other /\ \A k \in 1..(last - other) : B[k] = Log[other + k]
    <3> DEFINE a == other + 1
               g == Log
    <3>1. a \in Nat \ {0} /\ a <= last + 1 /\ last \in 0..N  BY ONLY <2>n, <1>2
    <3>2. g \in Seq(S) /\ last \in 0..Len(g)  BY <1>2, <3>1 DEF N
    <3> HIDE DEF a, g
    <3>3. /\ SubSeq(g, a, last) \in Seq(S) /\ Len(SubSeq(g, a, last)) = last - a + 1
          /\ \A k \in 1..(last - a + 1) : SubSeq(g, a, last)[k] = g[a + k - 1]
      BY <3>1, <3>2, PartOf
    <3>4. last - a + 1 = last - other /\ \A k \in 1..(last - other) : a + k - 1 = other + k  BY <2>n DEF a
    <3> QED  BY <3>3, <3>4 DEF a, g
  <2> DEFINE M == Len(B)
             a2 == IF M > limit THEN M - limit + 1 ELSE 1
             lo == other + a2
  <2>6. OfTurn(t, limit) = SubSeq(B, a2, M)  BY <1>3, <1>5 DEF LastOf
  <2>7. M = last - other /\ M \in Nat \ {0}  BY <2>n, <2>5
  <2> HIDE DEF B, M
  <2>8. a2 \in Nat \ {0} /\ a2 <= M /\ (a2 = 1 \/ M - a2 + 1 = limit)  BY <2>7
  <2> HIDE DEF a2
  <2>9. /\ SubSeq(B, a2, M) \in Seq(S) /\ Len(SubSeq(B, a2, M)) = M - a2 + 1
        /\ \A k \in 1..(M - a2 + 1) : SubSeq(B, a2, M)[k] = B[a2 + k - 1]
    <3>1. M \in 0..Len(B) /\ a2 <= M + 1 /\ B \in Seq(S)  BY <2>5, <2>7, <2>8 DEF M
    <3> QED  BY <2>8, <3>1, PartOf
  <2>10. lo \in Nat /\ other < lo /\ lo <= last /\ M - a2 + 1 = last - lo + 1 /\ (lo = other + 1 \/ last - lo + 1 = limit)
    BY <2>n, <2>7, <2>8
  <2>11. \A k \in 1..(last - lo + 1) : OfTurn(t, limit)[k] = Log[lo + k - 1]
    <3> TAKE k \in 1..(last - lo + 1)
    <3>1. k \in 1..(M - a2 + 1) /\ a2 + k - 1 \in 1..(last - other)  BY <2>n, <2>7, <2>8, <2>10
    <3>2. OfTurn(t, limit)[k] = B[a2 + k - 1]  BY <2>6, <2>9, <3>1
    <3>3. B[a2 + k - 1] = Log[other + (a2 + k - 1)]  BY <2>5, <3>1
    <3>4. other + (a2 + k - 1) = lo + k - 1  BY <2>n, <2>8
    <3> QED  BY <3>2, <3>3, <3>4
  <2>12. Len(OfTurn(t, limit)) = last - lo + 1 /\ DOMAIN OfTurn(t, limit) = 1..(last - lo + 1)
    <3>1. Len(OfTurn(t, limit)) = last - lo + 1 /\ OfTurn(t, limit) \in Seq(S)  BY <2>6, <2>9, <2>10
    <3> QED  BY <3>1, LenProperties
  <2> HIDE DEF lo
  <2> QED  BY <2>n, <2>4, <2>10, <2>11, <2>12 DEF N, IsStretch
<1> QED  BY <1>4, <1>5

\* The files hold the conversation, and it is in order.
LogSound ==
  /\ TurnsTyped /\ Tidy
  /\ Written(files) = ToSet(Log)
  /\ InOrder(Log, Len(turns))

\* A line that is said is stamped with its turn and the next time.
LEMMA SaidIs ==
  ASSUME NEW n, NEW l, IsSaid(l, n)
  PROVE  /\ Stamped(l).ts = Len(Log) + 1 /\ Stamped(l).turn = n /\ Stamped(l).role = l.role
         /\ l.turn = n
<1>1. PICK sig, role, kind, text, calls, ok : l = Line(n, sig, role, kind, text, calls, ok)  BY DEF IsSaid
<1>2. l = [ts |-> 0, turn |-> n, sig |-> sig, role |-> role, kind |-> kind, text |-> text, calls |-> calls, ok |-> ok]
  BY <1>1 DEF Line
<1> QED  BY <1>2 DEF Stamped

\* A step leaves the conversation as it is, or adds a line of the last turn to it.
LEMMA StepOfLog ==
  ASSUME LogSound, [Next]_vars
  PROVE  /\ LogSound'
         /\ \/ Log' = Log
            \/ \E l : Says(l) /\ Log' = Append(Log, Stamped(l))
<1>1. /\ TurnsTyped' /\ Len(turns') \in {This, This + 1} /\ This \in Nat
  BY StepTurns DEF LogSound
<1>2. InOrder(Log, This) /\ Tidy /\ TurnsTyped /\ Written(files) = ToSet(Log)  BY DEF LogSound, This
<1>3. Len(turns') \in Nat /\ This <= Len(turns')  BY <1>1
<1>4. InOrder(Log, Len(turns'))  BY <1>1, <1>2, <1>3, LaterInOrder
<1>5. CASE Quiet
  <2>1. clock \in Nat /\ clock' \in {clock, clock + 1} /\ files' = files /\ cur' = cur
    BY <1>2, <1>5 DEF Tidy, Quiet
  <2>2. clock' \in Nat /\ clock <= clock'  BY <2>1
  <2>3. Tidy' /\ Log' = Log /\ Written(files') = Written(files)  BY <1>2, <2>1, <2>2, NothingWritten
  <2> QED  BY <1>1, <1>2, <1>4, <2>3 DEF LogSound
<1>6. CASE Reopens
  <2>1. Tidy' /\ Log' = Log /\ Written(files') = Written(files)  BY <1>2, <1>6, Resumed DEF Reopens
  <2> QED  BY <1>1, <1>2, <1>4, <2>1 DEF LogSound
<1>7. ASSUME NEW l, Says(l) PROVE LogSound' /\ Log' = Append(Log, Stamped(l))
  <2> DEFINE x == Stamped(l)
             m == Len(turns')
  <2>1. Write(<<l>>) /\ clock' = clock /\ IsSaid(l, m)
        /\ ((l.role = "user" /\ m = This + 1) \/ (l.role # "user" /\ Open /\ m = This))
    BY <1>7 DEF Says
  <2>2. Tidy' /\ Adds(x)  BY <1>2, <2>1, WriteOne
  <2>3. Log' = Append(Log, x) /\ Written(files') = Written(files) \cup {x}  BY <2>2 DEF Adds
  <2>4. x.ts = Len(Log) + 1 /\ x.turn = m /\ x.role = l.role  BY <2>1, SaidIs
  <2>5. m \in Nat \ {0} /\ This <= m
    <3>1. Open => This # 0  BY <1>2 DEF TurnsTyped
    <3> QED  BY <1>1, <2>1, <3>1
  <2> DEFINE n == This
  <2>6. n \in Nat /\ InOrder(Log, n)  BY <1>1, <1>2
  <2>7. x.role = "user" => m = n + 1  BY <2>1, <2>4
  <2> HIDE DEF x, m, n
  <2>8. n <= m  BY <2>5 DEF n
  <2>9. InOrder(Append(Log, x), m)  BY <2>4, <2>5, <2>6, <2>7, <2>8, OneMoreInOrder
  <2>10. ToSet(Append(Log, x)) = ToSet(Log) \cup {x}
    <3>1. PICK S : Log \in Seq(S)  BY <2>6 DEF InOrder
    <3> DEFINE Q == S \cup {x}
               g == Log
    <3>2. g \in Seq(Q) /\ x \in Q
      <4>1. \A i \in 1..Len(g) : g[i] \in Q  BY <3>1, ElementOfSeq
      <4>2. g \in [1..Len(g) -> Q] /\ Len(g) \in Nat  BY <3>1, <4>1, LenProperties
      <4> QED  BY <4>2 DEF Seq
    <3> HIDE DEF Q, g
    <3>3. ToSet(Append(g, x)) = ToSet(g) \cup {x}  BY <3>2, LinesOfOneMore
    <3> QED  BY <3>3 DEF g
  <2> QED  BY <1>1, <1>2, <2>2, <2>3, <2>9, <2>10 DEF LogSound, m, x
<1> QED  BY <1>2, <1>5, <1>6, <1>7, StepWrites

\* A new home's conversation is sound,
LEMMA LogSoundFirst == Init => LogSound
<1> SUFFICES ASSUME Init PROVE LogSound  OBVIOUS
<1>1. JournalInit /\ queue = {} /\ arrived = 0 /\ turns = <<>> /\ active = NoSignal  BY DEF Init
<1>2. Tidy /\ Log = <<>> /\ Written(files) = {}  BY <1>1, NothingYet
<1>3. TurnsTyped
  <2>1. turns \in Seq(TurnRecord)  BY <1>1, EmptySeq
  <2> QED  BY <1>1, <2>1 DEF TurnsTyped, Open
<1>4. InOrder(Log, Len(turns))
  <2> DEFINE g == <<>>
  <2>1. g \in Seq({}) /\ Len(g) = 0  BY EmptySeq
  <2> HIDE DEF g
  <2>2. InOrder(g, 0)
    <3>1. \E S : g \in Seq(S)  BY <2>1
    <3>2. \A i \in 1..Len(g) : FALSE  BY <2>1
    <3> QED  BY <3>1, <3>2 DEF InOrder
  <2>3. Len(turns) = 0  BY <1>1
  <2> QED  BY <1>2, <2>2, <2>3 DEF g
<1>5. ToSet(<<>>) = {}  BY DEF ToSet
<1> QED  BY <1>2, <1>3, <1>4, <1>5 DEF LogSound

\* and it is sound for good.
LEMMA LogSoundAlways == Spec => []LogSound
<1>1. Init => LogSound  BY LogSoundFirst
<1>2. LogSound /\ [Next]_vars => LogSound'  BY StepOfLog
<1> QED  BY <1>1, <1>2, PTL DEF Spec

(***************************************************************************)
(* What a person is shown of a run is every line of it, in the order they  *)
(* were written, however often the files rotate, midnight passes or the    *)
(* core is started again (journal.rs).                                     *)
(***************************************************************************)
THEOREM ARunIsShownWhole == Spec => []OfTurnIsWhole
<1>1. LogSound => OfTurnIsWhole
  <2> SUFFICES ASSUME LogSound, NEW n \in DOMAIN turns
               PROVE  /\ ToSet(OfTurn(n, 400)) \subseteq LinesOf(n)
                      /\ \A i, j \in DOMAIN OfTurn(n, 400) : i < j => OfTurn(n, 400)[i].ts < OfTurn(n, 400)[j].ts
                      /\ \A l \in LinesOf(n) \ ToSet(OfTurn(n, 400)) :
                            Len(OfTurn(n, 400)) = 400 /\ l.ts < OfTurn(n, 400)[1].ts
    BY DEF OfTurnIsWhole
  <2> DEFINE found == OfTurn(n, 400)
             N == Len(Log)
             Good == /\ ToSet(found) \subseteq LinesOf(n)
                     /\ \A i, j \in DOMAIN found : i < j => found[i].ts < found[j].ts
                     /\ \A l \in LinesOf(n) \ ToSet(found) : Len(found) = 400 /\ l.ts < found[1].ts
  <2>1. InOrder(Log, Len(turns)) /\ Len(turns) \in Nat /\ n \in Nat
    <3>1. turns \in Seq(TurnRecord)  BY DEF LogSound, TurnsTyped
    <3>2. Len(turns) \in Nat /\ DOMAIN turns = 1..Len(turns)  BY <3>1, LenProperties
    <3> QED  BY <3>2 DEF LogSound
  <2>2. N \in Nat /\ DOMAIN Log = 1..N /\ \A i \in 1..N : Log[i].ts = i
    <3>1. PICK S : Log \in Seq(S)  BY <2>1 DEF InOrder
    <3>2. N \in Nat /\ DOMAIN Log = 1..N  BY <3>1, LenProperties
    <3> QED  BY <2>1, <3>2 DEF InOrder
  <2>3. LinesOf(n) = {l \in ToSet(Log) : l.turn = n}
    <3>1. Written(files) = ToSet(Log)  BY DEF LogSound
    <3>2. LinesOf(n) = {l \in Written(files) : l.turn = n}  BY DEF LinesOf, Written
    <3> QED  BY <3>1, <3>2
  <2>4. \A l : l \in LinesOf(n) <=> \E i \in 1..N : l = Log[i] /\ Log[i].turn = n  BY <2>2, <2>3 DEF ToSet
  <2>5. ASSUME found = <<>>, \A i \in 1..N : Log[i].turn # n PROVE Good
    <3>1. ToSet(found) = {} /\ DOMAIN found = {}  BY <2>5 DEF ToSet
    <3>2. LinesOf(n) = {}  BY <2>4, <2>5
    <3> QED  BY <3>1, <3>2
  <2>6. ASSUME NEW other \in Nat, NEW lo \in Nat, NEW last \in Nat, IsStretch(found, n, 400, other, lo, last)
        PROVE  Good
    <3> HIDE DEF found
    <3>f. /\ other < lo /\ lo <= last /\ last <= N
          /\ Len(found) = last - lo + 1 /\ DOMAIN found = 1..(last - lo + 1)
          /\ \A k \in 1..(last - lo + 1) : found[k] = Log[lo + k - 1]
          /\ \A i \in 1..N : Log[i].turn = n <=> i \in (other + 1)..last
          /\ lo = other + 1 \/ last - lo + 1 = 400
      BY <2>6 DEF IsStretch
    <3> HIDE DEF N
    <3>1. \A k \in 1..(last - lo + 1) : lo + k - 1 \in 1..N /\ lo + k - 1 \in (other + 1)..last  BY <2>2, <3>f
    <3>2. \A k \in 1..(last - lo + 1) : found[k].ts = lo + k - 1  BY <2>2, <3>f, <3>1
    <3>3. ToSet(found) \subseteq LinesOf(n)
      <4> SUFFICES ASSUME NEW l \in ToSet(found) PROVE l \in LinesOf(n)  OBVIOUS
      <4>1. PICK k \in 1..(last - lo + 1) : l = found[k]  BY <3>f DEF ToSet
      <4> DEFINE p == lo + k - 1
      <4>2. p \in 1..N /\ p \in (other + 1)..last  BY <3>1, <4>1
      <4>3. l = Log[p]  BY <3>f, <4>1
      <4> HIDE DEF p
      <4>4. Log[p].turn = n  BY <3>f, <4>2
      <4> QED  BY <2>4, <4>2, <4>3, <4>4
    <3>4. \A i, j \in DOMAIN found : i < j => found[i].ts < found[j].ts
      <4> TAKE i, j \in DOMAIN found
      <4>1. i \in 1..(last - lo + 1) /\ j \in 1..(last - lo + 1)  BY <3>f
      <4>2. found[i].ts = lo + i - 1 /\ found[j].ts = lo + j - 1  BY <3>2, <4>1
      <4>3. i < j => lo + i - 1 < lo + j - 1  BY ONLY <4>1, lo \in Nat, last \in Nat
      <4> QED  BY <4>2, <4>3
    <3>5. ASSUME NEW l \in LinesOf(n) \ ToSet(found) PROVE Len(found) = 400 /\ l.ts < found[1].ts
      <4>1. PICK i \in 1..N : l = Log[i] /\ Log[i].turn = n  BY <2>4
      <4>2. i \in (other + 1)..last  BY <3>f, <4>1
      <4>3. i < lo
        <5> SUFFICES ASSUME ~(i < lo) PROVE FALSE  OBVIOUS
        <5> DEFINE k == i - lo + 1
        <5>1. k \in 1..(last - lo + 1) /\ lo + k - 1 = i  BY <4>2
        <5>2. l = found[k] /\ k \in DOMAIN found  BY <3>f, <4>1, <5>1
        <5> QED  BY <5>2 DEF ToSet
      <4>4. lo # other + 1  BY <4>2, <4>3
      <4>5. 1 \in 1..(last - lo + 1) /\ lo + 1 - 1 = lo  BY <3>f
      <4>6. found[1].ts = lo  BY <3>2, <4>5
      <4>7. l.ts = i  BY <2>2, <4>1
      <4> QED  BY <3>f, <4>3, <4>4, <4>6, <4>7
    <3> QED  BY <3>3, <3>4, <3>5
  <2>7. \/ found = <<>> /\ \A i \in 1..N : Log[i].turn # n
        \/ \E other, lo, last \in Nat : IsStretch(found, n, 400, other, lo, last)
    <3> DEFINE limit == 400
               m == Len(turns)
    <3>1. limit \in Nat \ {0} /\ m \in Nat /\ InOrder(Log, m) /\ n \in Nat  BY <2>1
    <3> HIDE DEF limit, m
    <3>2. \/ OfTurn(n, limit) = <<>> /\ \A i \in 1..Len(Log) : Log[i].turn # n
          \/ \E other, lo, last \in Nat : IsStretch(OfTurn(n, limit), n, limit, other, lo, last)
      BY <3>1, FoundIs
    <3> QED  BY <3>2 DEF limit
  <2>8. Good
    <3> HIDE DEF Good, found, N
    <3> QED  BY <2>5, <2>6, <2>7
  <2> QED  BY <2>8
<1> QED  BY <1>1, LogSoundAlways, PTL

------------------------------------------------------------------------------
(* What is paired with what *)

IsAnswer(l, forget) == Kept(l, forget) /\ l.role = "assistant"
\* A question, and the first that was answered after it.
Exchange(lines, forget, q, x) ==
  \E h, m \in 1..Len(lines) :
    /\ h < m /\ q = lines[h] /\ x = lines[m]
    /\ Kept(q, forget) /\ q.role = "user" /\ IsAnswer(x, forget)
    /\ \A j \in (h + 1)..(m - 1) : ~IsAnswer(lines[j], forget)
Alternate(lines, forget, pairs) ==
  /\ Len(pairs) % 2 = 0
  /\ \A i \in 1..Len(pairs) : i % 2 = 1 => Exchange(lines, forget, pairs[i], pairs[i + 1])
\* What is held after k lines is a question nothing was answered to.
Holds(lines, forget, held, k) ==
  \/ held = <<>>
  \/ \E h \in 1..k : /\ held = <<lines[h]>> /\ Kept(lines[h], forget) /\ lines[h].role = "user"
                     /\ \A j \in (h + 1)..k : ~IsAnswer(lines[j], forget)
PairState(S) == [pairs : Seq(S), held : Seq(S), last : Seq({l.text : l \in S})]
Step(w, l, forget) == IF Kept(l, forget) THEN PairUp(w, l) ELSE w

\* Pairing takes up a line at a time, and leaves pairs of lines,
LEMMA StepTyped ==
  ASSUME NEW S, NEW w \in PairState(S), NEW l \in S, NEW forget
  PROVE  Step(w, l, forget) \in PairState(S)
<1> DEFINE T == {y.text : y \in S}
<1>1. w.pairs \in Seq(S) /\ w.held \in Seq(S) /\ w.last \in Seq(T)  BY DEF PairState
<1>2. <<>> \in Seq(S) /\ <<l>> \in Seq(S)  OBVIOUS
<1>3. l.text \in T  OBVIOUS
<1> HIDE DEF T
<1>4. <<l.text>> \in Seq(T)  BY <1>3
<1>5. [w EXCEPT !.held = <<l>>] \in PairState(S) /\ [w EXCEPT !.held = <<>>] \in PairState(S)
  BY <1>2 DEF PairState
<1>6. ASSUME w.held # <<>>
      PROVE  [pairs |-> Append(Append(w.pairs, Head(w.held)), l), held |-> <<>>, last |-> <<l.text>>] \in PairState(S)
  <2>1. Head(w.held) \in S  BY <1>1, <1>6, HeadTailProperties
  <2>2. Append(w.pairs, Head(w.held)) \in Seq(S)  BY <1>1, <2>1, AppendProperties
  <2>3. Append(Append(w.pairs, Head(w.held)), l) \in Seq(S)  BY <2>2, AppendProperties
  <2> QED  BY <1>2, <1>4, <2>3 DEF PairState, T
<1> QED  BY <1>5, <1>6 DEF Step, PairUp

\* which alternate question and first answer, when they did, with the last unanswered question held.
LEMMA StepPairs ==
  ASSUME NEW S, NEW lines \in Seq(S), NEW forget, NEW w \in PairState(S), NEW k \in 1..Len(lines),
         Alternate(lines, forget, w.pairs), Holds(lines, forget, w.held, k - 1)
  PROVE  /\ Alternate(lines, forget, Step(w, lines[k], forget).pairs)
         /\ Holds(lines, forget, Step(w, lines[k], forget).held, k)
<1> DEFINE l == lines[k]
           v == Step(w, l, forget)
           N == Len(lines)
<1>1. l \in S /\ N \in Nat  BY ElementOfSeq, LenProperties
<1>2. w.pairs \in Seq(S) /\ w.held \in Seq(S)  BY DEF PairState
<1>3. w = [pairs |-> w.pairs, held |-> w.held, last |-> w.last]  BY DEF PairState
<1>k. k \in Nat \ {0} /\ k \in 1..N  BY <1>1
<1> HIDE DEF N
\* What was held is held on past a line that answers nothing.
<1>4. ASSUME ~IsAnswer(l, forget) PROVE Holds(lines, forget, w.held, k)
  <2>1. CASE w.held = <<>>  BY <2>1 DEF Holds
  <2>2. CASE w.held # <<>>
    <3>1. PICK h \in 1..(k - 1) : /\ w.held = <<lines[h]>> /\ Kept(lines[h], forget) /\ lines[h].role = "user"
                                  /\ \A j \in (h + 1)..(k - 1) : ~IsAnswer(lines[j], forget)
      BY <2>2 DEF Holds
    <3>2. h \in 1..k  BY <1>k
    <3>3. \A j \in (h + 1)..k : ~IsAnswer(lines[j], forget)
      <4> TAKE j \in (h + 1)..k
      <4>1. j = k \/ j \in (h + 1)..(k - 1)  BY <1>k
      <4> QED  BY <1>4, <3>1, <4>1
    <3> QED  BY <3>1, <3>2, <3>3 DEF Holds
  <2> QED  BY <2>1, <2>2
<1>5. Holds(lines, forget, <<>>, k)  BY DEF Holds
<1>6. CASE ~Kept(l, forget)
  <2>1. v = w /\ ~IsAnswer(l, forget)  BY <1>6 DEF Step, IsAnswer
  <2> QED  BY <1>4, <2>1
<1>7. CASE Kept(l, forget) /\ l.role = "user"
  <2>1. v = [w EXCEPT !.held = <<l>>]  BY <1>7 DEF Step, PairUp
  <2>2. v.pairs = w.pairs /\ v.held = <<l>>  BY <1>3, <2>1
  <2>3. Holds(lines, forget, <<l>>, k)
    <3>1. k \in 1..k  BY <1>k
    <3>2. \A j \in (k + 1)..k : ~IsAnswer(lines[j], forget)  BY <1>k
    <3> QED  BY <1>7, <3>1, <3>2 DEF Holds
  <2> QED  BY <2>2, <2>3
<1>8. CASE Kept(l, forget) /\ l.role # "user"
  <2>1. IsAnswer(l, forget)  BY <1>8 DEF IsAnswer, Kept, Speaks
  <2>2. CASE w.held = <<>>
    <3>1. v = w  BY <1>8, <2>2 DEF Step, PairUp
    <3> QED  BY <1>5, <2>2, <3>1
  <2>3. CASE w.held # <<>> /\ w.last = <<l.text>>
    <3>1. v = [w EXCEPT !.held = <<>>]  BY <1>8, <2>3 DEF Step, PairUp
    <3>2. v.pairs = w.pairs /\ v.held = <<>>  BY <1>3, <3>1
    <3> QED  BY <1>5, <3>2
  <2>4. CASE w.held # <<>> /\ w.last # <<l.text>>
    <3> DEFINE q == Head(w.held)
               p1 == Append(w.pairs, q)
               p2 == Append(p1, l)
               n == Len(w.pairs)
    <3>1. v = [pairs |-> p2, held |-> <<>>, last |-> <<l.text>>]  BY <1>8, <2>4 DEF Step, PairUp
    <3>2. v.pairs = p2 /\ v.held = <<>>
      <4> DEFINE tl == <<l.text>>
      <4> HIDE DEF p2, v, tl
      <4>1. v = [pairs |-> p2, held |-> <<>>, last |-> tl]  BY <3>1 DEF tl
      <4> QED  BY <4>1
    <3>3. PICK h \in 1..(k - 1) : /\ w.held = <<lines[h]>> /\ Kept(lines[h], forget) /\ lines[h].role = "user"
                                  /\ \A j \in (h + 1)..(k - 1) : ~IsAnswer(lines[j], forget)
      BY <2>4 DEF Holds
    <3>4. q = lines[h]  BY <3>3
    <3>5. Exchange(lines, forget, q, l)
      <4>1. h \in 1..N /\ h < k  BY <1>1, <1>k
      <4> QED  BY <1>k, <2>1, <3>3, <3>4, <4>1 DEF Exchange, N
    <3>6. q \in S  BY <1>2, <2>4, HeadTailProperties
    <3>7. n \in Nat /\ n % 2 = 0 /\ \A i \in 1..n : i % 2 = 1 => Exchange(lines, forget, w.pairs[i], w.pairs[i + 1])
      BY <1>2, LenProperties DEF Alternate
    <3>8. p1 \in Seq(S) /\ Len(p1) = n + 1 /\ p1[n + 1] = q /\ \A i \in 1..n : p1[i] = w.pairs[i]
      BY <1>2, <3>6, AppendProperties
    <3> HIDE DEF p1, n, q
    <3>9. p2 \in Seq(S) /\ Len(p2) = n + 2 /\ p2[n + 2] = l /\ \A i \in 1..(n + 1) : p2[i] = p1[i]
      <4> DEFINE z == n + 1
      <4>1. Len(p1) = z /\ z \in Nat  BY <3>7, <3>8
      <4> HIDE DEF z
      <4>2. p2 \in Seq(S) /\ Len(p2) = z + 1 /\ p2[z + 1] = l /\ \A i \in 1..z : p2[i] = p1[i]
        BY <1>1, <3>8, <4>1, AppendProperties
      <4>3. z + 1 = n + 2  BY <3>7 DEF z
      <4> QED  BY <4>2, <4>3 DEF z
    <3> HIDE DEF p2
    <3>n. n \in Nat /\ n % 2 = 0  BY <3>7
    <3>10. (n + 2) % 2 = 0  BY ONLY <3>n
    <3>11. ASSUME NEW i \in 1..(n + 2), i % 2 = 1 PROVE Exchange(lines, forget, p2[i], p2[i + 1])
      <4>1. i = n + 1 \/ (i \in 1..n /\ i + 1 \in 1..n)  BY ONLY <3>n, <3>11
      <4>2. CASE i = n + 1
        <5>1. p2[i] = q /\ p2[i + 1] = l
          <6>1. n + 1 \in 1..(n + 1) /\ (n + 1) + 1 = n + 2  BY ONLY <3>n
          <6> QED  BY <3>8, <3>9, <4>2, <6>1
        <5> QED  BY <3>5, <5>1
      <4>3. CASE i \in 1..n /\ i + 1 \in 1..n
        <5>1. i \in 1..(n + 1) /\ i + 1 \in 1..(n + 1)  BY ONLY <3>n, <4>3
        <5>2. p2[i] = w.pairs[i] /\ p2[i + 1] = w.pairs[i + 1]  BY <3>8, <3>9, <4>3, <5>1
        <5> QED  BY <3>7, <3>11, <4>3, <5>2
      <4> QED  BY <4>1, <4>2, <4>3
    <3>12. Alternate(lines, forget, p2)  BY <3>9, <3>10, <3>11 DEF Alternate
    <3> QED  BY <1>5, <3>2, <3>12
  <2> QED  BY <2>2, <2>3, <2>4
<1> QED  BY <1>6, <1>7, <1>8

\* What comes of pairing the lines of a conversation.
LEMMA PairedIs ==
  ASSUME NEW S, NEW lines \in Seq(S), NEW forget
  PROVE  Paired(lines, forget).pairs \in Seq(S) /\ Alternate(lines, forget, Paired(lines, forget).pairs)
<1> DEFINE X == PairState(S)
           n == Len(lines)
           Op(w, l) == Step(w, l, forget)
           G == [p \in X \X (1..n) |-> Op(p[1], lines[p[2]])]
           H(it) == [T \in SUBSET (1..n) |-> IF T = {} THEN NothingPaired ELSE Op(it[T \ {Max(T)}], lines[Max(T)])]
           Folds(it) == it = H(it)
           f == CHOOSE it : Folds(it)
<1>n. n \in Nat /\ \A k \in 1..n : lines[k] \in S  BY LenProperties, ElementOfSeq
<1>d. DOMAIN lines = 1..n  BY LenProperties
<1>b. NothingPaired \in X
  <2> DEFINE T == {l.text : l \in S}
  <2> HIDE DEF T
  <2>1. <<>> \in Seq(S) /\ <<>> \in Seq(T)  BY EmptySeq
  <2> QED  BY <2>1 DEF NothingPaired, PairState, T
<1>c. \A x \in X, k \in 1..n : Op(x, lines[k]) \in X  BY <1>n, StepTyped
<1> HIDE DEF X
<1>1. Paired(lines, forget) = f[1..n]  BY <1>d DEF Paired, FoldLeft, MapThenFoldSet, Step
<1> HIDE DEF Op, n
<1>2. \A x \in X, k \in 1..n : G[<<x, k>>] = Op(x, lines[k])  OBVIOUS
<1>3. G \in [X \X (1..n) -> X]  BY <1>c
<1> HIDE DEF G
<1>4. PICK it \in [SUBSET (1..n) -> X] : Climbs(it, n, NothingPaired, G)  BY <1>n, <1>b, <1>3, ClimbExists DEF Climbable
<1>5. \A T \in SUBSET (1..n) : T # {} => T \ {Max(T)} \in SUBSET (1..n) /\ Max(T) \in 1..n
  <2> TAKE T \in SUBSET (1..n)
  <2>1. T \subseteq 0..n  BY <1>n
  <2> QED  BY <1>n, <2>1, MaxOf
<1>6. Folds(it)
  <2>1. \A T \in SUBSET (1..n) : T # {} => G[<<it[T \ {Max(T)}], Max(T)>>] = Op(it[T \ {Max(T)}], lines[Max(T)])
    BY <1>2, <1>5
  <2> QED  BY <1>4, <2>1 DEF Climbs
<1>7. Folds(f)
  <2> HIDE DEF Folds
  <2> QED  BY <1>6
<1> HIDE DEF f
<1>8. StepsAlong(f, X, n, NothingPaired, G)
  <2>1. f[{}] = NothingPaired  BY <1>7
  <2>2. ASSUME NEW k \in 1..n, f[1..(k - 1)] \in X PROVE f[1..k] = G[<<f[1..(k - 1)], k>>]
    <3>1. k \in Nat \ {0} /\ 1..k \in SUBSET (1..n)  BY <1>n
    <3>2. (1..k) # {} /\ Max(1..k) = k /\ (1..k) \ {k} = 1..(k - 1)  BY <3>1, FirstPlaces
    <3>3. f[1..k] = Op(f[1..(k - 1)], lines[k])  BY <1>7, <3>1, <3>2
    <3> QED  BY <3>3, <2>2, <1>2
  <2> QED  BY <2>1, <2>2 DEF StepsAlong
<1> DEFINE a == Trace(f, n)
<1>9. IsPath(a, X, n, NothingPaired, G)  BY <1>n, <1>b, <1>3, <1>8, PathOf
<1>10. a[n] = f[1..n]  BY <1>n DEF Trace
<1> HIDE DEF a
<1>11. a[0] = NothingPaired /\ \A k \in 0..n : a[k] \in X  BY <1>9 DEF IsPath
<1>12. \A k \in 1..n : a[k] = Step(a[k - 1], lines[k], forget)
  <2> TAKE k \in 1..n
  <2>1. k - 1 \in 0..n  BY <1>n
  <2>2. a[k] = G[<<a[k - 1], k>>]  BY <1>9 DEF IsPath
  <2>3. G[<<a[k - 1], k>>] = Op(a[k - 1], lines[k])  BY <1>2, <1>11, <2>1
  <2> QED  BY <2>2, <2>3 DEF Op
<1> DEFINE K == {k \in Nat : k <= n => Alternate(lines, forget, a[k].pairs) /\ Holds(lines, forget, a[k].held, k)}
<1>13. 0 \in K
  <2>1. a[0].pairs = <<>> /\ a[0].held = <<>>  BY <1>11 DEF NothingPaired
  <2>2. Len(<<>>) = 0  OBVIOUS
  <2>3. Alternate(lines, forget, <<>>)
    <3> DEFINE z == <<>>
    <3>1. Len(z) = 0  BY <2>2
    <3> HIDE DEF z
    <3>2. Alternate(lines, forget, z)  BY <3>1 DEF Alternate
    <3> QED  BY <3>2 DEF z
  <2>4. Holds(lines, forget, <<>>, 0)  BY DEF Holds
  <2> QED  BY <2>1, <2>3, <2>4
<1>14. \A k \in Nat : k \in K => k + 1 \in K
  <2> TAKE k \in Nat
  <2> SUFFICES ASSUME k \in K, k + 1 <= n
               PROVE  Alternate(lines, forget, a[k + 1].pairs) /\ Holds(lines, forget, a[k + 1].held, k + 1)
    OBVIOUS
  <2> DEFINE w == a[k]
             m == k + 1
  <2>1. m \in 1..Len(lines) /\ m - 1 = k /\ k \in 0..n /\ m \in 1..n  BY <1>n DEF n
  <2>2. w \in PairState(S)  BY <1>11, <2>1 DEF X
  <2>3. Alternate(lines, forget, w.pairs) /\ Holds(lines, forget, w.held, m - 1)  BY <1>n, <2>1
  <2>4. a[m] = Step(w, lines[m], forget)  BY <1>12, <2>1
  <2> HIDE DEF w, m
  <2>5. Alternate(lines, forget, Step(w, lines[m], forget).pairs) /\ Holds(lines, forget, Step(w, lines[m], forget).held, m)
    BY <2>1, <2>2, <2>3, StepPairs
  <2> QED  BY <2>4, <2>5 DEF m
<1> HIDE DEF K
<1>15. n \in K  BY <1>n, <1>13, <1>14, CountingUp
<1>16. Alternate(lines, forget, a[n].pairs) /\ a[n] \in PairState(S)
  <2>1. n \in 0..n /\ n <= n  BY <1>n
  <2> QED  BY <1>11, <1>15, <2>1 DEF K, X
<1>17. a[n].pairs \in Seq(S)  BY <1>16 DEF PairState
<1> QED  BY <1>1, <1>10, <1>16, <1>17

\* The last of a sequence.
LEMMA TailOf ==
  ASSUME NEW S, NEW s \in Seq(S), NEW n \in Nat
  PROVE  \E d \in 0..Len(s) : /\ LastOf(s, n) \in Seq(S) /\ Len(LastOf(s, n)) = Len(s) - d
                              /\ \A k \in 1..(Len(s) - d) : LastOf(s, n)[k] = s[d + k]
                              /\ d = 0 \/ Len(s) - d = n
<1> DEFINE N == Len(s)
           a == IF N > n THEN N - n + 1 ELSE 1
           d == a - 1
           u == LastOf(s, n)
<1>1. N \in Nat  BY LenProperties
<1>2. u = SubSeq(s, a, N)  BY DEF LastOf
<1> HIDE DEF N
<1>3. a \in Nat \ {0} /\ a <= N + 1 /\ N \in 0..N /\ (a = 1 \/ N - (a - 1) = n)  BY ONLY <1>1, n \in Nat
<1> HIDE DEF a
<1>4. SubSeq(s, a, N) \in Seq(S) /\ Len(SubSeq(s, a, N)) = N - a + 1
      /\ \A i \in 1..(N - a + 1) : SubSeq(s, a, N)[i] = s[a + i - 1]
  BY <1>3, PartOf DEF N
<1>5. d \in 0..N /\ N - a + 1 = N - d /\ (d = 0 \/ N - d = n) /\ \A i \in 1..(N - d) : a + i - 1 = d + i
  BY ONLY <1>1, <1>3 DEF d
<1> HIDE DEF d, u
<1>6. u \in Seq(S) /\ Len(u) = N - d /\ \A k \in 1..(N - d) : u[k] = s[d + k]  BY <1>2, <1>4, <1>5
<1> QED  BY <1>5, <1>6 DEF N, u

\* An exchange found in the last part of a conversation is one of the whole.
LEMMA ExchangeOfAll ==
  ASSUME NEW g, NEW d \in Nat, NEW N \in Nat, d <= N, NEW lines, Len(g) = N, Len(lines) = N - d,
         \A k \in 1..(N - d) : lines[k] = g[d + k],
         NEW forget, NEW q, NEW x, Exchange(lines, forget, q, x)
  PROVE  Exchange(g, forget, q, x)
<1>1. PICK h, m \in 1..(N - d) :
        /\ h < m /\ q = lines[h] /\ x = lines[m]
        /\ Kept(q, forget) /\ q.role = "user" /\ IsAnswer(x, forget)
        /\ \A j \in (h + 1)..(m - 1) : ~IsAnswer(lines[j], forget)
  BY DEF Exchange
<1> DEFINE a == d + h
           b == d + m
<1>2. a \in 1..N /\ b \in 1..N /\ a < b  BY <1>1
<1>3. q = g[a] /\ x = g[b]  BY <1>1
<1>4. ASSUME NEW j \in (a + 1)..(b - 1) PROVE ~IsAnswer(g[j], forget)
  <2> DEFINE i == j - d
  <2>1. i \in (h + 1)..(m - 1) /\ i \in 1..(N - d) /\ d + i = j  BY <1>1
  <2>2. lines[i] = g[j]
    <3> HIDE DEF i
    <3>1. lines[i] = g[d + i]  BY <2>1
    <3> QED  BY <2>1, <3>1
  <2> HIDE DEF i
  <2> QED  BY <1>1, <2>1, <2>2
<1> HIDE DEF a, b
<1> QED  BY <1>1, <1>2, <1>3, <1>4 DEF Exchange

\* Every message handed over is of an exchange, the question first.
LEMMA WindowIs ==
  ASSUME NEW S, Log \in Seq(S), NEW forget
  PROVE  /\ \A i \in DOMAIN RestoreWindow(forget) : i % 2 = 1 =>
              Exchange(Log, forget, RestoreWindow(forget)[i], RestoreWindow(forget)[i + 1])
         /\ \A i \in DOMAIN RestoreWindow(forget) :
              \E k \in 1..Len(Log) : RestoreWindow(forget)[i] = Log[k] /\ Kept(Log[k], forget)
<1> DEFINE lines == Latest(Window * 4)
           pairs == Paired(lines, forget).pairs
           even == Window - (Window % 2)
           w == RestoreWindow(forget)
           g == Log
<1>1. Window \in Nat \ {0}  BY MindAssumption DEF MindAssumption
<1>2. Window * 4 \in Nat /\ even \in Nat /\ even % 2 = 0  BY ONLY <1>1 DEF even
<1>3. lines = LastOf(g, Window * 4) /\ w = LastOf(pairs, even)  BY DEF Latest, RestoreWindow
<1> DEFINE W4 == Window * 4
<1> HIDE DEF lines, even, w, g, W4
<1>g. g \in Seq(S) /\ W4 \in Nat /\ lines = LastOf(g, W4)  BY <1>2, <1>3 DEF g, W4
<1>4. PICK d \in 0..Len(g) : /\ LastOf(g, W4) \in Seq(S) /\ Len(LastOf(g, W4)) = Len(g) - d
                             /\ \A k \in 1..(Len(g) - d) : LastOf(g, W4)[k] = g[d + k]
                             /\ d = 0 \/ Len(g) - d = W4
  BY <1>g, TailOf
<1>5. lines \in Seq(S)  BY <1>g, <1>4
<1>6. pairs \in Seq(S) /\ Alternate(lines, forget, pairs)  BY <1>5, PairedIs
<1> HIDE DEF pairs
<1>7. PICK c \in 0..Len(pairs) : /\ LastOf(pairs, even) \in Seq(S) /\ Len(LastOf(pairs, even)) = Len(pairs) - c
                                 /\ \A k \in 1..(Len(pairs) - c) : LastOf(pairs, even)[k] = pairs[c + k]
                                 /\ c = 0 \/ Len(pairs) - c = even
  BY <1>2, <1>6, TailOf
<1> DEFINE M == Len(pairs)
           N == Len(g)
<1>8. M \in Nat /\ M % 2 = 0 /\ N \in Nat /\ d \in Nat /\ d <= N
  BY <1>6, <1>g, LenProperties DEF Alternate
<1>9. DOMAIN w = 1..(M - c) /\ \A k \in 1..(M - c) : w[k] = pairs[c + k]
  <2>1. w \in Seq(S) /\ Len(w) = M - c  BY <1>3, <1>7
  <2> QED  BY <1>3, <1>7, <2>1, LenProperties
<1>10. \A i \in 1..M : i % 2 = 1 => Exchange(g, forget, pairs[i], pairs[i + 1])
  <2> TAKE i \in 1..M
  <2> SUFFICES ASSUME i % 2 = 1 PROVE Exchange(g, forget, pairs[i], pairs[i + 1])  OBVIOUS
  <2>1. Exchange(lines, forget, pairs[i], pairs[i + 1])  BY <1>6 DEF Alternate
  <2>2. Len(lines) = N - d /\ \A k \in 1..(N - d) : lines[k] = g[d + k]  BY <1>g, <1>4
  <2> DEFINE q == pairs[i]
             x == pairs[i + 1]
  <2> HIDE DEF q, x, N
  <2>3. Exchange(lines, forget, q, x)  BY <2>1 DEF q, x
  <2>4. Len(g) = N  BY DEF N
  <2>5. Exchange(g, forget, q, x)  BY <1>8, <2>2, <2>3, <2>4, ExchangeOfAll
  <2> QED  BY <2>5 DEF q, x
<1>11. c \in 0..M /\ c % 2 = 0
  <2>1. c \in 0..M /\ (c = 0 \/ M - c = even)  BY <1>7
  <2>2. M \in Nat /\ M % 2 = 0 /\ even \in Nat /\ even % 2 = 0  BY <1>2, <1>8
  <2> HIDE DEF M
  <2> QED  BY ONLY <2>1, <2>2
<1>m. M \in Nat /\ M % 2 = 0  BY <1>8
<1> HIDE DEF M, N
<1>12. ASSUME NEW i \in 1..(M - c), i % 2 = 1 PROVE Exchange(g, forget, w[i], w[i + 1])
  <2>1. c + i \in 1..M /\ (c + i) % 2 = 1 /\ i + 1 \in 1..(M - c) /\ c + (i + 1) = (c + i) + 1
    BY ONLY <1>m, <1>11, <1>12
  <2>2. w[i] = pairs[c + i] /\ w[i + 1] = pairs[c + (i + 1)]  BY <1>9, <2>1
  <2>3. Exchange(g, forget, pairs[c + i], pairs[(c + i) + 1])  BY <1>10, <2>1
  <2> QED  BY <2>1, <2>2, <2>3
<1>13. ASSUME NEW i \in 1..(M - c) PROVE \E k \in 1..Len(g) : w[i] = g[k] /\ Kept(g[k], forget)
  <2>1. CASE i % 2 = 1
    <3>1. Exchange(g, forget, w[i], w[i + 1])  BY <1>12, <2>1
    <3> QED  BY <3>1 DEF Exchange
  <2>2. CASE i % 2 # 1
    <3>1. i - 1 \in 1..(M - c) /\ (i - 1) % 2 = 1 /\ (i - 1) + 1 = i  BY ONLY <1>m, <1>11, <2>2, i \in 1..(M - c)
    <3>2. Exchange(g, forget, w[i - 1], w[(i - 1) + 1])  BY <1>12, <3>1
    <3>3. Exchange(g, forget, w[i - 1], w[i])  BY <3>1, <3>2
    <3> QED  BY <3>3 DEF Exchange, IsAnswer
  <2> QED  BY <2>1, <2>2
<1> QED  BY <1>9, <1>12, <1>13 DEF g, w

\* No answer of a turn stands in a conversation.
NoAnswer(g, n) == \A j \in 1..Len(g) : ~(g[j].turn = n /\ g[j].role = "assistant" /\ Speaks(g[j]))
IsWhole(g, q, x) == q.role = "user" /\ x.role = "assistant" /\ (q.turn = x.turn \/ NoAnswer(g, q.turn))
\* What a process was handed is of turns that ended well, each question with its answer.
HandedWhole ==
  proc # NoProc =>
    /\ Carries
    /\ \A i \in DOMAIN proc.window : /\ proc.window[i].turn \in 1..Len(turns)
                                     /\ turns[proc.window[i].turn].outcome = "ok"
    /\ \A i \in DOMAIN proc.window : i % 2 = 1 => IsWhole(Log, proc.window[i], proc.window[i + 1])

\* A question pairs with an answer of its own turn, unless it has none.
LEMMA ExchangeIsWhole ==
  ASSUME NEW n \in Nat, InOrder(Log, n), NEW forget, NEW q, NEW x, Exchange(Log, forget, q, x)
  PROVE  IsWhole(Log, q, x)
<1> DEFINE N == Len(Log)
<1>1. PICK h, m \in 1..N :
        /\ h < m /\ q = Log[h] /\ x = Log[m]
        /\ Kept(q, forget) /\ q.role = "user" /\ IsAnswer(x, forget)
        /\ \A j \in (h + 1)..(m - 1) : ~IsAnswer(Log[j], forget)
  BY DEF Exchange
<1>2. N \in Nat
  <2>1. PICK S : Log \in Seq(S)  BY DEF InOrder
  <2> QED  BY <2>1, LenProperties
<1>3. \A i \in 1..N : Log[i].turn \in Nat  BY DEF InOrder
<1>4. \A i, j \in 1..N : i < j => /\ Log[i].turn <= Log[j].turn
                                  /\ Log[j].role = "user" => Log[i].turn < Log[j].turn
  BY DEF InOrder
<1> HIDE DEF N
<1>5. ASSUME q.turn # x.turn, NEW j \in 1..N, Log[j].turn = q.turn, Log[j].role = "assistant", Speaks(Log[j]) PROVE FALSE
  <2> DEFINE a == q.turn
             b == x.turn
             y == Log[j].turn
  <2>1. a \in Nat /\ b \in Nat /\ y = a /\ a # b /\ a <= b  BY <1>1, <1>3, <1>4, <1>5
  <2>2. IsAnswer(Log[j], forget)  BY <1>1, <1>5 DEF IsAnswer, Kept
  <2>3. j # h  BY <1>1, <1>5
  <2>4. j < h => y < a  BY <1>1, <1>4
  <2>5. m < j => b <= y  BY <1>1, <1>4
  <2>6. j = m => y = b  BY <1>1
  <2>7. ~(j \in (h + 1)..(m - 1))  BY <1>1, <2>2
  <2> HIDE DEF a, b, y
  <2>8. j \in 1..N /\ h \in 1..N /\ m \in 1..N  OBVIOUS
  <2> QED  BY ONLY <1>2, <2>1, <2>3, <2>4, <2>5, <2>6, <2>7, <2>8
<1>6. q.turn = x.turn \/ NoAnswer(Log, q.turn)  BY <1>5 DEF NoAnswer, N
<1> QED  BY <1>1, <1>6 DEF IsWhole, IsAnswer

\* Every step keeps it so: a window is made only by a claim, and what is written later is behind all
\* that was read.
LEMMA HandedWholeKept ==
  ASSUME LogSound, HandedWhole, [Next]_vars
  PROVE  HandedWhole'
<1>1. TurnsTyped /\ InOrder(Log, This)  BY DEF LogSound, This
<1>2. Len(turns') \in {This, This + 1} /\ This \in Nat
      /\ \A n \in 1..This : turns[n].outcome = "ok" => turns'[n].outcome = "ok"
  BY <1>1, StepTurns
<1>3. \A n \in 1..This : n \in 1..Len(turns')  BY <1>2
\* A turn that ended well is given no answer any more.
<1>4. ASSUME NEW n \in 1..This, turns[n].outcome = "ok", NoAnswer(Log, n) PROVE NoAnswer(Log', n)
  <2>1. CASE Log' = Log  BY <1>4, <2>1 DEF NoAnswer
  <2>2. ASSUME NEW l, Says(l), Log' = Append(Log, Stamped(l)) PROVE NoAnswer(Log', n)
    <3> DEFINE x == Stamped(l)
               N == Len(Log)
    <3>1. x.turn = Len(turns') /\ x.role = l.role /\ (l.role = "user" \/ (Open /\ Len(turns') = This))
      BY <2>2, SaidIs DEF Says
    <3>2. ~(x.turn = n /\ x.role = "assistant")
      <4> SUFFICES ASSUME x.turn = n, x.role = "assistant" PROVE FALSE  OBVIOUS
      <4>1. l.role # "user"  BY <3>1
      <4>2. Open /\ n = This  BY <3>1, <4>1
      <4>3. turns[This].outcome = ""  BY <1>1, <4>2 DEF TurnsTyped
      <4> QED  BY <1>4, <4>2, <4>3
    <3> HIDE DEF x
    <3>3. Len(Log') = N + 1 /\ N \in Nat /\ Log'[N + 1] = x /\ \A i \in 1..N : Log'[i] = Log[i]
      <4>1. PICK S : Log \in Seq(S)  BY <1>1 DEF InOrder
      <4> DEFINE Q == S \cup {x}
                 g == Log
      <4>2. g \in Seq(Q) /\ x \in Q
        <5>1. \A i \in 1..Len(g) : g[i] \in Q  BY <4>1, ElementOfSeq
        <5>2. g \in [1..Len(g) -> Q] /\ Len(g) \in Nat  BY <4>1, <5>1, LenProperties
        <5> QED  BY <5>2 DEF Seq
      <4> HIDE DEF Q, g
      <4>3. Len(Append(g, x)) = Len(g) + 1 /\ Len(g) \in Nat /\ Append(g, x)[Len(g) + 1] = x
            /\ \A i \in 1..Len(g) : Append(g, x)[i] = g[i]
        BY <4>2, AppendProperties, LenProperties
      <4> QED  BY <2>2, <4>3 DEF g, x
    <3>4. \A j \in 1..N : ~(Log[j].turn = n /\ Log[j].role = "assistant" /\ Speaks(Log[j]))  BY <1>4 DEF NoAnswer
    <3> HIDE DEF N
    <3>5. ASSUME NEW j \in 1..(N + 1) PROVE ~(Log'[j].turn = n /\ Log'[j].role = "assistant" /\ Speaks(Log'[j]))
      <4>1. j = N + 1 \/ j \in 1..N  BY <3>3
      <4> QED  BY <3>2, <3>3, <3>4, <4>1
    <3> QED  BY <3>3, <3>5 DEF NoAnswer, Speaks
  <2> QED  BY <2>1, <2>2, StepOfLog
<1>5. CASE proc' = NoProc  BY <1>5 DEF HandedWhole
<1>6. ASSUME proc # NoProc, {"turn", "window"} \subseteq DOMAIN proc', proc'.window = proc.window PROVE HandedWhole'
  <2>1. /\ \A i \in DOMAIN proc.window : /\ proc.window[i].turn \in 1..This
                                         /\ turns[proc.window[i].turn].outcome = "ok"
        /\ \A i \in DOMAIN proc.window : i % 2 = 1 => IsWhole(Log, proc.window[i], proc.window[i + 1])
    BY <1>6 DEF HandedWhole, This
  <2>2. ASSUME NEW i \in DOMAIN proc.window
        PROVE  proc.window[i].turn \in 1..Len(turns') /\ turns'[proc.window[i].turn].outcome = "ok"
    BY <1>2, <1>3, <2>1
  <2>3. ASSUME NEW i \in DOMAIN proc.window, i % 2 = 1 PROVE IsWhole(Log', proc.window[i], proc.window[i + 1])
    <3> DEFINE n == proc.window[i].turn
    <3>1. n \in 1..This /\ turns[n].outcome = "ok"  BY <2>1
    <3>2. IsWhole(Log, proc.window[i], proc.window[i + 1])  BY <2>1, <2>3
    <3>3. NoAnswer(Log, n) => NoAnswer(Log', n)
      <4> HIDE DEF n
      <4> QED  BY <1>4, <3>1
    <3> QED  BY <1>6, <3>2, <3>3 DEF IsWhole
  <2> QED  BY <1>6, <2>2, <2>3 DEF HandedWhole, Carries
<1>7. CASE proc' = proc
  <2>1. CASE proc = NoProc  BY <1>5, <1>7, <2>1
  <2>2. CASE proc # NoProc
    <3>1. {"turn", "window"} \subseteq DOMAIN proc'  BY <1>7, <2>2 DEF HandedWhole, Carries
    <3> QED  BY <1>6, <1>7, <2>2, <3>1
  <2> QED  BY <2>1, <2>2
<1>8. CASE GoesOn  BY <1>6, <1>8 DEF GoesOn
<1>9. CASE Claimed
  <2> DEFINE w == RestoreWindow(ToForget)
  <2>1. proc'.window = w /\ {"turn", "window"} \subseteq DOMAIN proc' /\ turns' = turns /\ files' = files
    BY <1>9 DEF Claimed, journalVars
  <2>2. Log' = Log  BY <2>1, LogWillBe
  <2>3. PICK S : Log \in Seq(S)  BY <1>1 DEF InOrder
  <2>4. /\ \A i \in DOMAIN w : i % 2 = 1 => Exchange(Log, ToForget, w[i], w[i + 1])
        /\ \A i \in DOMAIN w : \E k \in 1..Len(Log) : w[i] = Log[k] /\ Kept(Log[k], ToForget)
    BY <2>3, WindowIs
  <2> HIDE DEF w
  <2>5. DOMAIN turns = 1..This
    <3>1. turns \in Seq(TurnRecord)  BY <1>1 DEF TurnsTyped
    <3> QED  BY <3>1, LenProperties DEF This
  <2>6. ASSUME NEW i \in DOMAIN w PROVE w[i].turn \in 1..This /\ turns[w[i].turn].outcome = "ok"
    <3>1. PICK k \in 1..Len(Log) : w[i] = Log[k] /\ Kept(Log[k], ToForget)  BY <2>4
    <3>2. Log[k].turn \in 1..This  BY <1>1 DEF InOrder
    <3>3. w[i].turn \in 1..This /\ w[i].turn \notin ToForget  BY <3>1, <3>2 DEF Kept
    <3> QED  BY <2>5, <3>3 DEF ToForget
  <2>7. ASSUME NEW i \in DOMAIN w, i % 2 = 1 PROVE IsWhole(Log, w[i], w[i + 1])
    <3> DEFINE q == w[i]
               x == w[i + 1]
               forget == ToForget
               n == This
    <3>1. Exchange(Log, forget, q, x) /\ n \in Nat /\ InOrder(Log, n)  BY <1>1, <1>2, <2>4, <2>7
    <3> HIDE DEF q, x, forget, n
    <3>2. IsWhole(Log, q, x)  BY <3>1, ExchangeIsWhole
    <3> QED  BY <3>2 DEF q, x
  <2>8. \A i \in DOMAIN w : i % 2 = 1 => IsWhole(Log', w[i], w[i + 1])  BY <2>2, <2>7
  <2> QED  BY <2>1, <2>6, <2>8 DEF HandedWhole, Carries, This
<1>10. proc = NoProc \/ Carries  BY DEF HandedWhole
<1> QED  BY <1>5, <1>7, <1>8, <1>9, <1>10, StepProc

\* What was handed over stays whole for good.
LEMMA HandedWholeAlways == Spec => []HandedWhole
<1>1. Init => HandedWhole  BY DEF Init, HandedWhole
<1>2. LogSound /\ HandedWhole /\ [Next]_vars => HandedWhole'  BY HandedWholeKept
<1> QED  BY <1>1, <1>2, LogSoundAlways, PTL DEF Spec

(***************************************************************************)
(* What a turn is shown of the conversation pairs each question with what  *)
(* was answered to it in the same turn, unless nothing ever was            *)
(* (hub.rs, restore_window_without).                                       *)
(***************************************************************************)
THEOREM ExchangesStayWhole == Spec => []ExchangesAreWhole
<1>1. HandedWhole /\ LogSound => ExchangesAreWhole
  <2> SUFFICES ASSUME HandedWhole, LogSound, Working, NEW i \in Pairs
               PROVE  /\ proc.window[i].role = "user" /\ proc.window[i + 1].role = "assistant"
                      /\ proc.window[i].turn = proc.window[i + 1].turn \/ Answers(proc.window[i].turn) = {}
    BY DEF ExchangesAreWhole
  <2>1. i \in DOMAIN proc.window /\ i % 2 = 1 /\ proc # NoProc  BY DEF Pairs, Working
  <2>2. IsWhole(Log, proc.window[i], proc.window[i + 1])  BY <2>1 DEF HandedWhole
  <2>3. DOMAIN Log = 1..Len(Log)
    <3>1. PICK S : Log \in Seq(S)  BY DEF LogSound, InOrder
    <3> QED  BY <3>1, LenProperties
  <2>4. ASSUME NEW n, NoAnswer(Log, n) PROVE Answers(n) = {}  BY <2>3, <2>4 DEF NoAnswer, Answers
  <2> QED  BY <2>2, <2>4 DEF IsWhole
<1> QED  BY <1>1, HandedWholeAlways, LogSoundAlways, PTL

(***************************************************************************)
(* A retry is not shown its own message as something said before, unless   *)
(* the attempt that said it ended well (hub.rs).                           *)
(***************************************************************************)
THEOREM NobodyIsAskedTwice == Spec => []AskedOnce
<1>1. HandedWhole => AskedOnce  BY DEF HandedWhole, AskedOnce, Working
<1> QED  BY <1>1, HandedWholeAlways, PTL
================================================================================
