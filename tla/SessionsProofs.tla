---------------------------- MODULE SessionsProofs ----------------------------
(* What TLC checks of Sessions on five messages, proved for any number of    *)
(* messages, windows and faults, with the step-by-step refinement of         *)
(* ConversationLog.                                                          *)
EXTENDS Sessions, SequenceTheorems, FiniteSetTheorems, WellFoundedInduction, TLAPS

-----------------------------------------------------------------------------
(* Induction over the natural numbers with a set in the place of a           *)
(* predicate, and the least element of a set of numbers.                     *)

Below == {p \in Nat \X Nat : p[1] < p[2]}

(* The order of the natural numbers has no infinite descent.                 *)
LEMMA BelowWellFounded == IsWellFoundedOn(Below, Nat)
  BY NatLessThanWellFounded, Zenon DEF OpToRel, Below

(* A set of natural numbers that is not empty has a least element.           *)
LEMMA Least ==
  ASSUME NEW T, T \subseteq Nat, T # {}
  PROVE  \E x \in T : \A y \in T : x <= y
<1>1. \E x \in T : \A y \in T : ~ (<<y, x>> \in Below)
  BY BelowWellFounded, WFMin
<1>2. ASSUME NEW x \in Nat, NEW y \in Nat PROVE <<y, x>> \in Below <=> ~(x <= y)
  BY DEF Below
<1> QED BY <1>1, <1>2

(* What holds of 0 and of the successor of every number it holds of, holds   *)
(* of every number.                                                          *)
LEMMA Induction ==
  ASSUME NEW S, 0 \in S, \A n \in Nat : n \in S => n + 1 \in S
  PROVE  Nat \subseteq S
<1> SUFFICES ASSUME ~(Nat \subseteq S) PROVE FALSE OBVIOUS
<1> DEFINE T == {n \in Nat : n \notin S}
<1>1. T \subseteq Nat /\ T # {} OBVIOUS
<1>2. PICK x \in T : \A y \in T : x <= y BY <1>1, Least
<1>3. x # 0 /\ x \in Nat OBVIOUS
<1>4. x - 1 \in Nat /\ ~(x <= x - 1) /\ x = (x - 1) + 1 BY <1>3
<1>5. x - 1 \in S BY <1>2, <1>4
<1> QED BY <1>4, <1>5

-----------------------------------------------------------------------------
(* Without: a sequence without the messages of a set.                        *)

(* Append under another name: the provers leave it as it is until they need  *)
(* what AddProperties says.                                                  *)
Add(q, e) == Append(q, e)

(* Concatenation under another name, for the same reason.                    *)
Cat(q, r) == q \o r

(* The elements of q, then e.                                                *)
Added(r, q, e) == /\ Len(r) = Len(q) + 1
                  /\ \A i \in 1..Len(q) : r[i] = q[i]
                  /\ r[Len(q) + 1] = e

(* Appending one element.                                                    *)
LEMMA AddProperties ==
  ASSUME NEW M, NEW q \in Seq(M), NEW e \in M, NEW r, r = Add(q, e)
  PROVE  r \in Seq(M) /\ Added(r, q, e)
  BY AppendProperties DEF Add, Added

(* The recursion that computes Without, up to the first n messages.          *)
Solves(f, s, gone, n) ==
    \A k \in 0..n : f[k] = IF k = 0 THEN <<>>
                          ELSE IF s[k] \in gone THEN f[k - 1]
                          ELSE Add(f[k - 1], s[k])

(* The same, by the empty and the next longer segment.                       *)
Unfolds(f, s, gone, n) ==
    /\ f[0] = <<>>
    /\ \A k \in Nat : k + 1 <= n =>
          f[k + 1] = IF s[k + 1] \in gone THEN f[k] ELSE Add(f[k], s[k + 1])

(* What the recursion says of the empty and of the next longer segment.      *)
LEMMA SolvesSteps ==
  ASSUME NEW f, NEW s, NEW gone, NEW n \in Nat, Solves(f, s, gone, n)
  PROVE  Unfolds(f, s, gone, n)
<1>1. f[0] = <<>> BY DEF Solves
<1>2. ASSUME NEW k \in Nat, k + 1 <= n
      PROVE  f[k + 1] = IF s[k + 1] \in gone THEN f[k] ELSE Add(f[k], s[k + 1])
  <2> DEFINE j == k + 1
  <2>1. j \in 0..n /\ j # 0 /\ j - 1 = k BY <1>2
  <2> HIDE DEF j
  <2>2. f[j] = IF s[j] \in gone THEN f[k] ELSE Add(f[k], s[j]) BY <2>1 DEF Solves
  <2> QED BY <2>2 DEF j
<1> QED BY <1>1, <1>2 DEF Unfolds

(* The recursion has a solution on every initial segment.                    *)
LEMMA Solvable ==
  ASSUME NEW M, NEW s \in Seq(M), NEW gone
  PROVE  \E f \in [0..Len(s) -> Seq(M)] : Solves(f, s, gone, Len(s))
<1> DEFINE S == {n \in Nat : n <= Len(s) => \E f \in [0..n -> Seq(M)] : Solves(f, s, gone, n)}
<1>1. 0 \in S
  <2> DEFINE f == [k \in 0..0 |-> <<>>]
  <2>1. f \in [0..0 -> Seq(M)] BY EmptySeq
  <2>2. Solves(f, s, gone, 0) BY DEF Solves
  <2> HIDE DEF f
  <2> QED BY <2>1, <2>2
<1>2. ASSUME NEW n \in Nat, n \in S PROVE n + 1 \in S
  <2> SUFFICES ASSUME n + 1 <= Len(s)
               PROVE  \E f \in [0..n + 1 -> Seq(M)] : Solves(f, s, gone, n + 1)
    <3> n + 1 \in Nat OBVIOUS
    <3> QED OBVIOUS
  <2>1. PICK g \in [0..n -> Seq(M)] : Solves(g, s, gone, n)
    <3> n <= Len(s) BY LenProperties
    <3> QED BY <1>2
  <2> DEFINE new == IF s[n + 1] \in gone THEN g[n] ELSE Add(g[n], s[n + 1])
             f == [k \in 0..n + 1 |-> IF k = n + 1 THEN new ELSE g[k]]
  <2>2. s[n + 1] \in M BY ElementOfSeq, LenProperties
  <2>3. new \in Seq(M)
    <3>1. g[n] \in Seq(M) OBVIOUS
    <3>2. Add(g[n], s[n + 1]) \in Seq(M) BY <2>2, <3>1, AddProperties
    <3> QED BY <3>1, <3>2
  <2>4. f \in [0..n + 1 -> Seq(M)] BY <2>3
  <2>5. Solves(f, s, gone, n + 1)
    <3> SUFFICES ASSUME NEW k \in 0..n + 1
                 PROVE  f[k] = IF k = 0 THEN <<>>
                               ELSE IF s[k] \in gone THEN f[k - 1]
                               ELSE Add(f[k - 1], s[k])
      BY DEF Solves
    <3>1. CASE k = n + 1
      <4>1. k # 0 /\ k - 1 = n /\ f[n] = g[n] /\ f[k] = new BY <3>1
      <4> QED BY <3>1, <4>1
    <3>2. CASE k # n + 1
      <4>1. k \in 0..n /\ f[k] = g[k] /\ (k # 0 => k - 1 \in 0..n /\ f[k - 1] = g[k - 1]) BY <3>2
      <4> HIDE DEF f, new
      <4> QED BY <2>1, <4>1 DEF Solves
    <3> QED BY <3>1, <3>2
  <2> HIDE DEF f
  <2> QED BY <2>4, <2>5
<1>3. Nat \subseteq S
  <2> HIDE DEF S
  <2> QED BY <1>1, <1>2, Induction
<1>4. Len(s) \in S BY <1>3, LenProperties
<1>5. Len(s) <= Len(s) BY LenProperties
<1> QED BY <1>4, <1>5

(* Without is the last value of a function that satisfies the recursion.     *)
LEMMA WithoutRecursion ==
  ASSUME NEW M, NEW s \in Seq(M), NEW gone
  PROVE  \E f \in [0..Len(s) -> Seq(M)] :
            Solves(f, s, gone, Len(s)) /\ Without(s, gone) = f[Len(s)]
<1>0. PICK g \in [0..Len(s) -> Seq(M)] : Solves(g, s, gone, Len(s))
  BY Solvable
<1> DEFINE F(f) == [k \in 0..Len(s) |-> IF k = 0 THEN <<>>
                                        ELSE IF s[k] \in gone THEN f[k - 1]
                                        ELSE Append(f[k - 1], s[k])]
           left == CHOOSE f : f = F(f)
<1>2. g = F(g) BY <1>0 DEF Solves, Add
<1>3. left = F(left) BY <1>2
<1>4. Without(s, gone) = left[Len(s)] BY Zenon DEF Without
<1> HIDE DEF left
<1>5. Solves(left, s, gone, Len(s)) BY <1>3 DEF Solves, Add
<1> HIDE DEF F
<1> DEFINE S == {n \in Nat : n <= Len(s) => left[n] = g[n]}
<1>6. Len(s) \in Nat BY LenProperties
<1>7. 0 \in S BY <1>0, <1>5, <1>6, SolvesSteps DEF Unfolds
<1>8. ASSUME NEW n \in Nat, n \in S PROVE n + 1 \in S
  <2> SUFFICES ASSUME n + 1 <= Len(s) PROVE left[n + 1] = g[n + 1]
    <3> n + 1 \in Nat OBVIOUS
    <3> QED OBVIOUS
  <2>1. g[n + 1] = IF s[n + 1] \in gone THEN g[n] ELSE Add(g[n], s[n + 1])
    BY <1>0, <1>6, SolvesSteps DEF Unfolds
  <2>2. left[n + 1] = IF s[n + 1] \in gone THEN left[n] ELSE Add(left[n], s[n + 1])
    BY <1>5, <1>6, SolvesSteps DEF Unfolds
  <2>3. left[n] = g[n] BY <1>6, <1>8
  <2> QED BY <2>1, <2>2, <2>3
<1>9. Nat \subseteq S
  <2> HIDE DEF S
  <2> QED BY <1>7, <1>8, Induction
<1>10. left[Len(s)] = g[Len(s)] BY <1>6, <1>9
<1> QED BY <1>0, <1>4, <1>10

(* The values of that function, one after the other.                         *)
Values(f, M, s, gone) ==
    /\ Without(s, gone) = f[Len(s)]
    /\ Unfolds(f, s, gone, Len(s))
    /\ \A k \in Nat : k <= Len(s) => f[k] \in Seq(M)

(* They exist for every sequence.                                            *)
LEMMA WithoutValues ==
  ASSUME NEW M, NEW s \in Seq(M), NEW gone
  PROVE  \E f : Values(f, M, s, gone)
<1>1. PICK f \in [0..Len(s) -> Seq(M)] : Solves(f, s, gone, Len(s)) /\ Without(s, gone) = f[Len(s)]
  BY WithoutRecursion
<1>2. Len(s) \in Nat BY LenProperties
<1> DEFINE n == Len(s)
<1>2a. n \in Nat /\ Solves(f, s, gone, n) BY <1>1, <1>2
<1> HIDE DEF n
<1>3. Unfolds(f, s, gone, n) BY <1>2a, SolvesSteps
<1>4. \A k \in Nat : k <= Len(s) => f[k] \in Seq(M) BY <1>1, <1>2
<1>5. Values(f, M, s, gone) BY <1>1, <1>3, <1>4 DEF Values, n
<1> QED BY <1>5

(* Appending to a concatenation appends to its second part.                  *)
LEMMA ConcatAppend ==
  ASSUME NEW M, NEW a \in Seq(M), NEW b \in Seq(M), NEW x \in M
  PROVE  Add(Cat(a, b), x) = Cat(a, Add(b, x))
<1>1. <<x>> \in Seq(M) OBVIOUS
<1> DEFINE ab == a \o b
<1>2. ab \in Seq(M) BY ConcatProperties
<1> HIDE DEF ab
<1>3. Add(ab, x) = ab \o <<x>> BY <1>2, AppendIsConcat DEF Add
<1>4. Add(b, x) = b \o <<x>> BY AppendIsConcat DEF Add
<1>5. (a \o b) \o <<x>> = a \o (b \o <<x>>) BY <1>1, ConcatAssociative
<1> QED BY <1>3, <1>4, <1>5 DEF ab, Cat

(* The messages of w are those of the first n of s outside gone, and two of  *)
(* them stand in w in the order of two positions of s.                       *)
Picks(w, s, gone, n) ==
    /\ \A i \in 1..Len(w) : w[i] \notin gone /\ \E a \in 1..n : s[a] = w[i]
    /\ \A a \in 1..n : s[a] \notin gone => \E i \in 1..Len(w) : w[i] = s[a]
    /\ \A i, j \in 1..Len(w) : i < j => \E a, b \in 1..n : a < b /\ s[a] = w[i] /\ s[b] = w[j]

(* One more message keeps that.                                              *)
LEMMA PicksOneMore ==
  ASSUME NEW M, NEW s \in Seq(M), NEW gone, NEW n \in Nat, n + 1 <= Len(s),
         NEW w \in Seq(M), Picks(w, s, gone, n)
  PROVE  Picks(IF s[n + 1] \in gone THEN w ELSE Add(w, s[n + 1]), s, gone, n + 1)
<1> DEFINE N == n + 1
           x == s[N]
<1>0. N \in Nat /\ N # 0 /\ (\A a \in 1..n : a \in 1..N) /\ (\A a \in 1..N : a \in 1..n \/ a = N)
      /\ (\A a \in 1..n : a < N) /\ N \in 1..N
  OBVIOUS
<1>1. x \in M BY ElementOfSeq, LenProperties
<1>2. Len(w) \in Nat BY LenProperties
<1> HIDE DEF N
<1>3. CASE x \in gone
  <2>1. \A i \in 1..Len(w) : w[i] \notin gone /\ \E a \in 1..N : s[a] = w[i] BY <1>0 DEF Picks
  <2>2. \A a \in 1..N : s[a] \notin gone => \E i \in 1..Len(w) : w[i] = s[a] BY <1>0, <1>3 DEF Picks
  <2>3. ASSUME NEW i \in 1..Len(w), NEW j \in 1..Len(w), i < j
        PROVE  \E a, b \in 1..N : a < b /\ s[a] = w[i] /\ s[b] = w[j]
    <3>1. PICK a, b \in 1..n : a < b /\ s[a] = w[i] /\ s[b] = w[j] BY <2>3 DEF Picks
    <3> QED BY <1>0, <3>1
  <2>4. Picks(w, s, gone, N) BY <2>1, <2>2, <2>3 DEF Picks
  <2> QED BY <2>4, <1>3 DEF N
<1>4. CASE x \notin gone
  <2> DEFINE v == Add(w, x)
             L == Len(w) + 1
  <2>1. Len(v) = L /\ (\A i \in 1..Len(w) : v[i] = w[i]) /\ v[L] = x
    <3>1. v = Add(w, x) OBVIOUS
    <3> HIDE DEF x, v
    <3>2. Added(v, w, x) BY <1>1, <3>1, AddProperties
    <3> QED BY <3>2 DEF Added
  <2>2. \A i \in 1..L : (i \in 1..Len(w) /\ i < L) \/ i = L BY <1>2
  <2>2a. L \in 1..L /\ \A i \in 1..Len(w) : i \in 1..L BY <1>2
  <2>2b. \A i, j \in 1..L : i < j => i \in 1..Len(w) BY <1>2
  <2> HIDE DEF v, L, x
  <2>3. ASSUME NEW i \in 1..L PROVE v[i] \notin gone /\ \E a \in 1..N : s[a] = v[i]
    <3>1. CASE i = L BY <1>0, <1>4, <2>1, <3>1 DEF x
    <3>2. CASE i \in 1..Len(w)
      <4>1. w[i] \notin gone /\ \E a \in 1..n : s[a] = w[i] BY <3>2 DEF Picks
      <4> QED BY <1>0, <2>1, <3>2, <4>1
    <3> QED BY <2>2, <3>1, <3>2
  <2>4. ASSUME NEW a \in 1..N, s[a] \notin gone PROVE \E i \in 1..L : v[i] = s[a]
    <3>1. CASE a = N BY <2>1, <2>2a, <3>1 DEF x
    <3>2. CASE a \in 1..n
      <4>1. PICK i \in 1..Len(w) : w[i] = s[a] BY <2>4, <3>2 DEF Picks
      <4> QED BY <4>1, <2>1, <2>2a
    <3> QED BY <1>0, <3>1, <3>2
  <2>5. ASSUME NEW i \in 1..L, NEW j \in 1..L, i < j
        PROVE  \E a, b \in 1..N : a < b /\ s[a] = v[i] /\ s[b] = v[j]
    <3>1. i \in 1..Len(w) BY <2>2b, <2>5
    <3>2. CASE j = L
      <4>1. PICK a \in 1..n : s[a] = w[i] BY <3>1 DEF Picks
      <4>2. a \in 1..N /\ N \in 1..N /\ a < N /\ s[a] = v[i] /\ s[N] = v[j]
        BY <1>0, <2>1, <3>1, <3>2, <4>1 DEF x
      <4> QED BY <4>2
    <3>3. CASE j \in 1..Len(w)
      <4>1. PICK a, b \in 1..n : a < b /\ s[a] = w[i] /\ s[b] = w[j] BY <2>5, <3>1, <3>3 DEF Picks
      <4> QED BY <1>0, <2>1, <3>1, <3>3, <4>1
    <3> QED BY <2>2, <3>2, <3>3
  <2>6. Picks(v, s, gone, N) BY <2>1, <2>3, <2>4, <2>5 DEF Picks
  <2> QED BY <2>6, <1>4 DEF v, N, x
<1> QED BY <1>3, <1>4

(* What Without returns: a sequence of the same messages without the gone    *)
(* ones, in the same order.                                                  *)
LEMMA WithoutPicks ==
  ASSUME NEW M, NEW s \in Seq(M), NEW gone
  PROVE  Without(s, gone) \in Seq(M) /\ Picks(Without(s, gone), s, gone, Len(s))
<1>1. PICK f \in [0..Len(s) -> Seq(M)] : Solves(f, s, gone, Len(s)) /\ Without(s, gone) = f[Len(s)]
  BY WithoutRecursion
<1>2. Len(s) \in Nat BY LenProperties
<1> DEFINE S == {n \in Nat : n <= Len(s) => Picks(f[n], s, gone, n)}
<1>3. 0 \in S
  <2>1. f[0] = <<>> BY <1>1, <1>2, SolvesSteps DEF Unfolds
  <2>2. Len(f[0]) = 0 BY <2>1
  <2> QED BY <2>2 DEF Picks
<1>4. ASSUME NEW n \in Nat, n \in S PROVE n + 1 \in S
  <2> SUFFICES ASSUME n + 1 <= Len(s) PROVE Picks(f[n + 1], s, gone, n + 1)
    <3> n + 1 \in Nat OBVIOUS
    <3> QED OBVIOUS
  <2>1. n <= Len(s) /\ n \in 0..Len(s) BY <1>2
  <2>2. f[n + 1] = IF s[n + 1] \in gone THEN f[n] ELSE Add(f[n], s[n + 1])
    BY <1>1, <1>2, SolvesSteps DEF Unfolds
  <2>3. Picks(f[n], s, gone, n) /\ f[n] \in Seq(M) BY <1>4, <2>1
  <2> QED BY <2>2, <2>3, PicksOneMore
<1>5. Nat \subseteq S
  <2> HIDE DEF S
  <2> QED BY <1>3, <1>4, Induction
<1>6. Picks(f[Len(s)], s, gone, Len(s)) /\ f[Len(s)] \in Seq(M) BY <1>2, <1>5
<1> QED BY <1>1, <1>6

(* The sequence u consists of s and t.                                       *)
Joins(u, s, t, K, L) ==
    /\ K = Len(s) /\ L = Len(t) /\ Len(u) = K + L
    /\ \A i \in 1..K : u[i] = s[i]
    /\ \A i \in 1..L : u[K + i] = t[i]

(* Without over a sequence u that consists of s and t.                       *)
LEMMA WithoutTwoParts ==
  ASSUME NEW M, NEW s \in Seq(M), NEW t \in Seq(M), NEW u \in Seq(M), NEW gone,
         NEW K \in Nat, NEW L \in Nat, Joins(u, s, t, K, L)
  PROVE  Without(u, gone) = Cat(Without(s, gone), Without(t, gone))
<1>1. ASSUME NEW a \in Seq(M), NEW b \in Seq(M), NEW x \in M
      PROVE  Add(Cat(a, b), x) = Cat(a, Add(b, x))
  BY ConcatAppend
<1>2. PICK f : Values(f, M, u, gone) BY WithoutValues
<1>3. PICK g : Values(g, M, s, gone) BY WithoutValues
<1>4. PICK h : Values(h, M, t, gone) BY WithoutValues
<1>0. K = Len(s) /\ L = Len(t) /\ Len(u) = K + L BY DEF Joins
<1>5. \A k \in Nat : k + 1 <= K => f[k + 1] = IF s[k + 1] \in gone THEN f[k] ELSE Add(f[k], s[k + 1])
  <2> TAKE k \in Nat
  <2> HAVE k + 1 <= K
  <2>1. k + 1 \in 1..K /\ k + 1 <= Len(u) BY <1>0
  <2>2. u[k + 1] = s[k + 1] BY <2>1 DEF Joins
  <2> QED BY <1>2, <2>1, <2>2 DEF Values, Unfolds
<1>6. \A k \in Nat : k + 1 <= L => f[K + (k + 1)] = IF t[k + 1] \in gone THEN f[K + k] ELSE Add(f[K + k], t[k + 1])
  <2> TAKE k \in Nat
  <2> HAVE k + 1 <= L
  <2>1. k + 1 \in 1..L /\ (K + k) + 1 <= Len(u) /\ K + k \in Nat /\ (K + k) + 1 = K + (k + 1) BY <1>0
  <2>2. u[K + (k + 1)] = t[k + 1] BY <2>1 DEF Joins
  <2>3. f[(K + k) + 1] = IF u[(K + k) + 1] \in gone THEN f[K + k] ELSE Add(f[K + k], u[(K + k) + 1])
    BY <1>2, <2>1 DEF Values, Unfolds
  <2> QED BY <2>1, <2>2, <2>3
<1>7. f[K] = g[K] /\ g[K] \in Seq(M)
  <2> DEFINE S == {n \in Nat : n <= K => f[n] = g[n]}
  <2>1. 0 \in S BY <1>2, <1>3 DEF Values, Unfolds
  <2>2. ASSUME NEW n \in Nat, n \in S PROVE n + 1 \in S BY <1>0, <1>3, <1>5, <2>2 DEF Values, Unfolds
  <2>3. Nat \subseteq S
    <3> HIDE DEF S
    <3> QED BY <2>1, <2>2, Induction
  <2>4. K \in S
    <3> HIDE DEF S
    <3> QED BY <2>3
  <2> QED BY <1>0, <1>3, <2>4 DEF Values, Unfolds
<1>8. f[K + L] = Cat(g[K], h[L])
  <2> DEFINE S == {n \in Nat : n <= L => f[K + n] = Cat(g[K], h[n])}
  <2>1. 0 \in S
    <3>1. f[K + 0] = Cat(g[K], h[0]) BY <1>4, <1>7, ConcatEmptySeq DEF Cat, Values, Unfolds
    <3> QED BY <3>1
  <2>2. ASSUME NEW n \in Nat, n \in S PROVE n + 1 \in S
    <3> SUFFICES ASSUME n + 1 <= L PROVE f[K + (n + 1)] = Cat(g[K], h[n + 1])
      <4> n + 1 \in Nat OBVIOUS
      <4> QED OBVIOUS
    <3>1. n <= L /\ n + 1 \in 1..L OBVIOUS
    <3>2. f[K + n] = Cat(g[K], h[n]) /\ h[n] \in Seq(M) BY <1>0, <1>4, <2>2, <3>1 DEF Values, Unfolds
    <3>3. t[n + 1] \in M BY <1>0, <3>1, ElementOfSeq
    <3>4. Add(Cat(g[K], h[n]), t[n + 1]) = Cat(g[K], Add(h[n], t[n + 1]))
      BY <1>1, <1>7, <3>2, <3>3
    <3>5. h[n + 1] = IF t[n + 1] \in gone THEN h[n] ELSE Add(h[n], t[n + 1]) BY <1>0, <1>4 DEF Values, Unfolds
    <3>6. f[K + (n + 1)] = IF t[n + 1] \in gone THEN f[K + n] ELSE Add(f[K + n], t[n + 1]) BY <1>6
    <3> QED BY <3>2, <3>4, <3>5, <3>6
  <2>3. Nat \subseteq S
    <3> HIDE DEF S
    <3> QED BY <2>1, <2>2, Induction
  <2>4. L \in S
    <3> HIDE DEF S
    <3> QED BY <2>3
  <2>5. L <= L OBVIOUS
  <2> QED BY <2>4, <2>5
<1> QED BY <1>0, <1>2, <1>3, <1>4, <1>7, <1>8 DEF Values, Unfolds

(* A concatenation, by positions.                                            *)
LEMMA CatJoins ==
  ASSUME NEW M, NEW s \in Seq(M), NEW t \in Seq(M), NEW u, u = Cat(s, t)
  PROVE  u \in Seq(M) /\ Joins(u, s, t, Len(s), Len(t)) /\ Len(s) \in Nat /\ Len(t) \in Nat
<1>1. s \o t \in Seq(M) /\ Len(s \o t) = Len(s) + Len(t) /\ Len(s) \in Nat /\ Len(t) \in Nat
  BY ConcatProperties, LenProperties
<1>2. \A i \in 1..Len(s) : (s \o t)[i] = s[i]
  <2> TAKE i \in 1..Len(s)
  <2> i \in 1..Len(s) + Len(t) /\ i <= Len(s) BY <1>1
  <2> QED BY ConcatProperties
<1>3. \A i \in 1..Len(t) : (s \o t)[Len(s) + i] = t[i]
  <2> TAKE i \in 1..Len(t)
  <2> DEFINE j == Len(s) + i
  <2>1. j \in 1..Len(s) + Len(t) /\ ~(j <= Len(s)) /\ j - Len(s) = i BY <1>1
  <2> HIDE DEF j
  <2>2. (s \o t)[j] = IF j <= Len(s) THEN s[j] ELSE t[j - Len(s)] BY <2>1, ConcatProperties
  <2>3. (s \o t)[j] = t[i] BY <2>1, <2>2
  <2> QED BY <2>3 DEF j
<1> QED BY <1>1, <1>2, <1>3 DEF Joins, Cat

(* Without over a concatenation.                                             *)
LEMMA WithoutConcat ==
  ASSUME NEW M, NEW s \in Seq(M), NEW t \in Seq(M), NEW gone, NEW u, u = Cat(s, t)
  PROVE  Without(u, gone) = Cat(Without(s, gone), Without(t, gone))
  BY CatJoins, WithoutTwoParts

(* The sequence v begins with n messages of s and has no other.              *)
Copies(v, s, n) == Len(v) = n /\ \A i \in 1..n : v[i] = s[i]

(* One more message of s.                                                    *)
LEMMA CopiesOneMore ==
  ASSUME NEW M, NEW s \in Seq(M), NEW n \in Nat, n + 1 <= Len(s),
         NEW w \in Seq(M), Copies(w, s, n), NEW v, v = Add(w, s[n + 1])
  PROVE  Copies(v, s, n + 1)
<1>1. s[n + 1] \in M BY ElementOfSeq, LenProperties
<1> DEFINE x == s[n + 1]
<1>2. x \in M /\ v = Add(w, x) BY <1>1
<1> HIDE DEF x
<1>3. Added(v, w, x) BY <1>2, AddProperties
<1> QED BY <1>3 DEF Added, Copies, x

(* No message of s is in the set.                                            *)
Avoids(s, gone) == \A i \in 1..Len(s) : s[i] \notin gone

(* Nothing of the set occurs: the sequence stays as it is.                   *)
LEMMA WithoutNone ==
  ASSUME NEW M, NEW s \in Seq(M), NEW gone, Avoids(s, gone)
  PROVE  Without(s, gone) = s
<1>1. PICK f : Values(f, M, s, gone) BY WithoutValues
<1>2. Len(s) \in Nat BY LenProperties
<1> DEFINE S == {n \in Nat : n <= Len(s) => Copies(f[n], s, n)}
<1>3. 0 \in S BY <1>1 DEF Values, Unfolds, Copies
<1>4. ASSUME NEW n \in Nat, n \in S PROVE n + 1 \in S
  <2> SUFFICES ASSUME n + 1 <= Len(s) PROVE Copies(f[n + 1], s, n + 1)
    <3> n + 1 \in Nat OBVIOUS
    <3> QED OBVIOUS
  <2>1. n <= Len(s) /\ n + 1 \in 1..Len(s) BY <1>2
  <2>2. s[n + 1] \notin gone BY <2>1 DEF Avoids
  <2>3. f[n + 1] = Add(f[n], s[n + 1]) BY <1>1, <2>2 DEF Values, Unfolds
  <2>4. f[n] \in Seq(M) /\ Copies(f[n], s, n) BY <1>1, <1>4, <2>1 DEF Values, Unfolds
  <2> QED BY <2>3, <2>4, CopiesOneMore
<1>5. Nat \subseteq S
  <2> HIDE DEF S
  <2> QED BY <1>3, <1>4, Induction
<1>6. f[Len(s)] \in Seq(M) /\ Copies(f[Len(s)], s, Len(s)) BY <1>1, <1>2, <1>5 DEF Values, Unfolds
<1>7. f[Len(s)] = s BY <1>6, SeqEqual DEF Copies
<1> QED BY <1>1, <1>7 DEF Values, Unfolds

(* All of it belongs to the set: nothing is left.                            *)
LEMMA WithoutAll ==
  ASSUME NEW M, NEW s \in Seq(M), NEW gone, \A i \in 1..Len(s) : s[i] \in gone
  PROVE  Without(s, gone) = <<>>
<1>1. Without(s, gone) \in Seq(M) /\ Picks(Without(s, gone), s, gone, Len(s)) BY WithoutPicks
<1> DEFINE w == Without(s, gone)
<1> HIDE DEF w
<1>2. w \in Seq(M) /\ \A i \in 1..Len(w) : FALSE BY <1>1 DEF w, Picks
<1>3. Len(w) = 0
  <2>1. Len(w) \in Nat BY <1>2, LenProperties
  <2>2. Len(w) # 0 => 1 \in 1..Len(w) BY <2>1
  <2> QED BY <1>2, <2>2
<1>4. w = <<>> BY <1>2, <1>3, EmptySeq
<1> QED BY <1>4 DEF w


-----------------------------------------------------------------------------
(* Sets of messages, prefixes, concatenations, and sequences whose messages  *)
(* differ or come in the order of their numbers.                             *)

Distinct(s) == \A i \in 1..Len(s) : \A j \in 1..Len(s) : i < j => s[i] # s[j]
Rising(s) == \A i \in 1..Len(s) : \A j \in 1..Len(s) : i < j => s[i].n < s[j].n

(* The set of a sequence, by positions.                                      *)
LEMMA SetOf ==
  ASSUME NEW M, NEW s \in Seq(M)
  PROVE  /\ ToSet(s) \subseteq M
         /\ \A m : m \in ToSet(s) <=> \E i \in 1..Len(s) : s[i] = m
  BY LenProperties, ElementOfSeq DEF ToSet

(* A prefix, by positions.                                                   *)
LEMMA PrefixIff ==
  ASSUME NEW M, NEW s \in Seq(M), NEW t \in Seq(M)
  PROVE  IsPrefix(s, t) <=> Len(s) <= Len(t) /\ \A i \in 1..Len(s) : s[i] = t[i]
<1>1. Len(s) \in Nat /\ Len(t) \in Nat BY LenProperties
<1>2. SUFFICES ASSUME Len(s) <= Len(t)
               PROVE  SubSeq(s, 1, Len(s)) = SubSeq(t, 1, Len(s)) <=> \A i \in 1..Len(s) : s[i] = t[i]
  BY Zenon DEF IsPrefix
<1> DEFINE n == Len(s)
           a == SubSeq(s, 1, n)
           b == SubSeq(t, 1, n)
<1>3. n \in Nat /\ 1 \in Int /\ n \in Int BY <1>1
<1>4. (\A i \in 1..n : s[i] \in M) /\ (\A i \in 1..n : t[i] \in M)
  BY <1>1, <1>2, ElementOfSeq
<1>5. a \in Seq(M) /\ Len(a) = n /\ \A i \in 1..n : a[i] = s[i] BY <1>3, <1>4, SubSeqProperties
<1>6. b \in Seq(M) /\ Len(b) = n /\ \A i \in 1..n : b[i] = t[i] BY <1>3, <1>4, SubSeqProperties
<1> HIDE DEF a, b
<1>7. a = b <=> \A i \in 1..n : a[i] = b[i] BY <1>5, <1>6, SeqEqual
<1> QED BY <1>5, <1>6, <1>7 DEF a, b

(* Every position of u is one of s or one of t.                              *)
LEMMA Sides ==
  ASSUME NEW M, NEW s \in Seq(M), NEW t \in Seq(M), NEW u, u = Cat(s, t), NEW i \in 1..Len(u)
  PROVE  \/ i \in 1..Len(s) /\ u[i] = s[i]
         \/ i - Len(s) \in 1..Len(t) /\ u[i] = t[i - Len(s)] /\ Len(s) < i
<1>1. Joins(u, s, t, Len(s), Len(t)) /\ Len(s) \in Nat /\ Len(t) \in Nat BY CatJoins
<1>2. Len(u) = Len(s) + Len(t) BY <1>1 DEF Joins
<1>3. CASE i \in 1..Len(s) BY <1>1, <1>3 DEF Joins
<1>4. CASE i \notin 1..Len(s)
  <2> DEFINE j == i - Len(s)
  <2>1. j \in 1..Len(t) /\ Len(s) < i /\ i = Len(s) + j BY <1>1, <1>2, <1>4
  <2> HIDE DEF j
  <2>2. u[Len(s) + j] = t[j] BY <1>1, <2>1 DEF Joins
  <2> QED BY <2>1, <2>2 DEF j
<1> QED BY <1>3, <1>4

(* What a concatenation contains and begins with.                            *)
LEMMA CatParts ==
  ASSUME NEW M, NEW s \in Seq(M), NEW t \in Seq(M), NEW u, u = Cat(s, t)
  PROVE  u \in Seq(M) /\ ToSet(u) = ToSet(s) \cup ToSet(t) /\ IsPrefix(s, u)
<1>1. u \in Seq(M) /\ Joins(u, s, t, Len(s), Len(t)) /\ Len(s) \in Nat /\ Len(t) \in Nat BY CatJoins
<1>2. ASSUME NEW m \in ToSet(u) PROVE m \in ToSet(s) \cup ToSet(t)
  <2>1. PICK i \in 1..Len(u) : u[i] = m BY <1>1, SetOf
  <2>2. \/ i \in 1..Len(s) /\ u[i] = s[i]
        \/ i - Len(s) \in 1..Len(t) /\ u[i] = t[i - Len(s)]
    BY Sides
  <2> QED BY <2>1, <2>2, SetOf
<1>3. ASSUME NEW m \in ToSet(s) PROVE m \in ToSet(u)
  <2>1. PICK i \in 1..Len(s) : s[i] = m BY SetOf
  <2>2. i \in 1..Len(u) /\ u[i] = m BY <1>1, <2>1 DEF Joins
  <2> QED BY <1>1, <2>2, SetOf
<1>4. ASSUME NEW m \in ToSet(t) PROVE m \in ToSet(u)
  <2>1. PICK i \in 1..Len(t) : t[i] = m BY SetOf
  <2>2. Len(s) + i \in 1..Len(u) /\ u[Len(s) + i] = m BY <1>1, <2>1 DEF Joins
  <2> QED BY <1>1, <2>2, SetOf
<1>5. IsPrefix(s, u)
  <2>1. Len(s) <= Len(u) /\ \A i \in 1..Len(s) : s[i] = u[i] BY <1>1 DEF Joins
  <2> QED BY <1>1, <2>1, PrefixIff
<1> QED BY <1>1, <1>2, <1>3, <1>4, <1>5

(* Two sequences of different messages with none in common.                  *)
LEMMA CatDistinct ==
  ASSUME NEW M, NEW s \in Seq(M), NEW t \in Seq(M), NEW u, u = Cat(s, t),
         Distinct(s), Distinct(t), ToSet(s) \cap ToSet(t) = {}
  PROVE  Distinct(u)
<1>1. Len(s) \in Nat /\ Len(t) \in Nat BY LenProperties
<1> SUFFICES ASSUME NEW i \in 1..Len(u), NEW j \in 1..Len(u), i < j PROVE u[i] # u[j]
  BY DEF Distinct
<1>2. \/ i \in 1..Len(s) /\ u[i] = s[i]
      \/ i - Len(s) \in 1..Len(t) /\ u[i] = t[i - Len(s)] /\ Len(s) < i
  BY Sides
<1>3. \/ j \in 1..Len(s) /\ u[j] = s[j]
      \/ j - Len(s) \in 1..Len(t) /\ u[j] = t[j - Len(s)] /\ Len(s) < j
  BY Sides
<1>4. CASE j \in 1..Len(s) /\ u[j] = s[j]
  <2>1. i \in 1..Len(s) /\ u[i] = s[i] BY <1>1, <1>2, <1>4
  <2> QED BY <1>4, <2>1 DEF Distinct
<1>5. CASE i - Len(s) \in 1..Len(t) /\ u[i] = t[i - Len(s)] /\ Len(s) < i
  <2>1. j - Len(s) \in 1..Len(t) /\ u[j] = t[j - Len(s)] BY <1>1, <1>3, <1>5
  <2>2. i - Len(s) < j - Len(s) BY <1>1
  <2> QED BY <1>5, <2>1, <2>2 DEF Distinct
<1>6. CASE (i \in 1..Len(s) /\ u[i] = s[i]) /\ (j - Len(s) \in 1..Len(t) /\ u[j] = t[j - Len(s)])
  <2>1. u[i] \in ToSet(s) /\ u[j] \in ToSet(t) BY <1>6, SetOf
  <2> QED BY <2>1
<1> QED BY <1>2, <1>3, <1>4, <1>5, <1>6

(* Two rising sequences, the first one below the second.                     *)
LEMMA CatRising ==
  ASSUME NEW M, NEW s \in Seq(M), NEW t \in Seq(M), NEW u, u = Cat(s, t),
         Rising(s), Rising(t), \A m \in ToSet(s) : \A p \in ToSet(t) : m.n < p.n
  PROVE  Rising(u)
<1>1. Len(s) \in Nat /\ Len(t) \in Nat BY LenProperties
<1> SUFFICES ASSUME NEW i \in 1..Len(u), NEW j \in 1..Len(u), i < j PROVE u[i].n < u[j].n
  BY DEF Rising
<1>2. \/ i \in 1..Len(s) /\ u[i] = s[i]
      \/ i - Len(s) \in 1..Len(t) /\ u[i] = t[i - Len(s)] /\ Len(s) < i
  BY Sides
<1>3. \/ j \in 1..Len(s) /\ u[j] = s[j]
      \/ j - Len(s) \in 1..Len(t) /\ u[j] = t[j - Len(s)] /\ Len(s) < j
  BY Sides
<1>4. CASE j \in 1..Len(s) /\ u[j] = s[j]
  <2>1. i \in 1..Len(s) /\ u[i] = s[i] BY <1>1, <1>2, <1>4
  <2> QED BY <1>4, <2>1 DEF Rising
<1>5. CASE i - Len(s) \in 1..Len(t) /\ u[i] = t[i - Len(s)] /\ Len(s) < i
  <2>1. j - Len(s) \in 1..Len(t) /\ u[j] = t[j - Len(s)] BY <1>1, <1>3, <1>5
  <2>2. i - Len(s) < j - Len(s) BY <1>1
  <2> QED BY <1>5, <2>1, <2>2 DEF Rising
<1>6. CASE (i \in 1..Len(s) /\ u[i] = s[i]) /\ (j - Len(s) \in 1..Len(t) /\ u[j] = t[j - Len(s)])
  <2>1. u[i] \in ToSet(s) /\ u[j] \in ToSet(t) BY <1>6, SetOf
  <2> QED BY <2>1
<1> QED BY <1>2, <1>3, <1>4, <1>5, <1>6

(* Without keeps a sequence distinct or rising and takes the gone messages   *)
(* from its set.                                                             *)
LEMMA WithoutKeeps ==
  ASSUME NEW M, NEW s \in Seq(M), NEW gone, NEW w, w = Without(s, gone)
  PROVE  /\ w \in Seq(M)
         /\ ToSet(w) = ToSet(s) \ gone
         /\ Distinct(s) => Distinct(w)
         /\ Rising(s) => Rising(w)
<1>1. w \in Seq(M) /\ Picks(w, s, gone, Len(s)) BY WithoutPicks
<1>2. ASSUME NEW m PROVE m \in ToSet(w) <=> m \in ToSet(s) /\ m \notin gone
  <2>1. m \in ToSet(w) <=> \E i \in 1..Len(w) : w[i] = m BY <1>1, SetOf
  <2>2. m \in ToSet(s) <=> \E i \in 1..Len(s) : s[i] = m BY SetOf
  <2>3. ASSUME NEW i \in 1..Len(w) PROVE w[i] \notin gone /\ \E a \in 1..Len(s) : s[a] = w[i]
    BY <1>1 DEF Picks
  <2>4. ASSUME NEW a \in 1..Len(s), s[a] \notin gone PROVE \E i \in 1..Len(w) : w[i] = s[a]
    BY <1>1, <2>4 DEF Picks
  <2> QED BY <2>1, <2>2, <2>3, <2>4
<1>3. \A i, j \in 1..Len(w) : i < j => \E a, b \in 1..Len(s) : a < b /\ s[a] = w[i] /\ s[b] = w[j]
  BY <1>1, Zenon DEF Picks
<1>4. Distinct(s) => Distinct(w) BY <1>3 DEF Distinct
<1>5. ASSUME Rising(s) PROVE Rising(w)
  <2> SUFFICES ASSUME NEW i \in 1..Len(w), NEW j \in 1..Len(w), i < j PROVE w[i].n < w[j].n
    BY DEF Rising
  <2>1. PICK a \in 1..Len(s), b \in 1..Len(s) : a < b /\ s[a] = w[i] /\ s[b] = w[j] BY <1>3
  <2>2. s[a].n < s[b].n BY <1>5, <2>1 DEF Rising
  <2> QED BY <2>1, <2>2
<1> QED BY <1>1, <1>2, <1>4, <1>5

(* The first k messages.                                                     *)
LEMMA FirstCopies ==
  ASSUME NEW M, NEW s \in Seq(M), NEW k \in 0..Len(s), NEW w, w = SubSeq(s, 1, k)
  PROVE  /\ w \in Seq(M) /\ Copies(w, s, k)
         /\ ToSet(w) \subseteq ToSet(s)
         /\ Distinct(s) => Distinct(w)
<1>1. Len(s) \in Nat BY LenProperties
<1>2. \A i \in 1..k : i \in 1..Len(s) /\ s[i] \in M BY <1>1, ElementOfSeq
<1>3. w \in Seq(M) /\ Len(w) = k /\ \A i \in 1..k : w[i] = s[i]
  <2>1. 1 \in Int /\ k \in Int /\ k \in Nat /\ k - 1 + 1 = k BY <1>1
  <2> QED BY <1>2, <2>1, SubSeqProperties
<1>4. ToSet(w) \subseteq ToSet(s)
  <2>1. ASSUME NEW m \in ToSet(w) PROVE m \in ToSet(s)
    <3>1. PICK i \in 1..Len(w) : w[i] = m BY <1>3, SetOf
    <3> QED BY <1>2, <1>3, <3>1, SetOf
  <2> QED BY <2>1
<1>5. Distinct(s) => Distinct(w) BY <1>2, <1>3 DEF Distinct
<1> QED BY <1>3, <1>4, <1>5 DEF Copies


-----------------------------------------------------------------------------
(* The least and the greatest of a set of numbers, and finite sets.          *)

(* Min is the least element.                                                 *)
LEMMA MinOf ==
  ASSUME NEW T, T \subseteq Nat, T # {}
  PROVE  Min(T) \in T /\ \A y \in T : Min(T) <= y
<1>1. \E x \in T : \A y \in T : x <= y BY Least
<1> QED BY <1>1 DEF Min

(* Max is the greatest one, when there is a bound.                           *)
LEMMA MaxOf ==
  ASSUME NEW n \in Nat, NEW T, T \subseteq 0..n, T # {}
  PROVE  Max(T) \in T /\ \A y \in T : Max(T) >= y
<1> DEFINE R == {n - x : x \in T}
<1>1. R \subseteq Nat /\ R # {}
  <2>1. ASSUME NEW x \in T PROVE n - x \in Nat OBVIOUS
  <2> QED BY <2>1
<1>2. PICK r \in R : \A y \in R : r <= y
  <2> HIDE DEF R
  <2> QED BY <1>1, Least
<1>3. PICK x \in T : r = n - x OBVIOUS
<1>4. ASSUME NEW y \in T PROVE x >= y
  <2>1. n - y \in R OBVIOUS
  <2>2. r <= n - y BY <1>2, <2>1
  <2>3. x \in 0..n /\ y \in 0..n OBVIOUS
  <2> QED BY <1>3, <2>2, <2>3
<1> QED BY <1>4 DEF Max

(* The set of a sequence is finite.                                          *)
LEMMA FiniteToSet ==
  ASSUME NEW M, NEW s \in Seq(M)
  PROVE  IsFiniteSet(ToSet(s))
<1>1. Len(s) \in Nat BY LenProperties
<1>2. IsFiniteSet(1..Len(s)) BY <1>1, FS_Interval
<1>3. s \in Surjection(1..Len(s), ToSet(s)) BY LenProperties DEF ToSet, Surjection
<1> QED BY <1>2, <1>3, FS_Surjection

-----------------------------------------------------------------------------
(* What the pure parts of Sessions return.                                   *)

(* Inserting adds the messages without an id to the end of the rows.         *)
LEMMA InsertedGrows ==
  ASSUME NEW rows \in Seq(Message), NEW msgs \in Seq(Message), NEW r, r = Inserted(rows, msgs)
  PROVE  /\ r \in Seq(Message) /\ IsPrefix(rows, r)
         /\ ToSet(r) = ToSet(rows) \cup (ToSet(msgs) \ named)
         /\ Distinct(rows) /\ Distinct(msgs) /\ ToSet(rows) \subseteq named => Distinct(r)
         /\ r = Cat(rows, Without(msgs, named))
<1> DEFINE x == Without(msgs, named)
<1>1. x \in Seq(Message) /\ ToSet(x) = ToSet(msgs) \ named /\ (Distinct(msgs) => Distinct(x))
  BY WithoutKeeps
<1>2. r = Cat(rows, x) BY DEF Inserted, Cat
<1> HIDE DEF x
<1>3. r \in Seq(Message) /\ ToSet(r) = ToSet(rows) \cup ToSet(x) /\ IsPrefix(rows, r)
  BY <1>1, <1>2, CatParts
<1>4. ASSUME Distinct(rows), Distinct(msgs), ToSet(rows) \subseteq named PROVE Distinct(r)
  BY <1>1, <1>2, <1>4, CatDistinct
<1> QED BY <1>1, <1>2, <1>3, <1>4 DEF x

(* A whole sync returns rows.                                                *)
LEMMA SyncedTypes ==
  ASSUME NEW rows \in Seq(Message), NEW msgs \in Seq(Message)
  PROVE  Synced(rows, msgs) \in Seq(Message) /\ ToSet(Synced(rows, msgs)) \subseteq ToSet(rows) \cup ToSet(msgs)
<1> DEFINE x == Without(msgs, ToSet(rows))
           y == Without(rows, ToSet(rows) \ ToSet(msgs))
           r == Cat(y, x)
<1>1. x \in Seq(Message) /\ ToSet(x) \subseteq ToSet(msgs) BY WithoutKeeps
<1>2. y \in Seq(Message) /\ ToSet(y) \subseteq ToSet(rows) BY WithoutKeeps
<1>3. Synced(rows, msgs) = r BY DEF Synced, Within, Cat
<1>4. r = Cat(y, x) OBVIOUS
<1> HIDE DEF x, y, r
<1>5. r \in Seq(Message) /\ ToSet(r) = ToSet(y) \cup ToSet(x) BY <1>1, <1>2, <1>4, CatParts
<1> QED BY <1>1, <1>2, <1>3, <1>5

(* When no row has left the cache, a whole sync adds what has no row yet.    *)
LEMMA SyncedGrows ==
  ASSUME NEW rows \in Seq(Message), NEW msgs \in Seq(Message), NEW r, r = Synced(rows, msgs),
         ToSet(rows) \subseteq ToSet(msgs)
  PROVE  /\ r \in Seq(Message) /\ IsPrefix(rows, r)
         /\ ToSet(r) = ToSet(msgs)
         /\ Distinct(rows) /\ Distinct(msgs) => Distinct(r)
         /\ r = Cat(rows, Without(msgs, ToSet(rows)))
<1> DEFINE x == Without(msgs, ToSet(rows))
<1>1. x \in Seq(Message) /\ ToSet(x) = ToSet(msgs) \ ToSet(rows) /\ (Distinct(msgs) => Distinct(x))
  BY WithoutKeeps
<1>2. Within(rows, ToSet(msgs)) = rows
  <2> DEFINE none == ToSet(rows) \ ToSet(msgs)
  <2>1. none = {} OBVIOUS
  <2>2. Avoids(rows, none) BY <2>1 DEF Avoids
  <2> HIDE DEF none
  <2>3. Without(rows, none) = rows BY <2>2, WithoutNone
  <2> QED BY <2>3 DEF Within, none
<1>3. r = Cat(rows, x) BY <1>2 DEF Synced, Cat
<1> HIDE DEF x
<1>4. r \in Seq(Message) /\ ToSet(r) = ToSet(rows) \cup ToSet(x) /\ IsPrefix(rows, r)
  BY <1>1, <1>3, CatParts
<1>5. ASSUME Distinct(rows), Distinct(msgs) PROVE Distinct(r)
  BY <1>1, <1>3, <1>5, CatDistinct
<1> QED BY <1>1, <1>3, <1>4, <1>5 DEF x

(* A write that fails row by row stores the first k of the new messages.     *)
LEMMA FailedGrows ==
  ASSUME NEW rows \in Seq(Message), NEW msgs \in Seq(Message), NEW new, new = Without(msgs, named),
         NEW k \in 0..Len(new) - 1, NEW r, r = Cat(rows, SubSeq(new, 1, k))
  PROVE  /\ r \in Seq(Message) /\ IsPrefix(rows, r)
         /\ ToSet(rows) \subseteq ToSet(r) /\ ToSet(r) \subseteq ToSet(rows) \cup (ToSet(msgs) \ named)
         /\ Distinct(rows) /\ Distinct(msgs) /\ ToSet(rows) \subseteq named => Distinct(r)
<1>1. new \in Seq(Message) /\ ToSet(new) = ToSet(msgs) \ named /\ (Distinct(msgs) => Distinct(new))
  BY WithoutKeeps
<1>2. Len(new) \in Nat BY <1>1, LenProperties
<1>3. k \in 0..Len(new) BY <1>2
<1> DEFINE x == SubSeq(new, 1, k)
<1>4. x \in Seq(Message) /\ ToSet(x) \subseteq ToSet(new) /\ (Distinct(new) => Distinct(x))
  BY <1>1, <1>3, FirstCopies
<1>5. r = Cat(rows, x) OBVIOUS
<1> HIDE DEF x
<1>6. r \in Seq(Message) /\ ToSet(r) = ToSet(rows) \cup ToSet(x) /\ IsPrefix(rows, r)
  BY <1>4, <1>5, CatParts
<1>7. ASSUME Distinct(rows), Distinct(msgs), ToSet(rows) \subseteq named PROVE Distinct(r)
  BY <1>1, <1>4, <1>5, <1>7, CatDistinct
<1> QED BY <1>1, <1>4, <1>6, <1>7

(* The last passive turn is two rows.                                        *)
LEMMA LastTurn ==
  ASSUME NEW rows \in Seq(Message), TurnEnds(rows) # {}
  PROVE  /\ Max(TurnEnds(rows)) \in 2..Len(rows) /\ Len(rows) \in Nat
<1>1. Len(rows) \in Nat BY LenProperties
<1>2. TurnEnds(rows) \subseteq 0..Len(rows) /\ TurnEnds(rows) \subseteq 2..Len(rows)
  BY <1>1 DEF TurnEnds
<1>3. Max(TurnEnds(rows)) \in TurnEnds(rows) BY <1>1, <1>2, MaxOf
<1> QED BY <1>1, <1>2, <1>3

(* The cursor after an undo is not behind the first deleted row, and not     *)
(* ahead of where it was.                                                    *)
LEMMA UndoCursorBounds ==
  ASSUME NEW rows \in Seq(Message), NEW i \in 2..Len(rows), NEW old \in Nat, NEW sources,
         NEW c, c = UndoCursor(rows, i, RollbackIndex(rows, i, old, sources))
  PROVE  c \in Nat /\ c <= old /\ c <= i - 2 /\ c <= Len(rows) - 2
<1>1. Len(rows) \in Nat /\ i - 2 \in Nat /\ Len(rows) - 2 \in Nat BY LenProperties
<1> DEFINE j == RollbackIndex(rows, i, old, sources)
<1>2. j \in Nat /\ j <= old /\ j <= i - 2
  <2>1. CASE i - 2 >= old
    <3> DEFINE T == {old, Len(rows) - 2}
    <3>1. T \subseteq Nat /\ T # {} /\ old \in T BY <1>1
    <3>2. j = Min(T) BY <2>1 DEF RollbackIndex
    <3> HIDE DEF T, j
    <3>3. j \in T /\ j <= old BY <3>1, <3>2, MinOf
    <3>4. j \in Nat BY <3>1, <3>3
    <3> QED BY <1>1, <2>1, <3>3, <3>4
  <2>2. CASE ~(i - 2 >= old)
    <3> DEFINE T == {i - 2, old} \cup {k - 1 : k \in {k \in DOMAIN rows : rows[k] \in sources}}
    <3>1. T \subseteq Nat /\ T # {} /\ i - 2 \in T /\ old \in T
      <4>1. DOMAIN rows = 1..Len(rows) BY LenProperties
      <4> QED BY <1>1, <4>1
    <3>2. j = Min(T) BY <2>2 DEF RollbackIndex
    <3> HIDE DEF T, j
    <3>3. j \in T /\ j <= old /\ j <= i - 2 BY <3>1, <3>2, MinOf
    <3> QED BY <3>1, <3>3
  <2> QED BY <2>1, <2>2
<1> HIDE DEF j
<1>3. {k \in {i - 2, i - 1} : k < j} = {} BY <1>1, <1>2
<1>4. Cardinality({}) = 0 BY FS_EmptySet
<1> DEFINE T == {j, Len(rows) - 2}
<1>5. c = Min({j - Cardinality({k \in {i - 2, i - 1} : k < j}), Len(rows) - 2}) BY DEF UndoCursor, j
<1>6. j - 0 = j BY <1>2
<1>7. c = Min(T) BY <1>3, <1>4, <1>5, <1>6
<1>8. T \subseteq Nat /\ T # {} /\ j \in T /\ Len(rows) - 2 \in T BY <1>1, <1>2
<1> HIDE DEF T
<1>9. c \in T /\ c <= j /\ c <= Len(rows) - 2 BY <1>7, <1>8, MinOf
<1>10. c \in Nat BY <1>8, <1>9
<1> QED BY <1>1, <1>2, <1>9, <1>10


-----------------------------------------------------------------------------
(* Type correctness.                                                         *)

(* TypeOK, without the queue, the number of messages and the faults.         *)
Body ==
    /\ db \in Seq(Message) /\ cache \in Seq(Message)
    /\ cursor \in Nat /\ requests \in Nat
    /\ phase \in {"idle", "preparing", "waiting", "writing", "written", "publishing"}
    /\ draft \in Draft
    /\ named \subseteq Message /\ history \subseteq SUBSET Message

(* No draft is a draft.                                                      *)
LEMMA NoDraftTypes == NoDraft \in Draft
<1>1. <<>> \in Seq(Message) BY EmptySeq
<1> QED BY <1>1 DEF NoDraft, Draft

(* A write keeps the types.                                                  *)
LEMMA StoresTypes ==
  ASSUME Body, NEW o \in Waiter, NEW c \in Seq(Message), Stores(o, c)
  PROVE  Body'
<1>1. db \in Seq(Message) /\ o.msgs \in Seq(Message) BY DEF Body, Waiter
<1>2. Inserted(db, o.msgs) \in Seq(Message) BY <1>1, InsertedGrows
<1>3. Synced(db, c) \in Seq(Message) BY <1>1, SyncedTypes
<1>4. db' \in Seq(Message) BY <1>2, <1>3 DEF Stores
<1>5. ToSet(db') \subseteq Message BY <1>4, SetOf
<1>6. requests' \in Nat
  <2>1. requests + 1 \in Nat BY DEF Body
  <2> QED BY <2>1 DEF Body, Stores
<1> QED BY <1>4, <1>5, <1>6 DEF Body, Stores

(* A write that fails row by row.                                            *)
LEMMA PartialTypes ==
  ASSUME Body, NEW msgs \in Seq(Message), NEW new, new = Without(msgs, named),
         NEW k \in 0..Len(new) - 1, db' = db \o SubSeq(new, 1, k)
  PROVE  db' \in Seq(Message) /\ ToSet(db') \subseteq Message
<1>1. db \in Seq(Message) BY DEF Body
<1>2. db' = Cat(db, SubSeq(new, 1, k)) BY DEF Cat
<1>3. db' \in Seq(Message) BY <1>1, <1>2, FailedGrows
<1> QED BY <1>3, SetOf

(* A write that fails.                                                       *)
LEMMA StoreFailsTypes ==
  ASSUME Body, NEW o \in Waiter, NEW c \in Seq(Message), StoreFails(o, c)
  PROVE  Body'
<1>1. db \in Seq(Message) /\ o.msgs \in Seq(Message) /\ named \subseteq Message /\ o.cut \in Nat
  BY DEF Body, Waiter
<1>2. cache' \in Seq(Message)
  <2>1. CASE o.cut = NoCut BY <2>1 DEF StoreFails
  <2>2. CASE o.cut # NoCut
    <3> DEFINE T == {o.cut, Len(c)}
               k == Min(T)
    <3>1. Len(c) \in Nat BY LenProperties
    <3>2. T \subseteq Nat /\ T # {} /\ Len(c) \in T BY <1>1, <3>1
    <3> HIDE DEF T
    <3>3. k \in T /\ k <= Len(c) BY <3>2, MinOf
    <3>5. cache' = SubSeq(c, 1, k) BY <2>2 DEF StoreFails, T
    <3> HIDE DEF k
    <3>4. k \in 0..Len(c) BY <3>1, <3>2, <3>3
    <3> QED BY <3>4, <3>5, FirstCopies
  <2> QED BY <2>1, <2>2
<1>3. db' \in Seq(Message) /\ named' \subseteq Message
  <2>1. CASE o.op = "save" /\ NeedsSync(db, c)
    <3>1. ToSet(c) \subseteq Message BY SetOf
    <3> QED BY <1>1, <2>1, <3>1 DEF StoreFails
  <2>2. CASE ~(o.op = "save" /\ NeedsSync(db, c))
    <3> DEFINE msgs == IF o.op = "append" THEN o.msgs ELSE c
               new == Without(msgs, named)
    <3>1. msgs \in Seq(Message) BY <1>1
    <3>2. PICK k \in 0..Len(new) - 1 : db' = db \o SubSeq(new, 1, k)
      BY <2>2, Zenon DEF StoreFails
    <3>3. named' = named \cup ToSet(db') BY <2>2, Zenon DEF StoreFails
    <3>4. new = Without(msgs, named) OBVIOUS
    <3> HIDE DEF msgs, new
    <3>5. db' \in Seq(Message) /\ ToSet(db') \subseteq Message BY <3>1, <3>2, <3>4, PartialTypes
    <3> QED BY <1>1, <3>3, <3>5
  <2> QED BY <2>1, <2>2
<1> QED BY <1>2, <1>3 DEF Body, StoreFails

(* An undo.                                                                  *)
LEMMA UndoesTypes ==
  ASSUME Body, NEW c \in Seq(Message), Undoes(c)
  PROVE  Body'
<1>1. CASE TurnEnds(db) = {} BY <1>1 DEF Body, Undoes
<1>2. CASE TurnEnds(db) # {}
  <2> DEFINE i == Max(TurnEnds(db))
             gone == {db[i - 1], db[i]}
  <2>1. db \in Seq(Message) /\ cursor \in Nat BY DEF Body
  <2>2. i \in 2..Len(db) BY <1>2, <2>1, LastTurn
  <2>3. /\ db' = Without(db, gone) /\ cache' = Without(c, gone)
        /\ \E sources : cursor' = UndoCursor(db, i, RollbackIndex(db, i, cursor, sources))
    BY <1>2, Zenon DEF Undoes
  <2> HIDE DEF i, gone
  <2>4. db' \in Seq(Message) /\ cache' \in Seq(Message) BY <2>1, <2>3, WithoutKeeps
  <2>5. cursor' \in Nat BY <2>1, <2>2, <2>3, UndoCursorBounds
  <2> QED BY <2>4, <2>5 DEF Body, Undoes
<1> QED BY <1>1, <1>2

(* What any task does with the lock.                                         *)
LEMMA RunsTypes ==
  ASSUME Body, NEW o \in Waiter, NEW c \in Seq(Message), Runs(o, c)
  PROVE  Body'
<1>1. CASE Stores(o, c) BY <1>1, StoresTypes
<1>2. CASE StoreFails(o, c) BY <1>2, StoreFailsTypes
<1>3. CASE Undoes(c) BY <1>3, UndoesTypes
<1>4. CASE Commits(c) BY <1>4, NoDraftTypes DEF Body, Commits
<1> QED BY <1>1, <1>2, <1>3, <1>4 DEF Runs

(* A task that takes the lock or waits for it.                               *)
LEMMA ArrivesTypes ==
  ASSUME Body, waiting \in Seq(Waiter), NEW o \in Waiter, NEW c \in Seq(Message), Arrives(o, c)
  PROVE  Body' /\ waiting' \in Seq(Waiter)
<1>1. CASE Free /\ Runs(o, c) /\ UNCHANGED waiting BY <1>1, RunsTypes
<1>2. CASE ~(Free /\ Runs(o, c) /\ UNCHANGED waiting)
  <2>1. /\ waiting' = Append(waiting, o) /\ cache' = c
        /\ UNCHANGED <<db, cursor, draft, requests, history, named>>
        /\ phase' = IF o.op = "commit" THEN "waiting" ELSE phase
    BY <1>2 DEF Arrives
  <2>2. waiting' \in Seq(Waiter) BY <2>1, AppendProperties
  <2> QED BY <2>1, <2>2 DEF Body
<1> QED BY <1>1, <1>2

(* The messages a writer creates, the two of a turn or one, and the length   *)
(* of the cache it sees.                                                     *)
LEMMA MessageTypes ==
  ASSUME TypeOK
  PROVE  /\ created + 1 <= MaxMessages =>
               /\ User(created + 1) \in Message /\ Push(created + 1) \in Message
               /\ \A u \in Message : Reply(created + 1, u.turn) \in Message
         /\ created + 2 <= MaxMessages =>
               User(created + 1) \in Message /\ Reply(created + 2, created + 1) \in Message
         /\ Len(cache) \in Nat /\ NoCut \in Nat /\ created \in Nat /\ MaxMessages \in Nat
<1>1. MaxMessages \in Nat /\ created \in 0..MaxMessages BY SessionAssumption DEF TypeOK
<1>2. Len(cache) \in Nat BY LenProperties DEF TypeOK
<1>3. created + 1 <= MaxMessages => created + 1 \in 1..MaxMessages BY <1>1
<1>4. created + 2 <= MaxMessages => created + 1 \in 1..MaxMessages /\ created + 2 \in 1..MaxMessages BY <1>1
<1>5. NoCut \in Nat BY <1>1 DEF NoCut
<1> QED BY <1>1, <1>2, <1>3, <1>4, <1>5 DEF Message, User, Push, Reply

(* A writer's messages, its operation and the cache it leaves.               *)
LEMMA AddsTypes ==
  ASSUME TypeOK, NEW msgs \in Seq(Message), Len(msgs) \in Nat, NEW o \in Waiter, Adds(msgs, o)
  PROVE  Body' /\ waiting' \in Seq(Waiter) /\ created' \in 0..MaxMessages
<1>1. Body /\ waiting \in Seq(Waiter) BY DEF TypeOK, Body
<1>2. cache \o msgs \in Seq(Message) BY <1>1, ConcatProperties DEF Body
<1>3. created' \in 0..MaxMessages BY SessionAssumption DEF TypeOK, Adds
<1>4. Arrives(o, cache \o msgs) BY DEF Adds
<1> DEFINE c == cache \o msgs
<1> HIDE DEF c
<1>5. c \in Seq(Message) /\ Arrives(o, c) BY <1>2, <1>4 DEF c
<1> QED BY <1>1, <1>3, <1>5, ArrivesTypes

(* One message, and the operations that carry it.                            *)
LEMMA OneMessage ==
  ASSUME NEW m \in Message, NEW cut \in Nat, NEW ends \in BOOLEAN
  PROVE  /\ <<m>> \in Seq(Message) /\ Len(<<m>>) = 1 /\ ToSet(<<m>>) = {m}
         /\ AppendOp(<<m>>, cut, ends) \in Waiter /\ SaveAll(<<m>>, cut) \in Waiter
<1>1. <<m>> \in Seq(Message) /\ Len(<<m>>) = 1 OBVIOUS
<1>2. ToSet(<<m>>) = {m} BY DEF ToSet
<1> QED BY <1>1, <1>2 DEF AppendOp, SaveAll, Waiter

(* Two messages.                                                             *)
LEMMA TwoMessages ==
  ASSUME NEW m \in Message, NEW p \in Message, NEW cut \in Nat, NEW ends \in BOOLEAN
  PROVE  /\ <<m, p>> \in Seq(Message) /\ Len(<<m, p>>) = 2 /\ ToSet(<<m, p>>) = {m, p}
         /\ AppendOp(<<m, p>>, cut, ends) \in Waiter
<1>1. <<m, p>> \in Seq(Message) /\ Len(<<m, p>>) = 2 OBVIOUS
<1>2. ToSet(<<m, p>>) = {m, p} BY DEF ToSet
<1> QED BY <1>1, <1>2 DEF AppendOp, Waiter

(* The operations without messages.                                          *)
LEMMA PlainOps ==
  UndoLast \in Waiter /\ CommitDraft \in Waiter
<1>1. <<>> \in Seq(Message) BY EmptySeq
<1>2. NoCut \in Nat BY SessionAssumption DEF NoCut
<1> QED BY <1>1, <1>2 DEF UndoLast, CommitDraft, Waiter


(* A writer that comes with messages: they are new, in the order of their    *)
(* numbers, and those of its operation.                                      *)
Comes(o, msgs) ==
    /\ msgs \in Seq(Message) /\ Len(msgs) \in Nat /\ Rising(msgs)
    /\ \A m \in ToSet(msgs) : created < m.n /\ m.n <= created + Len(msgs)
    /\ o \in Waiter /\ o.msgs = msgs /\ o.op \in {"append", "save"}

(* Every writer with messages comes so.                                      *)
LEMMA WritersCome ==
  ASSUME TypeOK, Turn \/ DesktopUser \/ DesktopReply \/ Proactive \/ DesktopPush
  PROVE  \E msgs, o : Comes(o, msgs) /\ Adds(msgs, o)
<1>1. created \in Nat /\ MaxMessages \in Nat /\ NoCut \in Nat /\ Len(cache) \in Nat BY MessageTypes
<1>2. ASSUME NEW m \in Message, m.n = created + 1, NEW cut \in Nat, NEW ends \in BOOLEAN
      PROVE  Comes(AppendOp(<<m>>, cut, ends), <<m>>) /\ Comes(SaveAll(<<m>>, cut), <<m>>)
  <2> DEFINE msgs == <<m>>
             o == AppendOp(msgs, cut, ends)
             p == SaveAll(msgs, cut)
  <2>1. /\ msgs \in Seq(Message) /\ Len(msgs) = 1 /\ ToSet(msgs) = {m} /\ o \in Waiter /\ p \in Waiter
    BY OneMessage
  <2>2. /\ o.msgs = msgs /\ o.op \in {"append", "save"} /\ p.msgs = msgs /\ p.op \in {"append", "save"}
    BY DEF AppendOp, SaveAll
  <2>3. Rising(msgs) BY <2>1 DEF Rising
  <2> HIDE DEF msgs, o, p
  <2>4. \A q \in ToSet(msgs) : created < q.n /\ q.n <= created + Len(msgs) BY <1>1, <1>2, <2>1
  <2>5. Comes(o, msgs) /\ Comes(p, msgs) BY <2>1, <2>2, <2>3, <2>4 DEF Comes
  <2> QED BY <2>5 DEF o, p, msgs
<1>3. ASSUME created + 1 <= MaxMessages
      PROVE  /\ User(created + 1) \in Message /\ User(created + 1).n = created + 1
             /\ Push(created + 1) \in Message /\ Push(created + 1).n = created + 1
             /\ \A u \in Message : Reply(created + 1, u.turn) \in Message /\ Reply(created + 1, u.turn).n = created + 1
  BY <1>3, MessageTypes DEF User, Push, Reply
<1>4. ASSUME NEW m, NEW o, Adds(<<m>>, o) PROVE created + 1 <= MaxMessages
  BY <1>4 DEF Adds
<1>5. CASE Turn
  <2> DEFINE m == User(created + 1)
             p == Reply(created + 2, created + 1)
             msgs == <<m, p>>
             o == AppendOp(msgs, NoCut, TRUE)
  <2>1. Adds(msgs, o) BY <1>5, Zenon DEF Turn
  <2>2. created + 2 <= MaxMessages
    <3>1. Len(msgs) = 2 OBVIOUS
    <3> HIDE DEF msgs
    <3> QED BY <2>1, <3>1 DEF Adds
  <2>3. m \in Message /\ p \in Message /\ m.n = created + 1 /\ p.n = created + 2
    BY <2>2, MessageTypes DEF User, Reply
  <2>4. msgs[1] = m /\ msgs[2] = p OBVIOUS
  <2>5. o.msgs = msgs /\ o.op = "append" BY DEF AppendOp
  <2> HIDE DEF m, p
  <2>6. msgs \in Seq(Message) /\ Len(msgs) = 2 /\ ToSet(msgs) = {m, p} /\ o \in Waiter
    BY <1>1, <2>3, TwoMessages
  <2> HIDE DEF msgs, o
  <2>7. Rising(msgs)
    <3> SUFFICES ASSUME NEW i \in 1..2, NEW j \in 1..2, i < j PROVE msgs[i].n < msgs[j].n
      BY <2>6 DEF Rising
    <3>1. i = 1 /\ j = 2 OBVIOUS
    <3> QED BY <1>1, <2>3, <2>4, <3>1
  <2>8. \A q \in ToSet(msgs) : created < q.n /\ q.n <= created + Len(msgs) BY <1>1, <2>3, <2>6
  <2>9. Comes(o, msgs) BY <2>5, <2>6, <2>7, <2>8 DEF Comes
  <2> QED BY <2>1, <2>9
<1>6. CASE DesktopUser
  <2> DEFINE m == User(created + 1)
  <2>1. Adds(<<m>>, AppendOp(<<m>>, Len(cache), FALSE)) BY <1>6, Zenon DEF DesktopUser
  <2>2. created + 1 <= MaxMessages BY <1>4, <2>1
  <2>3. m \in Message /\ m.n = created + 1 BY <1>3, <2>2
  <2> HIDE DEF m
  <2>4. Comes(AppendOp(<<m>>, Len(cache), FALSE), <<m>>) BY <1>1, <1>2, <2>3
  <2> QED BY <2>1, <2>4
<1>7. CASE DesktopReply
  <2>1. PICK u \in ToSet(db) : Adds(<<Reply(created + 1, u.turn)>>, AppendOp(<<Reply(created + 1, u.turn)>>, NoCut, TRUE))
    BY <1>7, Zenon DEF DesktopReply
  <2>0. u \in Message BY SetOf DEF TypeOK
  <2> DEFINE m == Reply(created + 1, u.turn)
  <2>2. created + 1 <= MaxMessages BY <1>4, <2>1
  <2>3. m \in Message /\ m.n = created + 1 BY <1>3, <2>0, <2>2
  <2>5. Adds(<<m>>, AppendOp(<<m>>, NoCut, TRUE)) BY <2>1
  <2> HIDE DEF m
  <2>4. Comes(AppendOp(<<m>>, NoCut, TRUE), <<m>>) BY <1>1, <1>2, <2>3
  <2> QED BY <2>5, <2>4
<1>8. CASE Proactive
  <2> DEFINE m == Push(created + 1)
  <2>1. Adds(<<m>>, AppendOp(<<m>>, NoCut, FALSE)) BY <1>8, Zenon DEF Proactive
  <2>2. created + 1 <= MaxMessages BY <1>4, <2>1
  <2>3. m \in Message /\ m.n = created + 1 BY <1>3, <2>2
  <2> HIDE DEF m
  <2>4. Comes(AppendOp(<<m>>, NoCut, FALSE), <<m>>) BY <1>1, <1>2, <2>3
  <2> QED BY <2>1, <2>4
<1>9. CASE DesktopPush
  <2> DEFINE m == Push(created + 1)
  <2>1. Adds(<<m>>, SaveAll(<<m>>, Len(cache))) BY <1>9, Zenon DEF DesktopPush
  <2>2. created + 1 <= MaxMessages BY <1>4, <2>1
  <2>3. m \in Message /\ m.n = created + 1 BY <1>3, <2>2
  <2> HIDE DEF m
  <2>4. Comes(SaveAll(<<m>>, Len(cache)), <<m>>) BY <1>1, <1>2, <2>3
  <2> QED BY <2>1, <2>4
<1> QED BY <1>5, <1>6, <1>7, <1>8, <1>9

(* The queue without its head or without one of its tasks: what is left      *)
(* stands in the same order.                                                 *)
Drawn(v, w) ==
    /\ \A i \in 1..Len(v) : \E a \in 1..Len(w) : w[a] = v[i]
    /\ \A i \in 1..Len(v) : \A j \in 1..Len(v) : i < j =>
          \E a, b \in 1..Len(w) : a < b /\ w[a] = v[i] /\ w[b] = v[j]

(* The tail of a queue.                                                      *)
LEMMA TailDrawn ==
  ASSUME NEW M, NEW w \in Seq(M), w # <<>>, NEW v, v = Tail(w)
  PROVE  /\ v \in Seq(M) /\ Drawn(v, w) /\ Head(w) \in M
         /\ 1 \in 1..Len(w) /\ Head(w) = w[1]
         /\ \A i \in 1..Len(v) : i + 1 \in 1..Len(w) /\ v[i] = w[i + 1]
<1>1. /\ Head(w) \in M /\ v \in Seq(M) /\ Len(v) = Len(w) - 1
      /\ \A i \in 1..Len(v) : v[i] = w[i + 1]
  BY HeadTailProperties
<1>2. Len(w) \in Nat \ {0} BY EmptySeq
<1>3. Head(w) = w[1] OBVIOUS
<1>4. \A i \in 1..Len(v) : i + 1 \in 1..Len(w) BY <1>1, <1>2
<1>5. \A i, j \in 1..Len(v) : i < j => i + 1 < j + 1 BY <1>1, <1>2
<1> QED BY <1>1, <1>2, <1>3, <1>4, <1>5 DEF Drawn

(* A queue without one of its tasks.                                         *)
LEMMA RemoveAtDrawn ==
  ASSUME NEW M, NEW w \in Seq(M), NEW k \in 1..Len(w), NEW v, v = RemoveAt(w, k)
  PROVE  /\ v \in Seq(M) /\ Drawn(v, w) /\ Len(v) = Len(w) - 1
         /\ \A i \in 1..Len(v) : v[i] = IF i < k THEN w[i] ELSE w[i + 1]
<1>1. Len(w) \in Nat /\ k \in Nat /\ k \in Int /\ k - 1 \in Int /\ 1 \in Int /\ Len(w) \in Int /\ k + 1 \in Int
  BY LenProperties
<1> DEFINE a == SubSeq(w, 1, k - 1)
           b == SubSeq(w, k + 1, Len(w))
<1>2. a \in Seq(M) /\ Len(a) = k - 1 /\ \A i \in 1..k - 1 : a[i] = w[i]
  <2>1. \A i \in 1..k - 1 : w[i] \in M BY <1>1, ElementOfSeq
  <2> QED BY <1>1, <2>1, SubSeqProperties
<1>3. b \in Seq(M) /\ Len(b) = Len(w) - k /\ \A i \in 1..Len(w) - k : b[i] = w[k + i]
  <2>1. \A i \in k + 1..Len(w) : w[i] \in M BY <1>1, ElementOfSeq
  <2>2. /\ b \in Seq(M) /\ Len(b) = IF k + 1 <= Len(w) THEN Len(w) - (k + 1) + 1 ELSE 0
        /\ \A i \in 1..Len(w) - (k + 1) + 1 : b[i] = w[k + 1 + i - 1]
    BY <1>1, <2>1, SubSeqProperties
  <2>3. Len(b) = Len(w) - k BY <1>1, <2>2
  <2>4. ASSUME NEW i \in 1..Len(w) - k PROVE b[i] = w[k + i]
    <3>1. i \in 1..Len(w) - (k + 1) + 1 /\ k + 1 + i - 1 = k + i BY <1>1
    <3> QED BY <2>2, <3>1
  <2> QED BY <2>2, <2>3, <2>4
<1>4. v = Cat(a, b) BY DEF RemoveAt, Cat
<1> HIDE DEF a, b
<1>5. v \in Seq(M) /\ Joins(v, a, b, Len(a), Len(b)) BY <1>2, <1>3, <1>4, CatJoins
<1>6. Len(v) = Len(w) - 1 BY <1>1, <1>2, <1>3, <1>5 DEF Joins
<1>7. ASSUME NEW i \in 1..Len(v) PROVE v[i] = IF i < k THEN w[i] ELSE w[i + 1]
  <2>1. \/ i \in 1..Len(a) /\ v[i] = a[i]
        \/ i - Len(a) \in 1..Len(b) /\ v[i] = b[i - Len(a)] /\ Len(a) < i
    BY <1>2, <1>3, <1>4, Sides
  <2>2. CASE i \in 1..Len(a) /\ v[i] = a[i] BY <1>1, <1>2, <2>2
  <2>3. CASE i - Len(a) \in 1..Len(b) /\ v[i] = b[i - Len(a)] /\ Len(a) < i
    <3> DEFINE j == i - Len(a)
    <3>1. j \in 1..Len(w) - k /\ k + j = i + 1 /\ ~(i < k) BY <1>1, <1>2, <1>3, <2>3
    <3>2. v[i] = b[j] BY <2>3
    <3> HIDE DEF j
    <3> QED BY <1>3, <3>1, <3>2
  <2> QED BY <2>1, <2>2, <2>3
<1>8. Drawn(v, w)
  <2> DEFINE at(i) == IF i < k THEN i ELSE i + 1
  <2>1. ASSUME NEW i \in 1..Len(v) PROVE at(i) \in 1..Len(w) /\ w[at(i)] = v[i]
    BY <1>1, <1>6, <1>7
  <2>2. ASSUME NEW i \in 1..Len(v), NEW j \in 1..Len(v), i < j PROVE at(i) < at(j)
    BY <1>1, <1>6, <2>2
  <2> HIDE DEF at
  <2> QED BY <2>1, <2>2 DEF Drawn
<1> QED BY <1>5, <1>6, <1>7, <1>8


(* The maintenance task's captured window.                                   *)
LEMMA CaptureTypes ==
  ASSUME TypeOK, Capture
  PROVE  /\ draft' \in Draft /\ phase' \in {"idle", "preparing"} /\ requests' \in Nat
         /\ phase' # "idle" =>
               /\ draft'.cursor = cursor /\ draft'.ids = cache
               /\ draft'.cursor < draft'.upto /\ draft'.upto <= Len(draft'.ids)
<1> DEFINE end == WindowEnd(cache, cursor)
<1>1. /\ cache \in Seq(Message) /\ cursor \in Nat /\ requests \in Nat /\ draft \in Draft
      /\ Len(cache) \in Nat /\ Keep \in Nat /\ MinNew \in Nat \ {0}
  BY SessionAssumption, LenProperties DEF TypeOK
<1>2. requests' \in Nat BY <1>1 DEF Capture
<1>3. CASE end = 0 BY <1>1, <1>2, <1>3 DEF Capture
<1>4. CASE end # 0
  <2>1. end \in Nat /\ cursor < end /\ end <= Len(cache)
    BY <1>1, <1>4 DEF WindowEnd
  <2>2. Cardinality(ToSet(cache) \ named) \in Nat
    <3>1. IsFiniteSet(ToSet(cache)) BY <1>1, FiniteToSet
    <3>2. IsFiniteSet(ToSet(cache) \ named) BY <3>1, FS_Subset
    <3> QED BY <3>2, FS_CardinalityType
  <2>3. /\ phase' = "preparing"
        /\ draft' = [ids |-> cache, blank |-> Cardinality(ToSet(cache) \ named),
                     cursor |-> cursor, upto |-> end]
    BY <1>4, Zenon DEF Capture
  <2> HIDE DEF end
  <2>4. draft' \in Draft BY <1>1, <2>1, <2>2, <2>3 DEF Draft
  <2> QED BY <1>2, <2>1, <2>3, <2>4
<1> QED BY <1>3, <1>4

(* The session starts with the right types.                                  *)
LEMMA InitTypes == Init => TypeOK
<1> SUFFICES ASSUME Init PROVE TypeOK OBVIOUS
<1>1. <<>> \in Seq(Message) /\ <<>> \in Seq(Waiter) BY EmptySeq
<1>2. MaxMessages \in Nat BY SessionAssumption
<1> QED BY <1>1, <1>2, NoDraftTypes DEF Init, TypeOK

(* A draft that is on its way has a window of its own ids.                   *)
Pending == phase # "idle" => draft.cursor < draft.upto /\ draft.upto <= Len(draft.ids)

(* The messages of s behind the first k, up to n.                            *)
Piece(s, k, n) == ToSet(SubSeq(s, k + 1, n))

(* They are those at these positions.                                        *)
LEMMA PieceSet ==
  ASSUME NEW M, NEW s \in Seq(M), NEW k \in Nat, NEW n \in Nat, k < n, n <= Len(s)
  PROVE  Piece(s, k, n) = {s[i] : i \in k + 1..n}
<1> DEFINE m == k + 1
           w == SubSeq(s, m, n)
<1>1. m \in Int /\ n \in Int /\ m \in Nat /\ m >= 1 /\ m <= n /\ Len(s) \in Nat BY LenProperties
<1> HIDE DEF m
<1>2. \A i \in m..n : i \in 1..Len(s) /\ s[i] \in M BY <1>1, ElementOfSeq
<1>3. /\ w \in Seq(M) /\ Len(w) = n - m + 1
      /\ \A i \in 1..n - m + 1 : w[i] = s[m + i - 1]
  BY <1>1, <1>2, SubSeqProperties
<1> HIDE DEF w
<1>4. ASSUME NEW x \in ToSet(w) PROVE \E i \in m..n : s[i] = x
  <2>1. PICK i \in 1..Len(w) : w[i] = x BY <1>3, SetOf
  <2>2. m + i - 1 \in m..n /\ i \in 1..n - m + 1 BY <1>1, <1>3
  <2> QED BY <1>3, <2>1, <2>2
<1>5. ASSUME NEW i \in m..n PROVE s[i] \in ToSet(w)
  <2> DEFINE j == i - m + 1
  <2>1. j \in 1..n - m + 1 /\ m + j - 1 = i /\ j \in 1..Len(w) BY <1>1, <1>3
  <2> HIDE DEF j
  <2>2. w[j] = s[i] BY <1>3, <2>1
  <2> QED BY <1>3, <2>1, <2>2, SetOf
<1>6. ToSet(w) = {s[i] : i \in m..n} BY <1>4, <1>5
<1> QED BY <1>6 DEF w, m, Piece

(* The window of such a draft.                                               *)
LEMMA WindowIs ==
  ASSUME TypeOK, Pending, phase # "idle"
  PROVE  /\ Window \subseteq Message
         /\ Window = {draft.ids[i] : i \in draft.cursor + 1..draft.upto}
<1>1. /\ draft.ids \in Seq(Message) /\ draft.cursor \in Nat /\ draft.upto \in Nat
      /\ draft.cursor < draft.upto /\ draft.upto <= Len(draft.ids)
  BY DEF TypeOK, Draft, Pending
<1>2. Window = {draft.ids[i] : i \in draft.cursor + 1..draft.upto}
  <2>1. Window = Piece(draft.ids, draft.cursor, draft.upto) BY DEF Window, Piece
  <2>2. Piece(draft.ids, draft.cursor, draft.upto) = {draft.ids[i] : i \in draft.cursor + 1..draft.upto}
    BY <1>1, PieceSet
  <2> QED BY <2>1, <2>2
<1>3. ASSUME NEW i \in draft.cursor + 1..draft.upto PROVE draft.ids[i] \in Message
  <2>1. Len(draft.ids) \in Nat BY <1>1, LenProperties
  <2>2. i \in 1..Len(draft.ids) BY <1>1, <2>1
  <2> QED BY <1>1, <2>2, ElementOfSeq
<1> QED BY <1>2, <1>3

(* Every step keeps the types.                                               *)
LEMMA NextTypes ==
  ASSUME TypeOK, Pending, Next
  PROVE  TypeOK'
<1>1. Body /\ waiting \in Seq(Waiter) /\ created \in 0..MaxMessages BY DEF TypeOK, Body
<1>2. faults' \in FaultSets BY DEF Next, TypeOK
<1>3. SUFFICES Body' /\ waiting' \in Seq(Waiter) /\ created' \in 0..MaxMessages
  BY <1>2 DEF TypeOK, Body
<1>4. CASE Turn \/ DesktopUser \/ DesktopReply \/ Proactive \/ DesktopPush
  <2>1. PICK msgs, o : Comes(o, msgs) /\ Adds(msgs, o) BY <1>4, WritersCome
  <2> QED BY <2>1, AddsTypes DEF Comes
<1>5. CASE SaveUnlocked
  <2>1. db' \in Seq(Message) BY <1>1, <1>5, SyncedTypes DEF SaveUnlocked, Body
  <2>2. ToSet(db') \subseteq Message BY <2>1, SetOf
  <2>3. UNCHANGED <<cache, cursor, waiting, phase, draft, requests, history, created>> BY <1>5 DEF SaveUnlocked
  <2>4. named' \subseteq Message BY <1>1, <1>5, <2>2 DEF SaveUnlocked, Body
  <2> QED BY <1>1, <2>1, <2>3, <2>4 DEF Body
<1>6. CASE Undo
  <2>1. Arrives(UndoLast, cache) /\ created' = created BY <1>6 DEF Undo
  <2>2. cache \in Seq(Message) BY <1>1 DEF Body
  <2> QED BY <1>1, <2>1, <2>2, PlainOps, ArrivesTypes
<1>7. CASE Grant
  <2>1. waiting # <<>> /\ waiting' = Tail(waiting) /\ Runs(Head(waiting), cache) /\ created' = created
    BY <1>7 DEF Grant
  <2>2. Head(waiting) \in Waiter /\ waiting' \in Seq(Waiter) BY <1>1, <2>1, TailDrawn
  <2>3. cache \in Seq(Message) BY <1>1 DEF Body
  <2> QED BY <1>1, <2>1, <2>2, <2>3, RunsTypes
<1>8. CASE Prepared
  <2>1. Arrives(CommitDraft, cache) /\ created' = created BY <1>8 DEF Prepared
  <2>2. cache \in Seq(Message) BY <1>1 DEF Body
  <2> QED BY <1>1, <2>1, <2>2, PlainOps, ArrivesTypes
<1>9. CASE WriteMemory
  <2>1. Window \subseteq Message BY <1>9, WindowIs DEF WriteMemory
  <2> QED BY <1>1, <1>9, <2>1 DEF WriteMemory, Body
<1>10. CASE CommitCursor
  <2>1. draft.upto \in Nat BY <1>1 DEF Body, Draft
  <2> QED BY <1>1, <1>10, <2>1 DEF CommitCursor, Body
<1>11. CASE Publish BY <1>1, <1>11, NoDraftTypes DEF Publish, Body
<1>12. CASE Cancel
  <2>1. PICK k \in DOMAIN waiting : waiting' = RemoveAt(waiting, k) BY <1>12 DEF Cancel
  <2>2. k \in 1..Len(waiting) BY <1>1, LenProperties
  <2>3. waiting' \in Seq(Waiter) BY <1>1, <2>1, <2>2, RemoveAtDrawn
  <2>4. UNCHANGED <<db, cache, cursor, phase, draft, requests, history, created, named>> BY <1>12 DEF Cancel
  <2> QED BY <1>1, <2>3, <2>4 DEF Body
<1>13. CASE Capture
  <2>1. UNCHANGED <<db, cache, cursor, waiting, history, created, named>> BY <1>13 DEF Capture
  <2>2. draft' \in Draft /\ phase' \in {"idle", "preparing"} /\ requests' \in Nat BY <1>13, CaptureTypes
  <2> QED BY <1>1, <2>1, <2>2 DEF Body
<1>14. CASE PrepareFails BY <1>1, <1>14, NoDraftTypes DEF PrepareFails, Body
<1>15. CASE CommitFails BY <1>1, <1>15, NoDraftTypes DEF CommitFails, Body
<1>16. CASE Crash
  <2>1. ToSet(db) \subseteq Message BY <1>1, SetOf DEF Body
  <2>2. <<>> \in Seq(Waiter) BY EmptySeq
  <2> QED BY <1>1, <1>16, <2>1, <2>2, NoDraftTypes DEF Crash, Body
<1> QED BY <1>4, <1>5, <1>6, <1>7, <1>8, <1>9, <1>10, <1>11, <1>12, <1>13, <1>14, <1>15, <1>16
        DEF Next, Writers, Work

(* At most one commit waits for the lock, and only while the maintenance     *)
(* task says so.                                                             *)
Queued ==
    /\ \A k \in 1..Len(waiting) : waiting[k].op = "commit" => phase = "waiting"
    /\ \A j \in 1..Len(waiting) : \A k \in 1..Len(waiting) :
          j < k => ~(waiting[j].op = "commit" /\ waiting[k].op = "commit")

(* What is left of the queue.                                                *)
LEMMA DrawnQueued ==
  ASSUME Queued, Drawn(waiting', waiting), phase' = phase
  PROVE  Queued'
<1>1. \A k \in 1..Len(waiting') : waiting'[k].op = "commit" => phase' = "waiting"
  BY DEF Drawn, Queued
<1>2. ASSUME NEW j \in 1..Len(waiting'), NEW k \in 1..Len(waiting'), j < k
      PROVE  ~(waiting'[j].op = "commit" /\ waiting'[k].op = "commit")
  <2>1. PICK a, b \in 1..Len(waiting) : a < b /\ waiting[a] = waiting'[j] /\ waiting[b] = waiting'[k]
    BY <1>2 DEF Drawn
  <2> QED BY <2>1 DEF Queued
<1> QED BY <1>1, <1>2 DEF Queued

(* A task without a draft arrives.                                           *)
LEMMA ArrivesQueued ==
  ASSUME waiting \in Seq(Waiter), Pending, Queued, NEW o \in Waiter, o.op # "commit", NEW c, Arrives(o, c)
  PROVE  Pending' /\ Queued' /\ UNCHANGED <<phase, draft>>
<1>1. CASE Free /\ Runs(o, c) /\ UNCHANGED waiting
  <2>1. UNCHANGED <<phase, draft>> BY <1>1 DEF Runs, Stores, StoreFails, Undoes
  <2>2. waiting = <<>> BY <1>1 DEF Free
  <2> QED BY <1>1, <2>1, <2>2 DEF Pending, Queued
<1>2. CASE ~Free /\ waiting' = Append(waiting, o) /\ phase' = phase /\ draft' = draft
  <2>1. /\ Len(waiting') = Len(waiting) + 1 /\ Len(waiting) \in Nat
        /\ \A i \in 1..Len(waiting) : waiting'[i] = waiting[i]
        /\ waiting'[Len(waiting) + 1] = o
    BY <1>2, AppendProperties, LenProperties
  <2>2. ASSUME NEW k \in 1..Len(waiting'), waiting'[k].op = "commit"
        PROVE  k \in 1..Len(waiting) /\ waiting[k].op = "commit"
    BY <2>1, <2>2
  <2>3. Queued' BY <1>2, <2>2 DEF Queued
  <2> QED BY <1>2, <2>3 DEF Pending
<1> QED BY <1>1, <1>2 DEF Arrives

(* Every step keeps the draft and the queue in order.                        *)
LEMMA NextQueued ==
  ASSUME TypeOK, Pending, Queued, Next
  PROVE  Pending' /\ Queued'
<1>1. waiting \in Seq(Waiter) BY DEF TypeOK
<1>2. ASSUME waiting' = waiting, phase' = phase, draft' = draft PROVE Pending' /\ Queued'
  BY <1>2 DEF Pending, Queued
<1>3. ASSUME phase # "waiting" PROVE \A k \in 1..Len(waiting) : waiting[k].op # "commit"
  BY <1>3 DEF Queued
<1>4. CASE Turn \/ DesktopUser \/ DesktopReply \/ Proactive \/ DesktopPush
  <2>1. PICK msgs, o : Comes(o, msgs) /\ Adds(msgs, o) BY <1>4, WritersCome
  <2>2. o \in Waiter /\ o.op # "commit" BY <2>1 DEF Comes
  <2> DEFINE c == cache \o msgs
  <2>3. Arrives(o, c) BY <2>1 DEF Adds
  <2> HIDE DEF c
  <2> QED BY <1>1, <2>2, <2>3, ArrivesQueued
<1>5. CASE SaveUnlocked BY <1>2, <1>5 DEF SaveUnlocked
<1>6. CASE Undo
  <2>1. Arrives(UndoLast, cache) /\ UndoLast.op # "commit" BY <1>6 DEF Undo, UndoLast
  <2> QED BY <1>1, <2>1, PlainOps, ArrivesQueued
<1>7. CASE Grant
  <2>1. waiting # <<>> /\ waiting' = Tail(waiting) /\ Runs(Head(waiting), cache) BY <1>7 DEF Grant
  <2>2. /\ Drawn(waiting', waiting) /\ 1 \in 1..Len(waiting) /\ Head(waiting) = waiting[1]
        /\ \A i \in 1..Len(waiting') : i + 1 \in 1..Len(waiting) /\ waiting'[i] = waiting[i + 1]
    BY ZenonT(60), <1>1, <2>1, TailDrawn
  <2>3. CASE Head(waiting).op # "commit"
    <3>1. UNCHANGED <<phase, draft>> BY <2>1, <2>3 DEF Runs, Stores, StoreFails, Undoes
    <3> QED BY <2>2, <3>1, DrawnQueued DEF Pending
  <2>4. CASE Head(waiting).op = "commit"
    <3>1. phase = "waiting" BY <2>2, <2>4 DEF Queued
    <3>2. Commits(cache) BY <2>1, <2>4 DEF Runs
    <3>3. Pending' BY <3>1, <3>2 DEF Commits, Pending
    <3>4. ASSUME NEW i \in 1..Len(waiting') PROVE waiting'[i].op # "commit"
      <4>1. 1 < i + 1 OBVIOUS
      <4> QED BY <2>2, <2>4, <4>1 DEF Queued
    <3> QED BY <3>3, <3>4 DEF Queued
  <2> QED BY <2>3, <2>4
<1>8. CASE Prepared
  <2>1. Arrives(CommitDraft, cache) /\ CommitDraft.op = "commit" /\ phase = "preparing"
    BY <1>8 DEF Prepared, CommitDraft
  <2>2. CASE Free /\ Runs(CommitDraft, cache) /\ UNCHANGED waiting
    <3>1. waiting = <<>> BY <2>2 DEF Free
    <3>2. Commits(cache) BY <2>1, <2>2 DEF Runs
    <3>3. Pending' BY <2>1, <3>2 DEF Commits, Pending
    <3> QED BY <2>2, <3>1, <3>3 DEF Queued
  <2>3. CASE waiting' = Append(waiting, CommitDraft) /\ phase' = "waiting" /\ draft' = draft
    <3>1. /\ Len(waiting') = Len(waiting) + 1 /\ Len(waiting) \in Nat
          /\ \A i \in 1..Len(waiting) : waiting'[i] = waiting[i]
      BY <1>1, <2>3, PlainOps, AppendProperties, LenProperties
    <3>2. ASSUME NEW j \in 1..Len(waiting'), NEW k \in 1..Len(waiting'), j < k
          PROVE  waiting'[j].op # "commit"
      <4>1. j \in 1..Len(waiting) BY <3>1, <3>2
      <4> QED BY <1>3, <2>1, <3>1, <4>1
    <3>3. Pending' BY <2>1, <2>3 DEF Pending
    <3> QED BY <2>3, <3>2, <3>3 DEF Queued
  <2> QED BY <2>1, <2>2, <2>3 DEF Arrives
<1>9. CASE WriteMemory
  <2>1. phase = "writing" /\ phase' = "written" /\ waiting' = waiting /\ draft' = draft BY <1>9 DEF WriteMemory
  <2> QED BY <1>3, <2>1 DEF Pending, Queued
<1>10. CASE CommitCursor
  <2>1. phase = "written" /\ phase' = "publishing" /\ waiting' = waiting /\ draft' = draft BY <1>10 DEF CommitCursor
  <2> QED BY <1>3, <2>1 DEF Pending, Queued
<1>11. CASE Publish
  <2>1. phase = "publishing" /\ phase' = "idle" /\ waiting' = waiting BY <1>11 DEF Publish
  <2> QED BY <1>3, <2>1 DEF Pending, Queued
<1>12. CASE Cancel
  <2>1. PICK k \in DOMAIN waiting : waiting' = RemoveAt(waiting, k) BY <1>12 DEF Cancel
  <2>2. k \in 1..Len(waiting) BY <1>1, LenProperties
  <2>3. Drawn(waiting', waiting) BY <1>1, <2>1, <2>2, RemoveAtDrawn
  <2>4. UNCHANGED <<phase, draft>> BY <1>12 DEF Cancel
  <2> QED BY <2>3, <2>4, DrawnQueued DEF Pending
<1>13. CASE Capture
  <2>1. phase = "idle" /\ waiting' = waiting BY <1>13 DEF Capture
  <2>2. phase' # "idle" => draft'.cursor < draft'.upto /\ draft'.upto <= Len(draft'.ids) BY <1>13, CaptureTypes
  <2> QED BY <1>3, <2>1, <2>2 DEF Pending, Queued
<1>14. CASE PrepareFails
  <2>1. phase = "preparing" /\ phase' = "idle" /\ waiting' = waiting BY <1>14 DEF PrepareFails
  <2> QED BY <1>3, <2>1 DEF Pending, Queued
<1>15. CASE CommitFails
  <2>1. phase # "waiting" /\ phase' = "idle" /\ waiting' = waiting BY <1>15 DEF CommitFails, Held
  <2> QED BY <1>3, <2>1 DEF Pending, Queued
<1>16. CASE Crash BY <1>16 DEF Crash, Pending, Queued
<1> QED BY <1>4, <1>5, <1>6, <1>7, <1>8, <1>9, <1>10, <1>11, <1>12, <1>13, <1>14, <1>15, <1>16
        DEF Next, Writers, Work

(* The types, the draft and the queue, in every behaviour.                   *)
TInv == TypeOK /\ Pending /\ Queued

(* They hold at the start and every step keeps them.                         *)
LEMMA TypesStep == (Init => TInv) /\ (TInv /\ [Next]_vars => TInv')
<1>1. Init => TInv
  <2>1. Init => Pending /\ Queued BY DEF Init, Pending, Queued
  <2> QED BY <2>1, InitTypes DEF TInv
<1>2. TInv /\ [Next]_vars => TInv'
  <2> SUFFICES ASSUME TInv, [Next]_vars PROVE TInv' OBVIOUS
  <2>1. CASE Next BY <2>1, NextTypes, NextQueued DEF TInv
  <2>2. CASE UNCHANGED vars BY <2>2 DEF vars, TInv, TypeOK, Pending, Queued
  <2> QED BY <2>1, <2>2
<1> QED BY <1>1, <1>2

(* The types hold in every behaviour, with all faults.                       *)
THEOREM TypeCorrect == Spec => []TypeOK
<1>1. TInv => TypeOK BY DEF TInv
<1> QED BY <1>1, TypesStep, PTL DEF Spec

-----------------------------------------------------------------------------
(* Remembered and WritesCurrent: the behaviours without a failing desktop    *)
(* writer.                                                                   *)

Clean == "cut" \notin faults

(* The parts a and b of s, on both sides of position k.                      *)
Cuts(s, k, a, b) ==
    /\ Len(a) = k /\ \A i \in 1..k : a[i] = s[i]
    /\ Len(b) = Len(s) - k /\ \A i \in 1..Len(b) : b[i] = s[k + i]

(* Two parts put together again.                                             *)
LEMMA CutsCat ==
  ASSUME NEW M, NEW s \in Seq(M), NEW k \in 0..Len(s), NEW a \in Seq(M), NEW b \in Seq(M),
         Cuts(s, k, a, b)
  PROVE  s = Cat(a, b)
<1>1. Len(s) \in Nat /\ k \in Nat /\ k <= Len(s) BY LenProperties
<1>2. Len(a) = k /\ \A i \in 1..k : a[i] = s[i] BY DEF Cuts
<1>3. Len(b) = Len(s) - k /\ \A i \in 1..Len(b) : b[i] = s[k + i] BY DEF Cuts
<1> DEFINE u == Cat(a, b)
<1>4. u = Cat(a, b) OBVIOUS
<1> HIDE DEF u
<1>5. u \in Seq(M) /\ Joins(u, a, b, Len(a), Len(b)) BY <1>4, CatJoins
<1>6. Len(u) = Len(s) BY <1>1, <1>2, <1>3, <1>5 DEF Joins
<1>7. ASSUME NEW i \in 1..Len(s) PROVE u[i] = s[i]
  <2>1. i \in 1..Len(u) BY <1>6
  <2>2. \/ i \in 1..Len(a) /\ u[i] = a[i]
        \/ i - Len(a) \in 1..Len(b) /\ u[i] = b[i - Len(a)]
    BY <1>4, <2>1, Sides
  <2>3. CASE i \in 1..Len(a) /\ u[i] = a[i] BY <1>2, <2>3
  <2>4. CASE i - Len(a) \in 1..Len(b) /\ u[i] = b[i - Len(a)]
    <3> DEFINE j == i - Len(a)
    <3>1. j \in 1..Len(b) /\ u[i] = b[j] /\ k + j = i BY <1>1, <1>2, <2>4
    <3> HIDE DEF j
    <3> QED BY <1>3, <3>1
  <2> QED BY <2>2, <2>3, <2>4
<1>8. u = s BY <1>5, <1>6, <1>7, SeqEqual
<1> QED BY <1>4, <1>8

(* A sequence has the two parts.                                             *)
LEMMA Split ==
  ASSUME NEW M, NEW s \in Seq(M), NEW k \in 0..Len(s)
  PROVE  \E a, b \in Seq(M) : Cuts(s, k, a, b) /\ s = Cat(a, b)
<1> DEFINE a == SubSeq(s, 1, k)
           b == SubSeq(s, k + 1, Len(s))
<1>1. Len(s) \in Nat /\ k \in Nat /\ k + 1 \in Int /\ k \in Int /\ 1 \in Int /\ Len(s) \in Int /\ k <= Len(s)
  BY LenProperties
<1>2. a \in Seq(M) /\ Len(a) = k /\ \A i \in 1..k : a[i] = s[i]
  BY FirstCopies DEF Copies
<1>3. b \in Seq(M) /\ Len(b) = Len(s) - k /\ \A i \in 1..Len(b) : b[i] = s[k + i]
  <2>1. \A i \in k + 1..Len(s) : s[i] \in M BY <1>1, ElementOfSeq
  <2>2. /\ b \in Seq(M) /\ Len(b) = IF k + 1 <= Len(s) THEN Len(s) - (k + 1) + 1 ELSE 0
        /\ \A i \in 1..Len(s) - (k + 1) + 1 : b[i] = s[k + 1 + i - 1]
    BY <1>1, <2>1, SubSeqProperties
  <2>3. Len(b) = Len(s) - k BY <1>1, <2>2
  <2>4. ASSUME NEW i \in 1..Len(b) PROVE b[i] = s[k + i]
    <3>1. i \in 1..Len(s) - (k + 1) + 1 /\ k + 1 + i - 1 = k + i BY <1>1, <2>3
    <3> QED BY <2>2, <3>1
  <2> QED BY <2>2, <2>3, <2>4
<1>4. Cuts(s, k, a, b) BY <1>2, <1>3 DEF Cuts
<1>5. s = Cat(a, b) BY <1>1, <1>2, <1>3, <1>4, CutsCat
<1> QED BY <1>2, <1>3, <1>4, <1>5

(* What is left of different rows without two neighbours.                    *)
LEMMA WithoutPair ==
  ASSUME NEW M, NEW s \in Seq(M), Distinct(s), NEW i \in 2..Len(s),
         NEW r, r = Without(s, {s[i - 1], s[i]})
  PROVE  /\ r \in Seq(M) /\ Len(r) = Len(s) - 2
         /\ \A k \in 1..Len(r) : r[k] = IF k <= i - 2 THEN s[k] ELSE s[k + 2]
<1> DEFINE gone == {s[i - 1], s[i]}
<1>1. Len(s) \in Nat /\ i - 2 \in 0..Len(s) /\ i \in 1..Len(s) /\ i - 1 \in 1..Len(s) BY LenProperties
<1> DEFINE K == i - 2
<1>1a. K \in 0..Len(s) BY <1>1
<1> HIDE DEF K
<1>1b. PICK a, t \in Seq(M) : Cuts(s, K, a, t) /\ s = Cat(a, t) BY <1>1a, Split
<1>2. /\ Len(a) = i - 2 /\ (\A k \in 1..i - 2 : a[k] = s[k])
      /\ Len(t) = Len(s) - (i - 2) /\ (\A k \in 1..Len(t) : t[k] = s[(i - 2) + k])
  BY <1>1b DEF Cuts, K
<1>3. Len(t) \in Nat /\ 2 \in 0..Len(t) BY <1>1, <1>2
<1>3b. PICK b, e \in Seq(M) : Cuts(t, 2, b, e) /\ t = Cat(b, e) BY <1>3, Split
<1>4. /\ Len(b) = 2 /\ (\A k \in 1..2 : b[k] = t[k])
      /\ Len(e) = Len(t) - 2 /\ (\A k \in 1..Len(e) : e[k] = t[2 + k])
  BY <1>3b DEF Cuts
<1>5. b[1] = s[i - 1] /\ b[2] = s[i]
  <2>1. 1 \in 1..2 /\ 2 \in 1..2 /\ 1 \in 1..Len(t) /\ 2 \in 1..Len(t) /\ (i - 2) + 1 = i - 1 /\ (i - 2) + 2 = i
    BY <1>1, <1>3
  <2>2. b[1] = t[1] /\ b[2] = t[2] BY <1>4, <2>1
  <2>3. t[1] = s[(i - 2) + 1] /\ t[2] = s[(i - 2) + 2] BY <1>2, <2>1
  <2> QED BY <2>1, <2>2, <2>3
<1>6. Without(b, gone) = <<>>
  <2>1. \A k \in 1..Len(b) : b[k] \in gone
    <3>1. \A k \in 1..2 : k = 1 \/ k = 2 OBVIOUS
    <3> QED BY <1>4, <1>5, <3>1
  <2> HIDE DEF gone
  <2> QED BY <1>3b, <2>1, WithoutAll
<1>7. Without(a, gone) = a
  <2>1. ASSUME NEW k \in 1..Len(a) PROVE a[k] \notin gone
    <3>1. k \in 1..Len(s) /\ k < i - 1 /\ k < i /\ a[k] = s[k] BY <1>1, <1>2
    <3> QED BY <1>1, <3>1 DEF Distinct
  <2>2. Avoids(a, gone) BY <2>1 DEF Avoids
  <2> HIDE DEF gone
  <2> QED BY <1>1b, <2>2, WithoutNone
<1>8. \A k \in 1..Len(e) : e[k] = s[i + k] /\ i + k \in 1..Len(s)
  <2> TAKE k \in 1..Len(e)
  <2>0. Len(t) = Len(s) - (i - 2) /\ Len(e) = Len(t) - 2 BY <1>2, <1>4
  <2>1. 2 + k \in 1..Len(t) /\ (i - 2) + (2 + k) = i + k /\ i + k \in 1..Len(s)
    <3>1. i \in Nat /\ k \in Nat /\ 1 <= k /\ k <= Len(e) /\ Len(e) = Len(s) - i /\ Len(t) = Len(e) + 2 BY <1>1, <2>0
    <3> QED BY <1>1, <3>1
  <2>2. e[k] = t[2 + k] BY <1>4
  <2>3. t[2 + k] = s[(i - 2) + (2 + k)] BY <1>2, <2>1
  <2> QED BY <2>1, <2>2, <2>3
<1>9. Without(e, gone) = e
  <2>1. ASSUME NEW k \in 1..Len(e) PROVE e[k] \notin gone
    <3>1. i + k \in 1..Len(s) /\ i - 1 < i + k /\ i < i + k /\ e[k] = s[i + k] BY <1>1, <1>8
    <3> QED BY <1>1, <3>1 DEF Distinct
  <2>2. Avoids(e, gone) BY <2>1 DEF Avoids
  <2> HIDE DEF gone
  <2> QED BY <1>3b, <2>2, WithoutNone
<1>10. r = Cat(a, e)
  <2> HIDE DEF gone
  <2>1. r = Without(s, gone) BY DEF gone
  <2>2. Without(t, gone) = Cat(Without(b, gone), Without(e, gone)) BY <1>3b, WithoutConcat
  <2>3. Without(t, gone) = e BY <1>3b, <1>6, <1>9, <2>2, ConcatEmptySeq DEF Cat
  <2>4. Without(s, gone) = Cat(Without(a, gone), Without(t, gone)) BY <1>1b, WithoutConcat
  <2> QED BY <1>7, <2>1, <2>3, <2>4
<1>11. r \in Seq(M) /\ Joins(r, a, e, Len(a), Len(e)) BY <1>1b, <1>3b, <1>10, CatJoins
<1>12. Len(r) = Len(s) - 2 BY <1>1, <1>2, <1>4, <1>11 DEF Joins
<1>13. ASSUME NEW k \in 1..Len(r) PROVE r[k] = IF k <= i - 2 THEN s[k] ELSE s[k + 2]
  <2>1. \/ k \in 1..Len(a) /\ r[k] = a[k]
        \/ k - Len(a) \in 1..Len(e) /\ r[k] = e[k - Len(a)] /\ Len(a) < k
    BY <1>1b, <1>3b, <1>10, Sides
  <2>2. CASE k \in 1..Len(a) /\ r[k] = a[k] BY SMTT(40), <1>1, <1>2, <2>2
  <2>3. CASE k - Len(a) \in 1..Len(e) /\ r[k] = e[k - Len(a)] /\ Len(a) < k
    <3> DEFINE j == k - Len(a)
    <3>0. Len(a) = i - 2 /\ i \in Nat /\ k \in Nat BY <1>1, <1>2, <1>12
    <3>1. j \in 1..Len(e) /\ r[k] = e[j] BY <2>3
    <3>1a. i + j = k + 2 /\ ~(k <= i - 2) BY <2>3, <3>0
    <3> HIDE DEF j
    <3>2. e[j] = s[i + j] BY <1>8, <3>1
    <3> QED BY <3>1, <3>1a, <3>2
  <2> QED BY <2>1, <2>2, <2>3
<1> QED BY <1>11, <1>12, <1>13


(* The cache c holds every row, the rows and the cached messages differ, and *)
(* no message that is cached or has an id is numbered beyond top.            *)
Holds(c, top) ==
    /\ ToSet(db) \subseteq named /\ ToSet(db) \subseteq ToSet(c)
    /\ Distinct(db) /\ Distinct(c)
    /\ \A m \in ToSet(c) \cup named : m.n <= top

(* The messages of a task that waits have ids or are cached.                 *)
Waits(o, known, held, top) ==
    /\ Distinct(o.msgs)
    /\ \A m \in ToSet(o.msgs) : m.n <= top /\ (m \in known \/ m \in held)

Waiters == \A k \in 1..Len(waiting) : Waits(waiting[k], named, ToSet(cache), created)

(* While the commit holds the lock its draft is the beginning of the rows    *)
(* and begins at the cursor; once written, its window is in the memory.      *)
Drafted ==
    /\ phase \in {"writing", "written"} => cursor = draft.cursor /\ IsPrefix(draft.ids, db)
    /\ phase = "written" => Window \subseteq UNION history

(* What Remembered says of these behaviours.                                 *)
Behind == cursor <= Len(db) /\ \A i \in 1..cursor : db[i] \in UNION history

CleanInv == Holds(cache, created) /\ Waiters /\ Drafted /\ Behind

(* A task that is about to run on the cache c.                               *)
Ready(o, c, top) ==
    /\ o \in Waiter /\ c \in Seq(Message)
    /\ Holds(c, top) /\ Waits(o, named, ToSet(c), top)

(* The rows grow by cached messages, and the messages with an id too.        *)
Grows(c) ==
    /\ db' \in Seq(Message) /\ IsPrefix(db, db') /\ Distinct(db')
    /\ ToSet(db) \subseteq ToSet(db') /\ ToSet(db') \subseteq ToSet(c)
    /\ named \cup ToSet(db') \subseteq named' /\ named' \subseteq named \cup ToSet(c)

(* A write only adds rows.                                                   *)
LEMMA StoresGrow ==
  ASSUME TypeOK, NEW o, NEW c, NEW top, Ready(o, c, top), Stores(o, c)
  PROVE  Grows(c)
<1>1. /\ db \in Seq(Message) /\ c \in Seq(Message) /\ o.msgs \in Seq(Message)
      /\ Distinct(db) /\ Distinct(c) /\ Distinct(o.msgs)
      /\ ToSet(db) \subseteq named /\ ToSet(db) \subseteq ToSet(c)
      /\ ToSet(o.msgs) \ named \subseteq ToSet(c)
  BY DEF TypeOK, Ready, Holds, Waits, Waiter
<1>2. CASE o.op = "append"
  <2>1. db' = Inserted(db, o.msgs) BY <1>2 DEF Stores
  <2>2. /\ db' \in Seq(Message) /\ IsPrefix(db, db') /\ Distinct(db')
        /\ ToSet(db') = ToSet(db) \cup (ToSet(o.msgs) \ named)
    BY <1>1, <2>1, InsertedGrows
  <2> QED BY <1>1, <2>2 DEF Stores, Grows
<1>3. CASE o.op # "append"
  <2>1. db' = Synced(db, c) BY <1>3 DEF Stores
  <2>2. db' \in Seq(Message) /\ IsPrefix(db, db') /\ Distinct(db') /\ ToSet(db') = ToSet(c)
    BY <1>1, <2>1, SyncedGrows
  <2> QED BY <1>1, <2>2 DEF Stores, Grows
<1> QED BY <1>2, <1>3

(* So does a write that fails, when it is not that of a desktop writer.      *)
LEMMA StoreFailsGrow ==
  ASSUME TypeOK, Clean, NEW o, NEW c, NEW top, Ready(o, c, top), StoreFails(o, c)
  PROVE  Grows(c) /\ cache' = c
<1>1. /\ db \in Seq(Message) /\ c \in Seq(Message) /\ o.msgs \in Seq(Message)
      /\ Distinct(db) /\ Distinct(c) /\ Distinct(o.msgs)
      /\ ToSet(db) \subseteq named /\ ToSet(db) \subseteq ToSet(c)
      /\ ToSet(o.msgs) \ named \subseteq ToSet(c)
  BY DEF TypeOK, Ready, Holds, Waits, Waiter
<1>2. cache' = c BY DEF StoreFails, Clean
<1>3. CASE o.op = "save" /\ NeedsSync(db, c)
  <2>1. db' = db /\ named' = named \cup ToSet(c) BY <1>3 DEF StoreFails
  <2>2. IsPrefix(db, db) BY <1>1, LenProperties, PrefixIff
  <2> QED BY <1>1, <1>2, <2>1, <2>2 DEF Grows
<1>4. CASE ~(o.op = "save" /\ NeedsSync(db, c))
  <2> DEFINE msgs == IF o.op = "append" THEN o.msgs ELSE c
             new == Without(msgs, named)
  <2>1. msgs \in Seq(Message) /\ Distinct(msgs) /\ ToSet(msgs) \ named \subseteq ToSet(c) BY <1>1
  <2>2. PICK k \in 0..Len(new) - 1 : db' = db \o SubSeq(new, 1, k)
    BY <1>4, Zenon DEF StoreFails
  <2>3. named' = named \cup ToSet(db') BY <1>4, Zenon DEF StoreFails
  <2>4. new = Without(msgs, named) OBVIOUS
  <2> HIDE DEF msgs, new
  <2>5. db' = Cat(db, SubSeq(new, 1, k)) BY <2>2 DEF Cat
  <2>6. /\ db' \in Seq(Message) /\ IsPrefix(db, db') /\ Distinct(db')
        /\ ToSet(db) \subseteq ToSet(db') /\ ToSet(db') \subseteq ToSet(db) \cup (ToSet(msgs) \ named)
    BY SMTT(40), <1>1, <2>1, <2>4, <2>5, FailedGrows
  <2> QED BY <1>1, <1>2, <2>1, <2>3, <2>6 DEF Grows
<1> QED BY <1>3, <1>4

(* An undo that finds a turn: two neighbouring rows leave, and the cursor    *)
(* does not pass the first of them.                                          *)
Retracts(c, i) ==
    /\ i \in 2..Len(db) /\ i - 1 \in 1..Len(db) /\ i \in 1..Len(db)
    /\ db' = Without(db, {db[i - 1], db[i]}) /\ cache' = Without(c, {db[i - 1], db[i]})
    /\ cursor' \in Nat /\ cursor' <= cursor /\ cursor' <= i - 2

(* It is one, or nothing changes.                                            *)
LEMMA UndoesRetracts ==
  ASSUME TypeOK, NEW c, Undoes(c)
  PROVE  (UNCHANGED <<db, cursor>> /\ cache' = c) \/ (\E i \in Nat : Retracts(c, i))
<1>1. CASE TurnEnds(db) = {} BY <1>1 DEF Undoes
<1>2. CASE TurnEnds(db) # {}
  <2> DEFINE i == Max(TurnEnds(db))
  <2>1. db \in Seq(Message) /\ cursor \in Nat BY DEF TypeOK
  <2>2. i \in 2..Len(db) /\ Len(db) \in Nat BY <1>2, <2>1, LastTurn
  <2>3. /\ db' = Without(db, {db[i - 1], db[i]}) /\ cache' = Without(c, {db[i - 1], db[i]})
        /\ \E sources : cursor' = UndoCursor(db, i, RollbackIndex(db, i, cursor, sources))
    BY <1>2, Zenon DEF Undoes
  <2> HIDE DEF i
  <2>4. cursor' \in Nat /\ cursor' <= cursor /\ cursor' <= i - 2 BY <2>1, <2>2, <2>3, UndoCursorBounds
  <2>5. i \in Nat /\ i - 1 \in 1..Len(db) /\ i \in 1..Len(db) BY <2>2
  <2>6. Retracts(c, i) BY <2>2, <2>3, <2>4, <2>5 DEF Retracts
  <2> QED BY <2>5, <2>6
<1> QED BY <1>1, <1>2

(* The rows after an undo, by positions.                                     *)
LEMMA RetractsRows ==
  ASSUME TypeOK, Distinct(db), NEW c, NEW i \in Nat, Retracts(c, i)
  PROVE  /\ Len(db') = Len(db) - 2
         /\ \A k \in 1..Len(db') : db'[k] = IF k <= i - 2 THEN db[k] ELSE db[k + 2]
<1>1. db \in Seq(Message) /\ i \in 2..Len(db) BY DEF TypeOK, Retracts
<1> DEFINE r == db'
<1>2. r = Without(db, {db[i - 1], db[i]}) BY DEF Retracts
<1> HIDE DEF r
<1>3. Len(r) = Len(db) - 2 /\ \A k \in 1..Len(r) : r[k] = IF k <= i - 2 THEN db[k] ELSE db[k + 2]
  BY SMTT(40), <1>1, <1>2, WithoutPair
<1> QED BY <1>3 DEF r


(* What the lock's holder leaves: the cache holds the rows, and whatever it  *)
(* found in the cache c is cached still or has an id.                        *)
LEMMA RunsHold ==
  ASSUME TypeOK, Clean, NEW o, NEW c, NEW top, Ready(o, c, top), created' = top, Runs(o, c)
  PROVE  /\ Holds(cache, created)'
         /\ named \subseteq named' /\ \A m \in ToSet(c) : m \in named' \/ m \in ToSet(cache')
<1>1. /\ db \in Seq(Message) /\ c \in Seq(Message) /\ Distinct(db) /\ Distinct(c)
      /\ ToSet(db) \subseteq named /\ ToSet(db) \subseteq ToSet(c)
      /\ \A m \in ToSet(c) \cup named : m.n <= top
  BY DEF TypeOK, Ready, Holds
<1>2. CASE Grows(c) /\ cache' = c
  <2>1. /\ Distinct(db') /\ ToSet(db') \subseteq ToSet(c)
        /\ named \cup ToSet(db') \subseteq named' /\ named' \subseteq named \cup ToSet(c)
    BY <1>2 DEF Grows
  <2> QED BY <1>1, <1>2, <2>1 DEF Holds
<1>3. CASE UNCHANGED <<db, named>> /\ cache' = c BY <1>1, <1>3 DEF Holds
<1>4. ASSUME NEW i \in Nat, Retracts(c, i), named' = named
      PROVE  Holds(cache, created)' /\ \A m \in ToSet(c) : m \in named' \/ m \in ToSet(cache')
  <2> DEFINE gone == {db[i - 1], db[i]}
  <2>1. gone \subseteq ToSet(db) BY <1>1, <1>4, SetOf DEF Retracts
  <2>2. db' = Without(db, gone) /\ cache' = Without(c, gone) BY <1>4 DEF Retracts
  <2> HIDE DEF gone
  <2>3. ToSet(db') = ToSet(db) \ gone /\ Distinct(db') BY <1>1, <2>2, WithoutKeeps
  <2>4. ToSet(cache') = ToSet(c) \ gone /\ Distinct(cache') BY <1>1, <2>2, WithoutKeeps
  <2> QED BY <1>1, <1>4, <2>1, <2>3, <2>4 DEF Holds
<1>5. CASE Stores(o, c)
  <2>1. Grows(c) /\ cache' = c BY <1>5, StoresGrow DEF Stores
  <2> QED BY <1>2, <2>1 DEF Grows
<1>6. CASE StoreFails(o, c)
  <2>1. Grows(c) /\ cache' = c BY <1>6, StoreFailsGrow
  <2> QED BY <1>2, <2>1 DEF Grows
<1>7. CASE Undoes(c)
  <2>1. named' = named BY <1>7 DEF Undoes
  <2>2. CASE UNCHANGED db /\ cache' = c BY <1>1, <1>3, <2>1, <2>2
  <2>3. CASE \E i \in Nat : Retracts(c, i) BY <1>4, <2>1, <2>3
  <2> QED BY <1>7, <2>2, <2>3, UndoesRetracts
<1>8. CASE Commits(c)
  <2>1. UNCHANGED <<db, named>> /\ cache' = c BY <1>8 DEF Commits
  <2> QED BY <1>1, <1>3, <2>1
<1> QED BY <1>5, <1>6, <1>7, <1>8 DEF Runs

(* Rows that only grow keep what is behind the cursor.                       *)
LEMMA GrowsBehind ==
  ASSUME TypeOK, Behind, db' \in Seq(Message), IsPrefix(db, db'), UNCHANGED <<cursor, history>>
  PROVE  Behind'
<1>1. db \in Seq(Message) /\ cursor \in Nat /\ Len(db) \in Nat BY LenProperties DEF TypeOK
<1>2. Len(db) <= Len(db') /\ \A i \in 1..Len(db) : db[i] = db'[i] BY <1>1, PrefixIff
<1>3. Len(db') \in Nat BY LenProperties
<1>4. \A i \in 1..cursor : i \in 1..Len(db) BY <1>1 DEF Behind
<1> QED BY <1>1, <1>2, <1>3, <1>4 DEF Behind

(* So does the holder of the lock: an undo moves the cursor back before the  *)
(* rows it deletes.                                                          *)
LEMMA RunsBehind ==
  ASSUME TypeOK, Clean, NEW o, NEW c, NEW top, Ready(o, c, top), Runs(o, c), Behind
  PROVE  Behind'
<1>1. CASE Grows(c) /\ UNCHANGED <<cursor, history>> BY <1>1, GrowsBehind DEF Grows
<1>2. CASE UNCHANGED <<db, cursor, history>> BY <1>2 DEF Behind
<1>3. CASE Stores(o, c)
  <2>1. Grows(c) /\ UNCHANGED <<cursor, history>> BY <1>3, StoresGrow DEF Stores
  <2> QED BY <1>1, <2>1
<1>4. CASE StoreFails(o, c)
  <2>1. Grows(c) /\ UNCHANGED <<cursor, history>> BY <1>4, StoreFailsGrow DEF StoreFails
  <2> QED BY <1>1, <2>1
<1>5. CASE Undoes(c)
  <2>1. history' = history BY <1>5 DEF Undoes
  <2>2. ASSUME NEW i \in Nat, Retracts(c, i) PROVE Behind'
    <3>1. Distinct(db) BY DEF Ready, Holds
    <3>2. /\ Len(db') = Len(db) - 2
          /\ \A k \in 1..Len(db') : db'[k] = IF k <= i - 2 THEN db[k] ELSE db[k + 2]
      BY <2>2, <3>1, RetractsRows
    <3>3. cursor' \in Nat /\ cursor' <= cursor /\ cursor' <= i - 2 /\ i \in 2..Len(db) BY <2>2 DEF Retracts
    <3>4. Len(db) \in Nat /\ cursor \in Nat BY LenProperties DEF TypeOK
    <3>5. cursor' <= Len(db') BY <3>2, <3>3, <3>4
    <3>6. ASSUME NEW k \in 1..cursor' PROVE db'[k] \in UNION history
      <4>1. k \in 1..Len(db') /\ k <= i - 2 /\ k \in 1..cursor
        <5>1. Len(db') = Len(db) - 2 BY <3>2
        <5> QED BY <5>1, <3>3, <3>4
      <4>2. db'[k] = db[k] BY <3>2, <4>1
      <4> QED BY <4>1, <4>2 DEF Behind
    <3> QED BY <2>1, <3>5, <3>6 DEF Behind
  <2>3. CASE UNCHANGED <<db, cursor>> BY <1>2, <2>1, <2>3
  <2> QED BY <1>5, <2>2, <2>3, UndoesRetracts
<1>6. CASE Commits(c)
  <2>1. UNCHANGED <<db, cursor, history>> BY <1>6 DEF Commits
  <2> QED BY <1>2, <2>1
<1> QED BY <1>3, <1>4, <1>5, <1>6 DEF Runs

(* A commit takes the lock for good only with a current draft.               *)
LEMMA RunsDrafted ==
  ASSUME TypeOK, NEW o, NEW c, ~Held, Runs(o, c)
  PROVE  Drafted'
<1>1. CASE phase' = phase
  <2>1. phase' \notin {"writing", "written"} BY <1>1 DEF Held
  <2> QED BY <2>1 DEF Drafted
<1>2. CASE Commits(c)
  <2>1. CASE Current(db, cursor, draft)
    <3>1. phase' = "writing" /\ UNCHANGED <<draft, cursor, db>> BY <1>2, <2>1 DEF Commits
    <3>2. cursor = draft.cursor /\ IsPrefix(draft.ids, db) BY <2>1 DEF Current
    <3>3. cursor' = draft'.cursor /\ IsPrefix(draft'.ids, db') BY <3>1, <3>2
    <3> QED BY <3>1, <3>3 DEF Drafted
  <2>2. CASE ~Current(db, cursor, draft)
    <3>1. phase' = "idle" BY <1>2, <2>2 DEF Commits
    <3> QED BY <3>1 DEF Drafted
  <2> QED BY <2>1, <2>2
<1>3. Stores(o, c) \/ StoreFails(o, c) \/ Undoes(c) => phase' = phase
  BY DEF Stores, StoreFails, Undoes
<1> QED BY <1>1, <1>2, <1>3 DEF Runs

(* A task that waits keeps waiting with messages that are known or cached.   *)
LEMMA WaitsStay ==
  ASSUME NEW o, NEW known, NEW held, NEW top, NEW known2, NEW held2, NEW top2,
         Waits(o, known, held, top), o.msgs \in Seq(Message), top \in Nat, top2 \in Nat, top <= top2,
         known \subseteq known2, \A m \in held : m \in known2 \/ m \in held2
  PROVE  Waits(o, known2, held2, top2)
<1>1. \A m \in ToSet(o.msgs) : m.n \in Nat
  <2>1. ToSet(o.msgs) \subseteq Message BY SetOf
  <2>2. MaxMessages \in Nat BY SessionAssumption
  <2> QED BY <2>1, <2>2 DEF Message
<1> QED BY <1>1 DEF Waits

(* So do all the tasks of the queue that are left.                           *)
LEMMA DrawnWait ==
  ASSUME TypeOK, TypeOK', Waiters, Drawn(waiting', waiting) \/ waiting' = waiting, created <= created',
         named \subseteq named', \A m \in ToSet(cache) : m \in named' \/ m \in ToSet(cache')
  PROVE  Waiters'
<1>1. created \in Nat /\ created' \in Nat BY DEF TypeOK
<1> SUFFICES ASSUME NEW k \in 1..Len(waiting')
             PROVE  Waits(waiting'[k], named', ToSet(cache'), created')
  BY DEF Waiters
<1>2. PICK a \in 1..Len(waiting) : waiting[a] = waiting'[k] BY DEF Drawn
<1>3. Waits(waiting'[k], named, ToSet(cache), created) BY <1>2 DEF Waiters
<1> DEFINE o == waiting'[k]
<1>4. o \in Waiter BY ElementOfSeq DEF TypeOK
<1>5. o.msgs \in Seq(Message) BY <1>4 DEF Waiter
<1>6. Waits(o, named, ToSet(cache), created) BY <1>3
<1> HIDE DEF o
<1>7. Waits(o, named', ToSet(cache'), created') BY <1>1, <1>5, <1>6, WaitsStay
<1> QED BY <1>7 DEF o


(* A task takes the lock or joins the queue.                                 *)
LEMMA ArrivesClean ==
  ASSUME TypeOK, TypeOK', Clean, NEW o, NEW c, NEW top, Ready(o, c, top), created' = top, created <= top,
         ToSet(cache) \subseteq ToSet(c), Waiters, Drafted, Behind, Arrives(o, c)
  PROVE  CleanInv'
<1>1. CASE Free /\ Runs(o, c) /\ UNCHANGED waiting
  <2>1. Holds(cache, created)' BY <1>1, RunsHold
  <2>2. Behind' BY <1>1, RunsBehind
  <2>3. Drafted' BY <1>1, RunsDrafted DEF Free
  <2>4. Waiters'
    <3>1. waiting' = <<>> BY <1>1 DEF Free
    <3> QED BY <3>1 DEF Waiters
  <2> QED BY <2>1, <2>2, <2>3, <2>4 DEF CleanInv
<1>2. CASE /\ waiting' = Append(waiting, o) /\ cache' = c
           /\ UNCHANGED <<db, cursor, draft, requests, history, named>>
           /\ phase' = IF o.op = "commit" THEN "waiting" ELSE phase
  <2>1. Holds(cache, created)' BY <1>2 DEF Ready, Holds
  <2>2. Behind' BY <1>2 DEF Behind
  <2>3. Drafted' BY <1>2 DEF Drafted, Window
  <2>4. Waiters'
    <3>1. o \in Waiter /\ waiting \in Seq(Waiter) BY DEF TypeOK, Ready
    <3>2. /\ Len(waiting') = Len(waiting) + 1 /\ Len(waiting) \in Nat
          /\ \A i \in 1..Len(waiting) : waiting'[i] = waiting[i]
          /\ waiting'[Len(waiting) + 1] = o
      BY <1>2, <3>1, AppendProperties, LenProperties
    <3>3. Waits(o, named', ToSet(cache'), created') BY <1>2 DEF Ready
    <3>4. ASSUME NEW k \in 1..Len(waiting) PROVE Waits(waiting[k], named', ToSet(cache'), created')
      <4> DEFINE p == waiting[k]
      <4>1. p \in Waiter BY <3>1, ElementOfSeq
      <4>2. Waits(p, named, ToSet(cache), created) BY DEF Waiters
      <4>3. p.msgs \in Seq(Message) BY <4>1 DEF Waiter
      <4> HIDE DEF p
      <4>4. created \in Nat /\ created' \in Nat /\ created <= created' BY DEF TypeOK
      <4>5. named \subseteq named' /\ \A m \in ToSet(cache) : m \in named' \/ m \in ToSet(cache') BY <1>2
      <4>6. Waits(p, named', ToSet(cache'), created') BY <4>2, <4>3, <4>4, <4>5, WaitsStay
      <4> QED BY <4>6 DEF p
    <3>5. ASSUME NEW k \in 1..Len(waiting') PROVE Waits(waiting'[k], named', ToSet(cache'), created')
      <4>1. k \in 1..Len(waiting) \/ k = Len(waiting) + 1 BY <3>2
      <4> QED BY <3>2, <3>3, <3>4, <4>1
    <3> QED BY <3>5 DEF Waiters
  <2> QED BY <2>1, <2>2, <2>3, <2>4 DEF CleanInv
<1> QED BY <1>1, <1>2 DEF Arrives

(* Rising numbers are different messages.                                    *)
LEMMA RisingDistinct ==
  ASSUME NEW s \in Seq(Message), Rising(s)
  PROVE  Distinct(s)
<1> SUFFICES ASSUME NEW i \in 1..Len(s), NEW j \in 1..Len(s), i < j, s[i] = s[j] PROVE FALSE
  BY DEF Distinct
<1>1. s[i].n < s[i].n BY DEF Rising
<1>2. s[i].n \in Nat
  <2>1. s[i] \in Message BY ElementOfSeq
  <2>2. MaxMessages \in Nat BY SessionAssumption
  <2> QED BY <2>1, <2>2 DEF Message
<1> QED BY <1>1, <1>2

(* A writer that comes with new messages is ready on the extended cache.     *)
LEMMA ComesReady ==
  ASSUME TypeOK, Holds(cache, created), NEW o, NEW msgs, Comes(o, msgs),
         NEW c, c = Cat(cache, msgs), NEW top, top = created + Len(msgs)
  PROVE  /\ Ready(o, c, top) /\ created <= top /\ ToSet(c) = ToSet(cache) \cup ToSet(msgs)
         /\ c \in Seq(Message) /\ \A m \in ToSet(msgs) : m \notin named /\ m \notin ToSet(cache)
<1>1. /\ cache \in Seq(Message) /\ db \in Seq(Message) /\ created \in Nat /\ named \subseteq Message
      /\ msgs \in Seq(Message) /\ Len(msgs) \in Nat /\ o \in Waiter /\ o.msgs = msgs
  BY DEF TypeOK, Comes
<1>2. c \in Seq(Message) /\ ToSet(c) = ToSet(cache) \cup ToSet(msgs) BY <1>1, CatParts
<1>3. created <= top BY <1>1
<1>4. \A m \in Message : m.n \in Nat
  <2>1. MaxMessages \in Nat BY SessionAssumption
  <2> QED BY <2>1 DEF Message
<1>5. ToSet(cache) \subseteq Message /\ ToSet(msgs) \subseteq Message BY <1>1, SetOf
<1>6. \A m \in ToSet(cache) \cup named : m.n <= created BY DEF Holds
<1>7. \A m \in ToSet(msgs) : created < m.n /\ m.n <= top BY DEF Comes
<1>8. \A m \in ToSet(msgs) : m \notin named /\ m \notin ToSet(cache) BY <1>1, <1>4, <1>5, <1>6, <1>7
<1>9. \A m \in ToSet(c) \cup named : m.n <= top
  <2> TAKE m \in ToSet(c) \cup named
  <2>1. CASE m \in ToSet(msgs) BY <1>7, <2>1
  <2>2. CASE m \in ToSet(cache) \cup named
    <3>1. m.n \in Nat /\ m.n <= created BY <1>1, <1>4, <1>5, <1>6, <2>2
    <3> QED BY <1>1, <3>1
  <2> QED BY <1>2, <2>1, <2>2
<1>10. Distinct(msgs) BY <1>1, RisingDistinct DEF Comes
<1>11. Distinct(c)
  <2>1. Distinct(cache) /\ ToSet(cache) \cap ToSet(msgs) = {} BY <1>8 DEF Holds
  <2> QED BY <1>1, <1>10, <2>1, CatDistinct
<1>12. Holds(c, top) BY <1>2, <1>9, <1>11 DEF Holds
<1>13. Waits(o, named, ToSet(c), top) BY <1>1, <1>2, <1>7, <1>10 DEF Waits
<1> QED BY <1>1, <1>2, <1>3, <1>8, <1>12, <1>13 DEF Ready

(* A task without messages is ready on the cache as it is.                   *)
LEMMA PlainReady ==
  ASSUME TypeOK, Holds(cache, created), NEW o \in {UndoLast, CommitDraft}
  PROVE  Ready(o, cache, created)
<1>1. o \in Waiter /\ cache \in Seq(Message) BY PlainOps DEF TypeOK
<1>2. o.msgs = <<>> BY DEF UndoLast, CommitDraft
<1>3. Waits(o, named, ToSet(cache), created)
  <2>1. ToSet(<<>>) = {} BY DEF ToSet
  <2>2. Distinct(<<>>) BY DEF Distinct
  <2> QED BY <1>2, <2>1, <2>2 DEF Waits
<1> QED BY <1>1, <1>3 DEF Ready


(* A prefix of a prefix.                                                     *)
LEMMA PrefixOn ==
  ASSUME NEW M, NEW s \in Seq(M), NEW t \in Seq(M), NEW u \in Seq(M), IsPrefix(s, t), IsPrefix(t, u)
  PROVE  IsPrefix(s, u)
<1>1. Len(s) \in Nat /\ Len(t) \in Nat /\ Len(u) \in Nat BY LenProperties
<1>2. Len(s) <= Len(t) /\ \A i \in 1..Len(s) : s[i] = t[i] BY PrefixIff
<1>3. Len(t) <= Len(u) /\ \A i \in 1..Len(t) : t[i] = u[i] BY PrefixIff
<1>4. Len(s) <= Len(u) /\ \A i \in 1..Len(s) : i \in 1..Len(t) BY <1>1, <1>2, <1>3
<1>5. \A i \in 1..Len(s) : s[i] = u[i] BY <1>2, <1>3, <1>4
<1> QED BY <1>4, <1>5, PrefixIff

(* What the commit wrote lies between the cursor and the end of its window.  *)
LEMMA WrittenRows ==
  ASSUME TypeOK, Pending, Drafted, phase \in {"writing", "written"}
  PROVE  /\ cursor < draft.upto /\ draft.upto <= Len(db) /\ draft.upto \in Nat /\ Len(db) \in Nat
         /\ Window = {db[i] : i \in cursor + 1..draft.upto}
<1>1. /\ draft.ids \in Seq(Message) /\ draft.cursor \in Nat /\ draft.upto \in Nat
      /\ db \in Seq(Message) /\ cursor \in Nat
  BY DEF TypeOK, Draft
<1>2. /\ draft.cursor < draft.upto /\ draft.upto <= Len(draft.ids)
      /\ cursor = draft.cursor /\ IsPrefix(draft.ids, db)
  BY DEF Pending, Drafted
<1>3. Len(draft.ids) \in Nat /\ Len(db) \in Nat BY <1>1, LenProperties
<1>4. Len(draft.ids) <= Len(db) /\ \A i \in 1..Len(draft.ids) : draft.ids[i] = db[i]
  BY SMTT(40), <1>1, <1>2, PrefixIff
<1>5. Window = {draft.ids[i] : i \in draft.cursor + 1..draft.upto} BY WindowIs
<1>6. \A i \in cursor + 1..draft.upto : i \in 1..Len(draft.ids) /\ draft.ids[i] = db[i]
  BY <1>1, <1>2, <1>3, <1>4
<1>7. Window = {db[i] : i \in cursor + 1..draft.upto} BY <1>2, <1>5, <1>6
<1> QED BY <1>1, <1>2, <1>3, <1>4, <1>7

(* Every step of these behaviours keeps the invariant.                       *)
LEMMA NextClean ==
  ASSUME TInv, TypeOK', CleanInv, Clean, Next
  PROVE  CleanInv'
<1>1. /\ TypeOK /\ Pending /\ Queued /\ Holds(cache, created) /\ Waiters /\ Drafted /\ Behind
      /\ created \in Nat /\ created <= created
  BY DEF TInv, TypeOK, CleanInv
<1>2. ASSUME UNCHANGED <<db, cache, cursor, history, created, named>>,
             Drawn(waiting', waiting) \/ waiting' = waiting, Drafted'
      PROVE  CleanInv'
  <2>1. Holds(cache, created)' BY <1>1, <1>2 DEF Holds
  <2>2. Waiters' BY <1>1, <1>2, DrawnWait
  <2>3. Behind' BY <1>1, <1>2 DEF Behind
  <2> QED BY <1>2, <2>1, <2>2, <2>3 DEF CleanInv
<1>3. phase' \notin {"writing", "written"} => Drafted' BY DEF Drafted
<1>4. CASE Turn \/ DesktopUser \/ DesktopReply \/ Proactive \/ DesktopPush
  <2>1. PICK msgs, o : Comes(o, msgs) /\ Adds(msgs, o) BY <1>1, <1>4, WritersCome
  <2> DEFINE c == Cat(cache, msgs)
             top == created + Len(msgs)
  <2>2. Arrives(o, c) /\ created' = top BY <2>1 DEF Adds, Cat
  <2>3. c = Cat(cache, msgs) /\ top = created + Len(msgs) OBVIOUS
  <2> HIDE DEF c, top
  <2>4. Ready(o, c, top) /\ created <= top /\ ToSet(cache) \subseteq ToSet(c)
    BY <1>1, <2>1, <2>3, ComesReady
  <2> QED BY <1>1, <2>2, <2>4, ArrivesClean
<1>5. CASE SaveUnlocked
  <2>1. /\ db \in Seq(Message) /\ cache \in Seq(Message) /\ draft.ids \in Seq(Message)
        /\ Distinct(db) /\ Distinct(cache) /\ ToSet(db) \subseteq ToSet(cache) /\ ToSet(db) \subseteq named
        /\ \A m \in ToSet(cache) \cup named : m.n <= created
    BY <1>1 DEF TypeOK, Draft, Holds
  <2>2. db' = Synced(db, cache) /\ named' = named \cup ToSet(db') BY <1>5 DEF SaveUnlocked
  <2>3. db' \in Seq(Message) /\ IsPrefix(db, db') /\ Distinct(db') /\ ToSet(db') = ToSet(cache)
    BY <2>1, <2>2, SyncedGrows
  <2>4. UNCHANGED <<cache, cursor, waiting, phase, draft, requests, history, created>> BY <1>5 DEF SaveUnlocked
  <2>5. Holds(cache, created)' BY <2>1, <2>2, <2>3, <2>4 DEF Holds
  <2>6. Waiters' BY <1>1, <2>2, <2>4, DrawnWait
  <2>7. Behind' BY <1>1, <2>3, <2>4, GrowsBehind
  <2>8. Drafted'
    <3>1. Window' = Window BY <2>4 DEF Window
    <3>2. IsPrefix(draft.ids, db) => IsPrefix(draft.ids, db') BY <2>1, <2>3, PrefixOn
    <3> QED BY <1>1, <2>4, <3>1, <3>2 DEF Drafted
  <2> QED BY <2>5, <2>6, <2>7, <2>8 DEF CleanInv
<1>6. CASE Undo
  <2>1. Arrives(UndoLast, cache) /\ created' = created BY <1>6 DEF Undo
  <2>2. Ready(UndoLast, cache, created) BY <1>1, PlainReady
  <2> QED BY <1>1, <2>1, <2>2, ArrivesClean
<1>7. CASE Grant
  <2>1. ~Held /\ waiting # <<>> /\ waiting' = Tail(waiting) /\ Runs(Head(waiting), cache) /\ created' = created
    BY <1>7 DEF Grant
  <2> DEFINE o == Head(waiting)
  <2>2. waiting \in Seq(Waiter) /\ cache \in Seq(Message) BY <1>1 DEF TypeOK
  <2>3. Drawn(waiting', waiting) /\ o \in Waiter /\ 1 \in 1..Len(waiting) /\ o = waiting[1]
    BY <2>1, <2>2, TailDrawn
  <2>4. Waits(o, named, ToSet(cache), created) BY <1>1, <2>3 DEF Waiters
  <2>5. Ready(o, cache, created) BY <1>1, <2>2, <2>3, <2>4 DEF Ready
  <2>6. Runs(o, cache) BY <2>1
  <2> HIDE DEF o
  <2>7. /\ Holds(cache, created)'
        /\ named \subseteq named' /\ \A m \in ToSet(cache) : m \in named' \/ m \in ToSet(cache')
    BY <1>1, <2>1, <2>5, <2>6, RunsHold
  <2>8. Waiters' BY <1>1, <2>1, <2>3, <2>7, DrawnWait
  <2>9. Behind' BY <1>1, <2>5, <2>6, RunsBehind
  <2>10. Drafted' BY <1>1, <2>1, <2>6, RunsDrafted
  <2> QED BY <2>7, <2>8, <2>9, <2>10 DEF CleanInv
<1>8. CASE Prepared
  <2>1. Arrives(CommitDraft, cache) /\ created' = created BY <1>8 DEF Prepared
  <2>2. Ready(CommitDraft, cache, created) BY <1>1, PlainReady
  <2> QED BY <1>1, <2>1, <2>2, ArrivesClean
<1>9. CASE WriteMemory
  <2>1. /\ phase = "writing" /\ phase' = "written" /\ history' = history \cup {Window}
        /\ UNCHANGED <<db, cache, cursor, waiting, draft, requests, created, named>>
    BY <1>9 DEF WriteMemory
  <2>2. Window' = Window BY <2>1 DEF Window
  <2>3. Holds(cache, created)' BY <1>1, <2>1 DEF Holds
  <2>4. Waiters' BY <1>1, <2>1 DEF Waiters
  <2>5. Behind' BY <1>1, <2>1 DEF Behind
  <2>6. Drafted' BY <1>1, <2>1, <2>2 DEF Drafted
  <2> QED BY <2>3, <2>4, <2>5, <2>6 DEF CleanInv
<1>10. CASE CommitCursor
  <2>1. /\ phase = "written" /\ phase' = "publishing" /\ cursor' = draft.upto
        /\ UNCHANGED <<db, cache, waiting, draft, requests, history, created, named>>
    BY <1>10 DEF CommitCursor
  <2>2. Holds(cache, created)' BY <1>1, <2>1 DEF Holds
  <2>3. Waiters' BY <1>1, <2>1 DEF Waiters
  <2>4. /\ cursor < draft.upto /\ draft.upto <= Len(db) /\ draft.upto \in Nat /\ Len(db) \in Nat
        /\ Window = {db[i] : i \in cursor + 1..draft.upto}
    BY <1>1, <2>1, WrittenRows
  <2>5. ASSUME NEW i \in 1..draft.upto PROVE db[i] \in UNION history
    <3>0. cursor \in Nat BY <1>1 DEF TypeOK
    <3>1. i \in 1..cursor \/ i \in cursor + 1..draft.upto BY <2>4, <3>0
    <3>2. CASE i \in 1..cursor BY <1>1, <3>2 DEF Behind
    <3>3. CASE i \in cursor + 1..draft.upto BY <1>1, <2>1, <2>4, <3>3 DEF Drafted
    <3> QED BY <3>1, <3>2, <3>3
  <2>6. Behind' BY <2>1, <2>4, <2>5 DEF Behind
  <2> QED BY <1>3, <2>1, <2>2, <2>3, <2>6 DEF CleanInv
<1>11. CASE Publish BY <1>2, <1>3, <1>11 DEF Publish
<1>12. CASE Cancel
  <2>1. PICK k \in DOMAIN waiting : waiting' = RemoveAt(waiting, k) BY <1>12 DEF Cancel
  <2>2. waiting \in Seq(Waiter) /\ k \in 1..Len(waiting) BY <1>1, LenProperties DEF TypeOK
  <2>3. Drawn(waiting', waiting) BY <2>1, <2>2, RemoveAtDrawn
  <2>4. UNCHANGED <<db, cache, cursor, phase, draft, requests, history, created, named>> BY <1>12 DEF Cancel
  <2>5. Drafted' BY <1>1, <2>4 DEF Drafted, Window
  <2> QED BY <1>2, <2>3, <2>4, <2>5
<1>13. CASE Capture
  <2>1. UNCHANGED <<db, cache, cursor, waiting, history, created, named>> BY <1>13 DEF Capture
  <2>2. phase' \in {"idle", "preparing"} BY <1>1, <1>13, CaptureTypes
  <2> QED BY <1>2, <1>3, <2>1, <2>2
<1>14. CASE PrepareFails BY <1>2, <1>3, <1>14 DEF PrepareFails
<1>15. CASE CommitFails BY <1>2, <1>3, <1>15 DEF CommitFails
<1>16. CASE Crash
  <2>1. /\ cache' = db /\ named' = ToSet(db) /\ waiting' = <<>> /\ phase' = "idle"
        /\ UNCHANGED <<db, cursor, history, created>>
    BY <1>16 DEF Crash
  <2>2. Holds(cache, created)' BY <1>1, <2>1 DEF Holds
  <2>3. Waiters' BY <2>1 DEF Waiters
  <2>4. Behind' BY <1>1, <2>1 DEF Behind
  <2> QED BY <1>3, <2>1, <2>2, <2>3, <2>4 DEF CleanInv
<1> QED BY <1>4, <1>5, <1>6, <1>7, <1>8, <1>9, <1>10, <1>11, <1>12, <1>13, <1>14, <1>15, <1>16
        DEF Next, Writers, Work

(* The invariant of Remembered and WritesCurrent.                            *)
IInv == TInv /\ (Clean => CleanInv)

(* It holds at the start and every step keeps it.                            *)
LEMMA CleanStep == (Init => IInv) /\ (IInv /\ [Next]_vars => IInv')
<1>1. Init => IInv
  <2> SUFFICES ASSUME Init PROVE CleanInv BY TypesStep DEF IInv
  <2>1. ToSet(<<>>) = {} BY DEF ToSet
  <2>2. Distinct(<<>>) BY DEF Distinct
  <2>3. Holds(cache, created) BY <2>1, <2>2 DEF Init, Holds
  <2>4. Waiters /\ Drafted /\ Behind BY DEF Init, Waiters, Drafted, Behind
  <2> QED BY <2>3, <2>4 DEF CleanInv
<1>2. IInv /\ [Next]_vars => IInv'
  <2> SUFFICES ASSUME IInv, [Next]_vars PROVE IInv' OBVIOUS
  <2>1. TInv' BY TypesStep DEF IInv
  <2>2. ASSUME Next, Clean' PROVE CleanInv'
    <3>1. Clean BY <2>2 DEF Next, Clean
    <3> QED BY <2>1, <2>2, <3>1, NextClean DEF IInv, TInv
  <2>3. CASE UNCHANGED vars
    <3>1. (Clean => CleanInv)'
      BY <2>3 DEF IInv, vars, Clean, CleanInv, Holds, Waiters, Drafted, Window, Behind
    <3> QED BY <2>1, <3>1 DEF IInv
  <2> QED BY <2>1, <2>2, <2>3 DEF IInv
<1> QED BY <1>1, <1>2

(* Remembered: unless a desktop writer fails, nothing before the cursor is   *)
(* missing from the memory, for any number of messages and any mix of        *)
(* cancellations, crashes, failing writes and undos.                         *)
THEOREM RememberedCorrect == Spec => []Remembered
<1>1. IInv => Remembered BY DEF IInv, Clean, CleanInv, Behind, Remembered
<1> QED BY <1>1, CleanStep, PTL DEF Spec

(* WritesCurrent: what a commit writes is the rows behind the cursor, for    *)
(* every number of messages.                                                 *)
THEOREM WritesCurrentCorrect == Spec => WritesCurrent
<1>1. ASSUME IInv, [Next]_vars, history' # history, "cut" \notin faults
      PROVE  Window = ToSet(SubSeq(db, cursor + 1, Min({draft.upto, Len(db)})))
  <2>1. TypeOK /\ Pending /\ Drafted BY <1>1 DEF IInv, TInv, Clean, CleanInv
  <2>2. phase = "writing"
    <3>1. CASE UNCHANGED vars BY <1>1, <3>1 DEF vars
    <3>2. \A o, c : Runs(o, c) => history' = history BY DEF Runs, Stores, StoreFails, Undoes, Commits
    <3>3. \A o, c : Arrives(o, c) => history' = history BY <3>2 DEF Arrives
    <3>4. CASE Writers
      BY <1>1, <3>3, <3>4 DEF Writers, Turn, DesktopUser, DesktopReply, Proactive, DesktopPush, SaveUnlocked,
                              Undo, Adds
    <3>5. CASE Work
      BY <1>1, <3>2, <3>3, <3>5 DEF Work, Grant, Prepared, WriteMemory, CommitCursor, Publish
    <3>6. CASE Cancel \/ Capture \/ PrepareFails \/ CommitFails \/ Crash
      BY <1>1, <3>6 DEF Cancel, Capture, PrepareFails, CommitFails, Crash
    <3> QED BY <1>1, <3>1, <3>4, <3>5, <3>6 DEF Next
  <2>3. /\ cursor < draft.upto /\ draft.upto <= Len(db) /\ draft.upto \in Nat /\ Len(db) \in Nat
        /\ Window = {db[i] : i \in cursor + 1..draft.upto}
    BY <2>1, <2>2, WrittenRows
  <2>4. Min({draft.upto, Len(db)}) = draft.upto
    <3> DEFINE T == {draft.upto, Len(db)}
    <3>1. T \subseteq Nat /\ T # {} /\ draft.upto \in T BY <2>3
    <3>2. \A x \in T : x = draft.upto \/ x = Len(db) OBVIOUS
    <3> HIDE DEF T
    <3>3. Min(T) \in T /\ Min(T) <= draft.upto BY <3>1, MinOf
    <3> QED BY <2>3, <3>2, <3>3 DEF T
  <2>5. cursor \in Nat /\ db \in Seq(Message) BY <2>1 DEF TypeOK
  <2>6. Piece(db, cursor, draft.upto) = {db[i] : i \in cursor + 1..draft.upto}
    BY <2>3, <2>5, PieceSet
  <2> QED BY <2>3, <2>4, <2>6 DEF Piece
<1>2. IInv /\ [Next]_vars =>
        [history' # history /\ "cut" \notin faults
           => Window = ToSet(SubSeq(db, cursor + 1, Min({draft.upto, Len(db)})))]_vars
  BY <1>1
<1> QED BY <1>2, CleanStep, PTL DEF Spec, WritesCurrent


-----------------------------------------------------------------------------
(* The refinement of ConversationLog.                                        *)

LogStep == [Log!Next]_(Log!logVars)

(* The session as the log sees it, when no desktop writer fails.             *)
LEMMA Seen ==
  ASSUME Clean, Clean'
  PROVE  /\ Sound(db, <<>>) = db /\ Sound(cursor, 0) = cursor /\ Sound(UNION history, {}) = UNION history
         /\ Sound(db, <<>>)' = db' /\ Sound(cursor, 0)' = cursor'
         /\ Sound(UNION history, {})' = UNION (history')
  BY DEF Clean, Sound

(* Nothing the log sees changes.                                             *)
LEMMA QuietLog ==
  ASSUME Clean, Clean', UNCHANGED <<db, cursor, history>>
  PROVE  LogStep
  BY Seen DEF LogStep, Log!logVars

(* Rows that grow extend the log.                                            *)
LEMMA ExtendLog ==
  ASSUME Clean, Clean', IsPrefix(db, db'), UNCHANGED <<cursor, history>>
  PROVE  LogStep
<1>1. CASE db' = db BY <1>1, QuietLog
<1>2. CASE db' # db
  <2>1. Log!IsPrefix(db, db') BY Zenon DEF IsPrefix, Log!IsPrefix
  <2>2. Log!Extend BY <1>2, <2>1, Seen DEF Log!Extend
  <2> QED BY <2>2 DEF LogStep, Log!Next
<1> QED BY <1>1, <1>2

(* An undo retracts one passive turn.                                        *)
LEMMA RetractLog ==
  ASSUME Clean, Clean', TypeOK, Distinct(db), NEW c, NEW i \in Nat, Retracts(c, i), history' = history
  PROVE  LogStep
<1>1. /\ db \in Seq(Message) /\ i \in 2..Len(db) /\ i \in 1..Len(db) /\ cursor \in Nat
      /\ cursor' \in Nat /\ cursor' <= cursor /\ cursor' <= i - 2
  BY DEF TypeOK, Retracts
<1>2. Len(db) \in Nat BY <1>1, LenProperties
<1> DEFINE j == i - 1
           v == RemoveAt(db, j + 1)
           r == RemoveAt(v, j)
           d == db'
<1>3. j + 1 = i /\ j \in 1..Len(db) - 1 BY <1>1, <1>2
<1>4. v = RemoveAt(db, i) BY <1>3
<1> HIDE DEF v
<1>5. /\ v \in Seq(Message) /\ Len(v) = Len(db) - 1
      /\ \A k \in 1..Len(v) : v[k] = IF k < i THEN db[k] ELSE db[k + 1]
  BY <1>1, <1>4, RemoveAtDrawn
<1>6. j \in 1..Len(v) /\ v \in Seq(Message) /\ r = RemoveAt(v, j) BY <1>3, <1>5
<1> HIDE DEF r, j
<1>7. /\ r \in Seq(Message) /\ Len(r) = Len(v) - 1
      /\ \A k \in 1..Len(r) : r[k] = IF k < j THEN v[k] ELSE v[k + 1]
  BY <1>6, RemoveAtDrawn
<1>8. /\ Len(d) = Len(db) - 2
      /\ \A k \in 1..Len(d) : d[k] = IF k <= i - 2 THEN db[k] ELSE db[k + 2]
  BY RetractsRows
<1>9. d \in Seq(Message)
  <2>1. d = Without(db, {db[i - 1], db[i]}) BY DEF Retracts
  <2> HIDE DEF d
  <2> QED BY <1>1, <2>1, WithoutKeeps
<1> HIDE DEF d
<1>10. Len(r) = Len(d)
  <2>1. Len(r) = Len(v) - 1 /\ Len(v) = Len(db) - 1 /\ Len(d) = Len(db) - 2 BY <1>5, <1>7, <1>8
  <2> QED BY <1>2, <2>1
<1>11. ASSUME NEW k \in 1..Len(r) PROVE r[k] = d[k]
  <2>0. /\ k \in Nat /\ 1 <= k /\ k <= Len(v) - 1 /\ Len(v) = Len(db) - 1 /\ Len(v) \in Nat
        /\ i \in Nat /\ j = i - 1
    <3>1. Len(r) = Len(v) - 1 /\ Len(v) = Len(db) - 1 BY <1>5, <1>7
    <3>2. Len(v) \in Nat BY <1>6, LenProperties
    <3> QED BY <1>1, <1>2, <3>1, <3>2 DEF j
  <2>1. k \in 1..Len(v) /\ k + 1 \in 1..Len(v) /\ k \in 1..Len(d) BY <1>10, <2>0
  <2>2. r[k] = IF k < j THEN v[k] ELSE v[k + 1] BY <1>7
  <2>3. v[k] = IF k < i THEN db[k] ELSE db[k + 1] BY <1>5, <2>1
  <2>4. v[k + 1] = IF k + 1 < i THEN db[k + 1] ELSE db[(k + 1) + 1] BY <1>5, <2>1
  <2>5. d[k] = IF k <= i - 2 THEN db[k] ELSE db[k + 2] BY <1>8, <2>1
  <2>6. CASE k < j
    <3>1. k < i /\ k <= i - 2 BY <2>0, <2>6
    <3> QED BY <2>2, <2>3, <2>5, <2>6, <3>1
  <2>7. CASE ~(k < j)
    <3>1. ~(k + 1 < i) /\ ~(k <= i - 2) /\ (k + 1) + 1 = k + 2 BY <2>0, <2>7
    <3> QED BY <2>2, <2>4, <2>5, <2>7, <3>1
  <2> QED BY <2>6, <2>7
<1>12. d = r BY <1>7, <1>9, <1>10, <1>11, SeqEqual
<1>13. db' = RemoveAt(RemoveAt(db, j + 1), j) BY <1>12 DEF d, r, v
<1>14. cursor' <= j - 1
  <2>1. j - 1 = i - 2 BY <1>1 DEF j
  <2> QED BY <1>1, <2>1
<1>15. j \in 1..Len(db) - 1 BY <1>3
<1>16. \A s, k : Log!RemoveAt(s, k) = RemoveAt(s, k) BY Zenon DEF RemoveAt, Log!RemoveAt
<1>17. db' = Log!RemoveAt(Log!RemoveAt(db, j + 1), j) BY <1>13, <1>16
<1>18. Log!Retract BY <1>1, <1>14, <1>15, <1>17, Seen DEF Log!Retract
<1> QED BY <1>18 DEF LogStep, Log!Next

(* What a task does with the lock is a step of the log.                      *)
LEMMA RunsLog ==
  ASSUME Clean, Clean', TypeOK, NEW o, NEW c, NEW top, Ready(o, c, top), Runs(o, c)
  PROVE  LogStep
<1>1. CASE Stores(o, c)
  <2>1. IsPrefix(db, db') BY <1>1, StoresGrow DEF Grows
  <2> QED BY <1>1, <2>1, ExtendLog DEF Stores
<1>2. CASE StoreFails(o, c)
  <2>1. IsPrefix(db, db') BY <1>2, StoreFailsGrow DEF Grows
  <2> QED BY <1>2, <2>1, ExtendLog DEF StoreFails
<1>3. CASE Undoes(c)
  <2>1. Distinct(db) BY DEF Ready, Holds
  <2>2. history' = history BY <1>3 DEF Undoes
  <2>3. CASE UNCHANGED <<db, cursor>> BY <2>2, <2>3, QuietLog
  <2>4. ASSUME NEW i \in Nat, Retracts(c, i) PROVE LogStep BY <2>1, <2>2, <2>4, RetractLog
  <2> QED BY <1>3, <2>3, <2>4, UndoesRetracts
<1>4. CASE Commits(c) BY <1>4, QuietLog DEF Commits
<1> QED BY <1>1, <1>2, <1>3, <1>4 DEF Runs

(* So is its arrival.                                                        *)
LEMMA ArrivesLog ==
  ASSUME Clean, Clean', TypeOK, NEW o, NEW c, NEW top, Ready(o, c, top), Arrives(o, c)
  PROVE  LogStep
<1>1. CASE Runs(o, c) BY <1>1, RunsLog
<1>2. CASE UNCHANGED <<db, cursor, draft, requests, history, named>> BY <1>2, QuietLog
<1> QED BY <1>1, <1>2 DEF Arrives

(* One more set in a union.                                                  *)
LEMMA UnionWith ==
  ASSUME NEW A, NEW w, NEW h, h = A \cup {w}
  PROVE  UNION h = (UNION A) \cup w
<1>1. ASSUME NEW m \in UNION h PROVE m \in (UNION A) \cup w
  <2>1. PICK a \in h : m \in a OBVIOUS
  <2>2. a \in A \/ a = w OBVIOUS
  <2>3. CASE a \in A BY <2>1, <2>3
  <2>4. CASE a = w BY <2>1, <2>4
  <2> QED BY <2>2, <2>3, <2>4
<1>2. ASSUME NEW m \in UNION A PROVE m \in UNION h
  <2>1. PICK a \in A : m \in a OBVIOUS
  <2> QED BY <2>1
<1>3. ASSUME NEW m \in w PROVE m \in UNION h
  <2>1. w \in h OBVIOUS
  <2>2. \E a \in h : m \in a BY <2>1
  <2> QED BY <2>2
<1> QED BY <1>1, <1>2, <1>3

(* Every step of a session is a step of the log or changes nothing of it.    *)
LEMMA NextLog ==
  ASSUME IInv, Clean, Clean', Next
  PROVE  LogStep
<1>1. /\ TypeOK /\ Pending /\ Queued /\ Holds(cache, created) /\ Waiters /\ Drafted /\ Behind
  BY DEF IInv, TInv, CleanInv
<1>2. CASE Turn \/ DesktopUser \/ DesktopReply \/ Proactive \/ DesktopPush
  <2>1. PICK msgs, o : Comes(o, msgs) /\ Adds(msgs, o) BY <1>1, <1>2, WritersCome
  <2> DEFINE c == Cat(cache, msgs)
             top == created + Len(msgs)
  <2>2. Arrives(o, c) BY <2>1 DEF Adds, Cat
  <2>3. c = Cat(cache, msgs) /\ top = created + Len(msgs) OBVIOUS
  <2> HIDE DEF c, top
  <2>4. Ready(o, c, top) BY <1>1, <2>1, <2>3, ComesReady
  <2> QED BY <1>1, <2>2, <2>4, ArrivesLog
<1>3. CASE SaveUnlocked
  <2>1. db \in Seq(Message) /\ cache \in Seq(Message) /\ ToSet(db) \subseteq ToSet(cache)
    BY <1>1 DEF TypeOK, Holds
  <2>2. db' = Synced(db, cache) /\ UNCHANGED <<cursor, history>> BY <1>3 DEF SaveUnlocked
  <2>3. IsPrefix(db, db') BY <2>1, <2>2, SyncedGrows
  <2> QED BY <2>2, <2>3, ExtendLog
<1>4. CASE Undo
  <2>1. Arrives(UndoLast, cache) BY <1>4 DEF Undo
  <2>2. Ready(UndoLast, cache, created) BY <1>1, PlainReady
  <2> QED BY <1>1, <2>1, <2>2, ArrivesLog
<1>5. CASE Grant
  <2>1. waiting # <<>> /\ Runs(Head(waiting), cache) BY <1>5 DEF Grant
  <2> DEFINE o == Head(waiting)
             v == Tail(waiting)
  <2>2. waiting \in Seq(Waiter) /\ cache \in Seq(Message) /\ v = Tail(waiting) BY <1>1 DEF TypeOK
  <2> HIDE DEF v
  <2>3. o \in Waiter /\ 1 \in 1..Len(waiting) /\ o = waiting[1] BY <2>1, <2>2, TailDrawn
  <2>4. Waits(o, named, ToSet(cache), created) BY <1>1, <2>3 DEF Waiters
  <2>5. Ready(o, cache, created) BY <1>1, <2>2, <2>3, <2>4 DEF Ready
  <2>6. Runs(o, cache) BY <2>1
  <2> HIDE DEF o
  <2> QED BY <1>1, <2>5, <2>6, RunsLog
<1>6. CASE Prepared
  <2>1. Arrives(CommitDraft, cache) BY <1>6 DEF Prepared
  <2>2. Ready(CommitDraft, cache, created) BY <1>1, PlainReady
  <2> QED BY <1>1, <2>1, <2>2, ArrivesLog
<1>7. CASE WriteMemory
  <2>1. phase = "writing" /\ history' = history \cup {Window} /\ UNCHANGED <<db, cursor>>
    BY <1>7 DEF WriteMemory
  <2>2. db \in Seq(Message) /\ cursor \in Nat BY <1>1 DEF TypeOK
  <2>3. /\ cursor < draft.upto /\ draft.upto <= Len(db) /\ draft.upto \in Nat /\ Len(db) \in Nat
        /\ Window = {db[i] : i \in cursor + 1..draft.upto}
    BY <1>1, <2>1, WrittenRows
  <2>4. \A i \in cursor + 1..draft.upto : i \in 1..Len(db) BY <2>2, <2>3
  <2>5. ASSUME NEW m \in Window PROVE m \in ToSet(db)
    <3>1. PICK i \in cursor + 1..draft.upto : db[i] = m BY <2>3
    <3>2. i \in 1..Len(db) BY <2>4
    <3> QED BY <2>2, <3>1, <3>2, SetOf
  <2>6. UNION (history') = (UNION history) \cup Window
    <3> DEFINE w == Window
               h == history'
    <3>1. h = history \cup {w} BY <2>1
    <3> HIDE DEF w, h
    <3>2. UNION h = (UNION history) \cup w BY <3>1, UnionWith
    <3> QED BY <3>2 DEF w, h
  <2>7. Log!ToSet(db) = ToSet(db) BY Zenon DEF ToSet, Log!ToSet
  <2>8. /\ UNION (history') \subseteq (UNION history) \cup Log!ToSet(db)
        /\ UNION history \subseteq UNION (history')
    BY <2>5, <2>6, <2>7, Zenon
  <2>9. Log!Write BY <2>1, <2>8, Seen, Zenon DEF Log!Write
  <2> QED BY <2>9 DEF LogStep, Log!Next
<1>8. CASE CommitCursor
  <2>1. phase = "written" /\ cursor' = draft.upto /\ UNCHANGED <<db, history>> BY <1>8 DEF CommitCursor
  <2>2. /\ cursor < draft.upto /\ draft.upto <= Len(db) /\ draft.upto \in Nat /\ Len(db) \in Nat
        /\ Window = {db[i] : i \in cursor + 1..draft.upto}
    BY <1>1, <2>1, WrittenRows
  <2>3. cursor \in Nat BY <1>1 DEF TypeOK
  <2>4. ASSUME NEW i \in 1..draft.upto PROVE db[i] \in UNION history
    <3>1. i \in 1..cursor \/ i \in cursor + 1..draft.upto BY <2>2, <2>3
    <3>2. CASE i \in 1..cursor BY <1>1, <3>2 DEF Behind
    <3>3. CASE i \in cursor + 1..draft.upto BY <1>1, <2>1, <2>2, <3>3 DEF Drafted
    <3> QED BY <3>1, <3>2, <3>3
  <2>5. cursor' \in cursor + 1..Len(db) BY <2>1, <2>2, <2>3
  <2>6. Log!Advance BY <2>1, <2>4, <2>5, Seen DEF Log!Advance
  <2> QED BY <2>6 DEF LogStep, Log!Next
<1>9. CASE Publish BY <1>9, QuietLog DEF Publish
<1>10. CASE Cancel BY <1>10, QuietLog DEF Cancel
<1>11. CASE Capture BY <1>11, QuietLog DEF Capture
<1>12. CASE PrepareFails BY <1>12, QuietLog DEF PrepareFails
<1>13. CASE CommitFails BY <1>13, QuietLog DEF CommitFails
<1>14. CASE Crash BY <1>14, QuietLog DEF Crash
<1> QED BY <1>2, <1>3, <1>4, <1>5, <1>6, <1>7, <1>8, <1>9, <1>10, <1>11, <1>12, <1>13, <1>14
        DEF Next, Writers, Work

(* ImplementsLog: a session is a conversation log, whatever fails but the    *)
(* write of a desktop writer.                                                *)
THEOREM LogRefinement == Spec => ImplementsLog
<1>1. Init => Log!Init
  <2> SUFFICES ASSUME Init PROVE Log!Init OBVIOUS
  <2>1. UNION history = {} BY DEF Init
  <2> QED BY <2>1 DEF Init, Log!Init, Sound
<1>2. IInv /\ [Next]_vars => LogStep
  <2> SUFFICES ASSUME IInv, [Next]_vars PROVE LogStep OBVIOUS
  <2>1. faults' = faults BY DEF Next, vars
  <2>2. CASE ~Clean
    <3>1. UNCHANGED Log!logVars BY <2>1, <2>2 DEF Log!logVars, Sound, Clean
    <3> QED BY <3>1 DEF LogStep
  <2>3. CASE Clean
    <3>1. Clean' BY <2>1, <2>3 DEF Clean
    <3>2. CASE Next BY <2>3, <3>1, <3>2, NextLog
    <3>3. CASE UNCHANGED vars
      <4>1. UNCHANGED <<db, cursor, history>> BY <3>3 DEF vars
      <4> QED BY <2>3, <3>1, <4>1, QuietLog
    <3> QED BY <3>2, <3>3
  <2> QED BY <2>2, <2>3
<1> QED BY <1>1, <1>2, CleanStep, PTL DEF Spec, ImplementsLog, Log!LogSpec, LogStep


-----------------------------------------------------------------------------
(* CacheMirrors: the behaviours in which no writer is cancelled or fails.    *)

Calm == faults \cap {"cancel", "fail", "cut"} = {}

(* Every message of A is older than every message of B.                      *)
Precede(A, B) == \A m \in A : \A p \in B : m.n < p.n

(* The cache c is the rows and then messages without an id that are told by  *)
(* somebody in later.                                                        *)
Mirrors(rows, c, known, later) ==
    \E rest \in Seq(Message) :
        c = Cat(rows, rest) /\ ToSet(rest) \cap known = {} /\ ToSet(rest) \subseteq later

(* The messages of a queue.                                                  *)
Told(w) == UNION {ToSet(w[k].msgs) : k \in 1..Len(w)}

(* The queue is in the order of its messages; only writers bring some.       *)
InLine(w) ==
    /\ \A k \in 1..Len(w) : /\ Rising(w[k].msgs)
                            /\ w[k].op \notin {"append", "save"} => w[k].msgs = <<>>
    /\ \A j, k \in 1..Len(w) : j < k => Precede(ToSet(w[j].msgs), ToSet(w[k].msgs))

CalmInv == Rising(cache) /\ InLine(waiting) /\ Mirrors(db, cache, named, Told(waiting))

(* Who tells a message.                                                      *)
LEMMA ToldBy ==
  ASSUME NEW w, NEW m
  PROVE  m \in Told(w) <=> \E k \in 1..Len(w) : m \in ToSet(w[k].msgs)
  BY DEF Told

(* The numbers of messages can be compared.                                  *)
LEMMA Numbers ==
  ASSUME NEW s \in Seq(Message)
  PROVE  /\ Len(s) \in Nat /\ \A i \in 1..Len(s) : s[i] \in Message /\ s[i].n \in Nat
         /\ \A m \in Message : m.n \in Nat
<1>1. \A m \in Message : m.n \in Nat
  <2>1. MaxMessages \in Nat BY SessionAssumption
  <2> QED BY <2>1 DEF Message
<1>2. Len(s) \in Nat BY LenProperties
<1>3. \A i \in 1..Len(s) : s[i] \in Message BY ElementOfSeq
<1> QED BY <1>1, <1>2, <1>3

(* The two sides of a prefix.                                                *)
LEMMA PrefixSplit ==
  ASSUME NEW M, NEW s \in Seq(M), NEW u \in Seq(M), IsPrefix(s, u)
  PROVE  \E t \in Seq(M) : u = Cat(s, t)
<1>1. Len(s) \in Nat /\ Len(u) \in Nat /\ Len(s) <= Len(u) /\ \A i \in 1..Len(s) : s[i] = u[i]
  BY PrefixIff, LenProperties
<1>2. Len(s) \in 0..Len(u) BY <1>1
<1> DEFINE k == Len(s)
<1>3. k \in 0..Len(u) BY <1>2
<1> HIDE DEF k
<1>4. PICK a, t \in Seq(M) : Cuts(u, k, a, t) /\ u = Cat(a, t) BY <1>3, Split
<1>5. Len(a) = k /\ \A i \in 1..k : a[i] = u[i] BY <1>4 DEF Cuts
<1>6. a = s
  <2>1. Len(a) = Len(s) BY <1>5 DEF k
  <2>2. \A i \in 1..Len(a) : a[i] = s[i] BY <1>1, <1>5, <2>1 DEF k
  <2> QED BY <1>4, <2>1, <2>2, SeqEqual
<1> QED BY <1>4, <1>6

(* The parts of a rising sequence rise, the first below the second.          *)
LEMMA RisingParts ==
  ASSUME NEW s \in Seq(Message), NEW t \in Seq(Message), NEW u, u = Cat(s, t), Rising(u)
  PROVE  Rising(s) /\ Rising(t) /\ Precede(ToSet(s), ToSet(t))
<1>1. u \in Seq(Message) /\ Joins(u, s, t, Len(s), Len(t)) /\ Len(s) \in Nat /\ Len(t) \in Nat BY CatJoins
<1> DEFINE K == Len(s)
           L == Len(t)
<1>2. /\ K \in Nat /\ L \in Nat /\ Len(u) = K + L
      /\ \A i \in 1..K : u[i] = s[i]
      /\ \A i \in 1..L : u[K + i] = t[i]
  BY <1>1 DEF Joins
<1> HIDE DEF K, L
<1>3. \A i, j \in 1..Len(u) : i < j => u[i].n < u[j].n BY DEF Rising
<1>4. (\A i \in 1..K : i \in 1..Len(u)) /\ (\A i \in 1..L : K + i \in 1..Len(u))
      /\ (\A i \in 1..K : \A j \in 1..L : i < K + j) /\ (\A i, j \in 1..L : i < j => K + i < K + j)
  BY <1>2
<1>5. Rising(s)
  <2>1. \A i, j \in 1..K : i < j => s[i].n < s[j].n BY <1>2, <1>3, <1>4
  <2> QED BY <2>1 DEF Rising, K
<1>6. Rising(t)
  <2>1. ASSUME NEW i \in 1..L, NEW j \in 1..L, i < j PROVE t[i].n < t[j].n
    <3>1. u[K + i].n < u[K + j].n BY <1>3, <1>4, <2>1
    <3> QED BY <1>2, <3>1
  <2> QED BY <2>1 DEF Rising, L
<1>7. ASSUME NEW m \in ToSet(s), NEW p \in ToSet(t) PROVE m.n < p.n
  <2>1. PICK i \in 1..K : s[i] = m BY SetOf DEF K
  <2>2. PICK j \in 1..L : t[j] = p BY SetOf DEF L
  <2>3. u[i].n < u[K + j].n BY <1>3, <1>4
  <2> QED BY <1>2, <2>1, <2>2, <2>3
<1> QED BY <1>5, <1>6, <1>7 DEF Precede

(* A rising choice of the oldest messages of a rising sequence is its        *)
(* beginning.                                                                *)
LEMMA OldestFirst ==
  ASSUME NEW x \in Seq(Message), NEW s \in Seq(Message), Rising(x), Rising(s),
         ToSet(x) \subseteq ToSet(s), Precede(ToSet(x), ToSet(s) \ ToSet(x))
  PROVE  IsPrefix(x, s)
<1>1. Len(x) \in Nat /\ Len(s) \in Nat BY LenProperties
<1>2. (\A i \in 1..Len(x) : x[i].n \in Nat) /\ (\A i \in 1..Len(s) : s[i].n \in Nat) BY Numbers
<1>3. \A i, j \in 1..Len(x) : i < j => x[i].n < x[j].n BY DEF Rising
<1>4. \A i, j \in 1..Len(s) : i < j => s[i].n < s[j].n BY DEF Rising
<1>5. \A i \in 1..Len(x) : \E a \in 1..Len(s) : s[a] = x[i] BY SetOf
<1>6. ASSUME NEW a \in 1..Len(s), NEW i \in 1..Len(x), s[a].n < x[i].n PROVE \E b \in 1..Len(x) : x[b] = s[a]
  <2>1. s[a] \in ToSet(s) /\ x[i] \in ToSet(x) BY SetOf
  <2>2. s[a] \notin ToSet(x) => x[i].n < s[a].n BY <2>1 DEF Precede
  <2>3. s[a] \in ToSet(x) BY <1>2, <1>6, <2>2
  <2> QED BY <2>3, SetOf
<1> DEFINE S == {n \in Nat : n <= Len(x) => n <= Len(s) /\ \A j \in 1..n : x[j] = s[j]}
<1>7. 0 \in S BY <1>1
<1>8. ASSUME NEW n \in Nat, n \in S PROVE n + 1 \in S
  <2> SUFFICES ASSUME n + 1 <= Len(x) PROVE n + 1 <= Len(s) /\ \A j \in 1..n + 1 : x[j] = s[j]
    <3> n + 1 \in Nat OBVIOUS
    <3> QED OBVIOUS
  <2>1. n <= Len(s) /\ \A j \in 1..n : x[j] = s[j] BY <1>1, <1>8
  <2> HIDE DEF S
  <2> DEFINE i == n + 1
  <2>2. i \in 1..Len(x) /\ (\A j \in 1..n : j \in 1..Len(x) /\ j < i) /\ (\A j \in 1..i : j \in 1..n \/ j = i)
    BY <1>1
  <2>3. PICK a \in 1..Len(s) : s[a] = x[i] BY <1>5, <2>2
  <2>4. a \notin 1..n
    <3>1. a \in 1..n => x[a].n < x[i].n /\ x[a] = x[i] BY <1>3, <2>1, <2>2, <2>3
    <3> QED BY <1>2, <2>2, <3>1
  <2>5. i \in 1..Len(s) /\ (a = i \/ i < a) BY <1>1, <2>4
  <2>6. ~(i < a)
    <3> SUFFICES ASSUME i < a PROVE FALSE OBVIOUS
    <3>1. s[i].n < x[i].n BY <1>4, <2>3, <2>5
    <3>2. PICK b \in 1..Len(x) : x[b] = s[i] BY <1>6, <2>2, <2>5, <3>1
    <3>3. ~(i < b) /\ b # i
      <4>1. i < b => x[i].n < x[b].n BY <1>3, <2>2
      <4> QED BY <1>2, <2>2, <2>5, <3>1, <3>2, <4>1
    <3>4. b \in 1..n /\ b < i BY <1>1, <3>3
    <3>5. s[b] = s[i] BY <2>1, <3>2, <3>4
    <3>6. b \in 1..Len(s) BY <1>1, <2>1, <3>4
    <3>7. s[b].n < s[i].n BY <1>4, <2>5, <3>4, <3>6
    <3> QED BY <1>2, <2>5, <3>5, <3>7
  <2>7. a = i BY <2>5, <2>6
  <2>8. x[i] = s[i] BY <2>3, <2>7
  <2>9. \A j \in 1..i : x[j] = s[j] BY <2>1, <2>2, <2>8
  <2>10. i <= Len(s) BY <1>1, <2>5
  <2> QED BY <2>9, <2>10
<1>9. Nat \subseteq S
  <2> HIDE DEF S
  <2> QED BY <1>7, <1>8, Induction
<1>10. Len(x) <= Len(s) /\ \A j \in 1..Len(x) : x[j] = s[j]
  <2>1. Len(x) \in S /\ Len(x) <= Len(x) BY <1>1, <1>9
  <2> QED BY <2>1
<1> QED BY <1>10, PrefixIff

(* A sequence followed by nothing.                                           *)
LEMMA CatNothing ==
  ASSUME NEW M, NEW s \in Seq(M)
  PROVE  Cat(s, <<>>) = s /\ Cat(<<>>, s) = s /\ <<>> \in Seq(M) /\ ToSet(<<>>) = {}
<1>1. <<>> \in Seq(M) BY EmptySeq
<1>2. Cat(s, <<>>) = s /\ Cat(<<>>, s) = s BY ConcatEmptySeq DEF Cat
<1>3. ToSet(<<>>) = {} BY DEF ToSet
<1> QED BY <1>1, <1>2, <1>3

(* Three parts.                                                              *)
LEMMA CatThree ==
  ASSUME NEW M, NEW a \in Seq(M), NEW b \in Seq(M), NEW e \in Seq(M)
  PROVE  Cat(Cat(a, b), e) = Cat(a, Cat(b, e))
  BY ConcatAssociative DEF Cat

(* The rows are all the cache has.                                           *)
LEMMA MirrorsAll ==
  ASSUME NEW c \in Seq(Message), NEW known, NEW later
  PROVE  Mirrors(c, c, known, later)
<1>1. c = Cat(c, <<>>) /\ <<>> \in Seq(Message) /\ ToSet(<<>>) = {} BY CatNothing
<1> QED BY <1>1 DEF Mirrors

(* A whole sync stores a cache that begins with the rows as it is.           *)
LEMMA SyncedAll ==
  ASSUME NEW rows \in Seq(Message), NEW c \in Seq(Message), NEW known, NEW later,
         ToSet(rows) \subseteq known, Mirrors(rows, c, known, later)
  PROVE  Synced(rows, c) = c
<1>1. PICK rest \in Seq(Message) : c = Cat(rows, rest) /\ ToSet(rest) \cap known = {}
  BY DEF Mirrors
<1>2. ToSet(rows) \subseteq ToSet(c) BY <1>1, CatParts
<1> DEFINE A == ToSet(rows)
           r == Synced(rows, c)
<1>3. Without(rows, A) = <<>>
  <2>1. \A i \in 1..Len(rows) : rows[i] \in A BY SetOf
  <2> HIDE DEF A
  <2> QED BY <2>1, WithoutAll
<1>4. Without(rest, A) = rest
  <2>1. \A i \in 1..Len(rest) : rest[i] \in ToSet(rest) BY <1>1, SetOf
  <2>2. Avoids(rest, A) BY <1>1, <2>1 DEF Avoids
  <2> HIDE DEF A
  <2> QED BY <1>1, <2>2, WithoutNone
<1>5. r = Cat(rows, Without(c, A)) BY <1>2, SyncedGrows
<1> HIDE DEF A, r
<1>6. Without(c, A) = Cat(Without(rows, A), Without(rest, A)) BY <1>1, WithoutConcat
<1>7. Without(c, A) = rest BY <1>1, <1>3, <1>4, <1>6, CatNothing
<1> QED BY <1>1, <1>5, <1>7 DEF r

(* A writer that runs stores its messages and leaves the later ones.         *)
LEMMA StoresMirrors ==
  ASSUME TypeOK, NEW o, NEW c, NEW top, Ready(o, c, top), Stores(o, c), Rising(c), Rising(o.msgs),
         NEW later, Precede(ToSet(o.msgs), later),
         Mirrors(db, c, named, ToSet(o.msgs) \cup later)
  PROVE  Mirrors(db, cache, named, later)'
<1>1. /\ db \in Seq(Message) /\ c \in Seq(Message) /\ o.msgs \in Seq(Message)
      /\ ToSet(db) \subseteq named /\ ToSet(o.msgs) \ named \subseteq ToSet(c)
  BY DEF TypeOK, Ready, Holds, Waits, Waiter
<1>2. cache' = c /\ named' = named \cup ToSet(db') BY DEF Stores
<1>3. CASE o.op # "append"
  <2>1. db' = Synced(db, c) BY <1>3 DEF Stores
  <2>2. db' = c BY <1>1, <2>1, SyncedAll
  <2> QED BY <1>1, <1>2, <2>2, MirrorsAll
<1>4. CASE o.op = "append"
  <2> DEFINE new == Without(o.msgs, named)
  <2>1. new \in Seq(Message) /\ ToSet(new) = ToSet(o.msgs) \ named /\ Rising(new)
    BY <1>1, WithoutKeeps
  <2>2. db' = Cat(db, new) BY <1>4 DEF Stores, Inserted, Cat
  <2> HIDE DEF new
  <2>3. PICK rest \in Seq(Message) : /\ c = Cat(db, rest) /\ ToSet(rest) \cap named = {}
                                     /\ ToSet(rest) \subseteq ToSet(o.msgs) \cup later
    BY DEF Mirrors
  <2>4. Rising(rest) BY <1>1, <2>3, RisingParts
  <2>5. ToSet(c) = ToSet(db) \cup ToSet(rest) BY <1>1, <2>3, CatParts
  <2>6. ToSet(new) \subseteq ToSet(rest) BY <1>1, <2>1, <2>5
  <2>7. Precede(ToSet(new), ToSet(rest) \ ToSet(new)) BY <2>1, <2>3 DEF Precede
  <2>8. IsPrefix(new, rest) BY <2>1, <2>3, <2>4, <2>6, <2>7, OldestFirst
  <2>9. PICK more \in Seq(Message) : rest = Cat(new, more) BY <2>1, <2>3, <2>8, PrefixSplit
  <2>10. c = Cat(db', more) BY <1>1, <2>1, <2>2, <2>3, <2>9, CatThree
  <2>11. ToSet(rest) = ToSet(new) \cup ToSet(more) BY <2>1, <2>9, CatParts
  <2>12. Precede(ToSet(new), ToSet(more)) BY <2>1, <2>4, <2>9, RisingParts
  <2>13. ToSet(new) \cap ToSet(more) = {}
    <3>1. ToSet(new) \subseteq Message BY <2>1, SetOf
    <3>2. \A m \in ToSet(new) : m.n \in Nat BY <2>1, <3>1, Numbers
    <3> QED BY <2>12, <3>2 DEF Precede
  <2>14. ToSet(db') = ToSet(db) \cup ToSet(new) BY <1>1, <2>1, <2>2, CatParts
  <2>15. ToSet(more) \cap named' = {} BY <1>1, <1>2, <2>3, <2>11, <2>13, <2>14
  <2>16. ToSet(more) \subseteq later BY <2>1, <2>3, <2>11, <2>13
  <2> QED BY <1>2, <2>10, <2>15, <2>16 DEF Mirrors
<1> QED BY <1>3, <1>4

(* An undo takes the same messages from rows and cache.                      *)
LEMMA UndoesMirrors ==
  ASSUME TypeOK, NEW c \in Seq(Message), ToSet(db) \subseteq named, Rising(c),
         NEW later, Mirrors(db, c, named, later), Undoes(c)
  PROVE  Mirrors(db, cache, named, later)' /\ Rising(cache)'
<1>1. db \in Seq(Message) /\ named' = named BY DEF TypeOK, Undoes
<1>2. CASE UNCHANGED db /\ cache' = c BY <1>1, <1>2 DEF Mirrors
<1>3. ASSUME NEW i \in Nat, Retracts(c, i)
      PROVE  Mirrors(db, cache, named, later)' /\ Rising(cache)'
  <2> DEFINE gone == {db[i - 1], db[i]}
  <2>1. gone \subseteq ToSet(db) BY <1>1, <1>3, SetOf DEF Retracts
  <2>2. db' = Without(db, gone) /\ cache' = Without(c, gone) BY <1>3 DEF Retracts
  <2> HIDE DEF gone
  <2>3. PICK rest \in Seq(Message) : /\ c = Cat(db, rest) /\ ToSet(rest) \cap named = {}
                                     /\ ToSet(rest) \subseteq later
    BY DEF Mirrors
  <2>4. Without(rest, gone) = rest
    <3>1. \A j \in 1..Len(rest) : rest[j] \in ToSet(rest) BY <2>3, SetOf
    <3>2. Avoids(rest, gone) BY <2>1, <2>3, <3>1 DEF Avoids
    <3> QED BY <2>3, <3>2, WithoutNone
  <2>5. Without(c, gone) = Cat(Without(db, gone), Without(rest, gone)) BY <1>1, <2>3, WithoutConcat
  <2>6. cache' = Cat(db', rest) BY <2>2, <2>4, <2>5
  <2>7. Rising(cache') BY <2>2, WithoutKeeps
  <2> QED BY <1>1, <2>3, <2>6, <2>7 DEF Mirrors
<1> QED BY <1>2, <1>3, UndoesRetracts

(* What the holder of the lock leaves of the cache c: the rows, then the     *)
(* messages of those who come later.                                         *)
LEMMA RunsMirrors ==
  ASSUME TypeOK, Calm, NEW o, NEW c, NEW top, Ready(o, c, top), Runs(o, c), Rising(c), Rising(o.msgs),
         o.op \notin {"append", "save"} => o.msgs = <<>>,
         NEW later, Precede(ToSet(o.msgs), later),
         Mirrors(db, c, named, ToSet(o.msgs) \cup later)
  PROVE  Mirrors(db, cache, named, later)' /\ Rising(cache)'
<1>1. c \in Seq(Message) /\ ToSet(db) \subseteq named BY DEF Ready, Holds
<1>2. CASE Stores(o, c)
  <2>1. cache' = c BY <1>2 DEF Stores
  <2> QED BY <1>2, <2>1, StoresMirrors
<1>3. CASE StoreFails(o, c) BY <1>3 DEF StoreFails, Calm
<1>4. CASE o.op \notin {"append", "save"}
  <2>1. ToSet(o.msgs) = {} BY <1>4 DEF ToSet
  <2>2. Mirrors(db, c, named, later) BY <2>1 DEF Mirrors
  <2>3. CASE Undoes(c) BY <1>1, <2>2, <2>3, UndoesMirrors
  <2>4. CASE Commits(c)
    <3>1. cache' = c /\ UNCHANGED <<db, named>> BY <2>4 DEF Commits
    <3> QED BY <2>2, <3>1 DEF Mirrors
  <2> QED BY <1>4, <2>3, <2>4 DEF Runs
<1> QED BY <1>2, <1>3, <1>4 DEF Runs

(* An empty queue.                                                           *)
LEMMA NobodyWaits == InLine(<<>>) /\ Told(<<>>) = {}
<1>1. \A k \in 1..Len(<<>>) : FALSE OBVIOUS
<1> QED BY <1>1 DEF InLine, Told

(* The last place of the queue.                                              *)
LEMMA JoinsLine ==
  ASSUME NEW w \in Seq(Waiter), InLine(w), NEW o \in Waiter, Rising(o.msgs),
         o.op \notin {"append", "save"} => o.msgs = <<>>,
         Precede(Told(w), ToSet(o.msgs)), NEW v, v = Append(w, o)
  PROVE  InLine(v) /\ Told(v) = Told(w) \cup ToSet(o.msgs)
<1> DEFINE L == Len(w) + 1
<1>1. Len(w) \in Nat /\ Len(v) = L /\ v[L] = o /\ \A k \in 1..Len(w) : v[k] = w[k]
  BY AppendProperties, LenProperties
<1>2. (\A k \in 1..L : k \in 1..Len(w) \/ k = L) /\ L \in 1..L /\ (\A k \in 1..Len(w) : k \in 1..L)
      /\ (\A j, k \in 1..L : j < k => j \in 1..Len(w))
  BY <1>1
<1> HIDE DEF L
<1>3. ASSUME NEW k \in 1..L
      PROVE  Rising(v[k].msgs) /\ (v[k].op \notin {"append", "save"} => v[k].msgs = <<>>)
  <2>1. CASE k = L BY <1>1, <2>1
  <2>2. CASE k \in 1..Len(w) BY <1>1, <2>2 DEF InLine
  <2> QED BY <1>2, <2>1, <2>2
<1>4. ASSUME NEW j \in 1..L, NEW k \in 1..L, j < k PROVE Precede(ToSet(v[j].msgs), ToSet(v[k].msgs))
  <2>1. j \in 1..Len(w) /\ v[j] = w[j] BY <1>1, <1>2, <1>4
  <2>2. CASE k = L
    <3>1. ToSet(w[j].msgs) \subseteq Told(w) BY <2>1, ToldBy
    <3> QED BY <1>1, <2>1, <2>2, <3>1 DEF Precede
  <2>3. CASE k \in 1..Len(w) BY <1>1, <1>4, <2>1, <2>3 DEF InLine
  <2> QED BY <1>2, <2>2, <2>3
<1>5. InLine(v) BY <1>1, <1>3, <1>4 DEF InLine
<1>6. ASSUME NEW m PROVE m \in Told(v) <=> m \in Told(w) \/ m \in ToSet(o.msgs)
  <2>1. m \in Told(v) <=> \E k \in 1..L : m \in ToSet(v[k].msgs) BY <1>1, ToldBy
  <2>2. m \in Told(w) <=> \E k \in 1..Len(w) : m \in ToSet(w[k].msgs) BY ToldBy
  <2> QED BY <1>1, <1>2, <2>1, <2>2
<1> QED BY <1>5, <1>6

(* The queue without its head.                                               *)
LEMMA LeavesLine ==
  ASSUME NEW w \in Seq(Waiter), w # <<>>, InLine(w), NEW v, v = Tail(w)
  PROVE  /\ InLine(v) /\ Told(w) = ToSet(Head(w).msgs) \cup Told(v)
         /\ Precede(ToSet(Head(w).msgs), Told(v)) /\ Rising(Head(w).msgs)
         /\ Head(w).op \notin {"append", "save"} => Head(w).msgs = <<>>
<1>1. /\ 1 \in 1..Len(w) /\ Head(w) = w[1] /\ v \in Seq(Waiter)
      /\ \A i \in 1..Len(v) : i + 1 \in 1..Len(w) /\ v[i] = w[i + 1]
  BY TailDrawn
<1>2. Len(v) = Len(w) - 1 /\ Len(w) \in Nat /\ Len(v) \in Nat BY HeadTailProperties, LenProperties, <1>1
<1>3. \A k \in 1..Len(w) : k = 1 \/ (k - 1 \in 1..Len(v) /\ k = (k - 1) + 1) BY <1>2
<1>4. \A j, k \in 1..Len(v) : j < k => j + 1 < k + 1 BY <1>2
<1>5. \A k \in 1..Len(v) : 1 < k + 1 BY <1>2
<1> DEFINE o == Head(w)
<1> HIDE DEF o
<1>6. o = w[1] /\ Rising(o.msgs) /\ (o.op \notin {"append", "save"} => o.msgs = <<>>)
  BY <1>1 DEF InLine, o
<1>7. InLine(v) BY <1>1, <1>4 DEF InLine
<1>8. ASSUME NEW m PROVE m \in Told(w) <=> m \in ToSet(o.msgs) \/ m \in Told(v)
  <2>1. m \in Told(w) <=> \E k \in 1..Len(w) : m \in ToSet(w[k].msgs) BY ToldBy
  <2>2. m \in Told(v) <=> \E k \in 1..Len(v) : m \in ToSet(v[k].msgs) BY ToldBy
  <2>3. ASSUME NEW k \in 1..Len(w), m \in ToSet(w[k].msgs) PROVE m \in ToSet(o.msgs) \/ m \in Told(v)
    <3>1. CASE k = 1 BY <1>6, <2>3, <3>1
    <3>2. CASE k - 1 \in 1..Len(v) /\ k = (k - 1) + 1
      <4> DEFINE j == k - 1
      <4>1. j \in 1..Len(v) /\ k = j + 1 BY <3>2
      <4> HIDE DEF j
      <4>2. v[j] = w[k] BY <1>1, <4>1
      <4> QED BY <2>2, <2>3, <4>1, <4>2
    <3> QED BY <1>3, <3>1, <3>2
  <2>4. m \in ToSet(o.msgs) => m \in Told(w) BY <1>1, <1>6, <2>1
  <2>5. m \in Told(v) => m \in Told(w) BY <1>1, <2>1, <2>2
  <2> QED BY <2>1, <2>3, <2>4, <2>5
<1>9. ASSUME NEW m \in ToSet(o.msgs), NEW p \in Told(v) PROVE m.n < p.n
  <2>1. PICK k \in 1..Len(v) : p \in ToSet(v[k].msgs) BY ToldBy
  <2>2. Precede(ToSet(w[1].msgs), ToSet(w[k + 1].msgs)) BY <1>1, <1>5 DEF InLine
  <2>3. p \in ToSet(w[k + 1].msgs) BY <1>1, <2>1
  <2> QED BY <1>6, <2>2, <2>3 DEF Precede
<1> QED BY <1>6, <1>7, <1>8, <1>9 DEF Precede, o

(* A task takes the lock or joins the queue.                                 *)
LEMMA ArrivesCalm ==
  ASSUME TypeOK, Calm, NEW o, NEW c, NEW top, Ready(o, c, top), Arrives(o, c), Rising(c), Rising(o.msgs),
         o.op \notin {"append", "save"} => o.msgs = <<>>, InLine(waiting),
         Precede(Told(waiting), ToSet(o.msgs)),
         Mirrors(db, c, named, Told(waiting) \cup ToSet(o.msgs))
  PROVE  CalmInv'
<1>1. CASE Free /\ Runs(o, c) /\ UNCHANGED waiting
  <2>1. waiting = <<>> /\ waiting' = <<>> BY <1>1 DEF Free
  <2>2. InLine(waiting') /\ Told(waiting') = {} /\ Told(waiting) = {} BY <2>1, NobodyWaits
  <2> DEFINE none == {}
  <2>3. Precede(ToSet(o.msgs), none) BY DEF Precede
  <2>4. Mirrors(db, c, named, ToSet(o.msgs) \cup none)
    <3>1. Told(waiting) \cup ToSet(o.msgs) = ToSet(o.msgs) \cup none BY <2>2
    <3> QED BY <3>1
  <2> HIDE DEF none
  <2>5. Mirrors(db', cache', named', none) /\ Rising(cache') BY <1>1, <2>3, <2>4, RunsMirrors
  <2> QED BY <2>2, <2>5 DEF CalmInv, none
<1>2. CASE waiting' = Append(waiting, o) /\ cache' = c /\ UNCHANGED <<db, named>>
  <2>1. waiting \in Seq(Waiter) /\ o \in Waiter BY DEF TypeOK, Ready
  <2> DEFINE v == waiting'
  <2>2. v = Append(waiting, o) BY <1>2
  <2> HIDE DEF v
  <2>3. InLine(v) /\ Told(v) = Told(waiting) \cup ToSet(o.msgs) BY <2>1, <2>2, JoinsLine
  <2>4. Mirrors(db, c, named, Told(v)) BY <2>3
  <2> QED BY <1>2, <2>3, <2>4 DEF CalmInv, v
<1> QED BY <1>1, <1>2 DEF Arrives

(* Every step of these behaviours keeps the invariant.                       *)
LEMMA NextCalm ==
  ASSUME TypeOK, CleanInv, CalmInv, Calm, Next
  PROVE  CalmInv'
<1>1. /\ Holds(cache, created) /\ Waiters /\ Rising(cache) /\ InLine(waiting)
      /\ Mirrors(db, cache, named, Told(waiting))
      /\ db \in Seq(Message) /\ cache \in Seq(Message) /\ waiting \in Seq(Waiter) /\ created \in Nat
      /\ ToSet(db) \subseteq named
  BY DEF CleanInv, CalmInv, TypeOK, Holds
<1>2. ASSUME UNCHANGED <<db, cache, waiting, named>> PROVE CalmInv'
  BY <1>1, <1>2 DEF CalmInv
<1>3. ASSUME NEW o \in {UndoLast, CommitDraft}, Arrives(o, cache) PROVE CalmInv'
  <2>1. Ready(o, cache, created) BY <1>1, PlainReady
  <2>2. o.msgs = <<>> BY DEF UndoLast, CommitDraft
  <2>3. ToSet(o.msgs) = {} /\ Rising(o.msgs) BY <2>2 DEF ToSet, Rising
  <2>4. Precede(Told(waiting), ToSet(o.msgs)) BY <2>3 DEF Precede
  <2>5. Mirrors(db, cache, named, Told(waiting) \cup ToSet(o.msgs))
    <3>1. Told(waiting) \cup ToSet(o.msgs) = Told(waiting) BY <2>3
    <3> QED BY <1>1, <3>1
  <2> QED BY <1>1, <1>3, <2>1, <2>2, <2>3, <2>4, <2>5, ArrivesCalm
<1>4. CASE Turn \/ DesktopUser \/ DesktopReply \/ Proactive \/ DesktopPush
  <2>1. PICK msgs, o : Comes(o, msgs) /\ Adds(msgs, o) BY <1>4, WritersCome
  <2> DEFINE c == Cat(cache, msgs)
             top == created + Len(msgs)
  <2>2. Arrives(o, c) BY <2>1 DEF Adds, Cat
  <2>3. c = Cat(cache, msgs) /\ top = created + Len(msgs) OBVIOUS
  <2> HIDE DEF c, top
  <2>4. Ready(o, c, top) /\ \A m \in ToSet(msgs) : m \notin named BY <1>1, <2>1, <2>3, ComesReady
  <2>5. /\ msgs \in Seq(Message) /\ Rising(msgs) /\ o.msgs = msgs /\ o.op \in {"append", "save"}
        /\ \A m \in ToSet(msgs) : created < m.n
    BY <2>1 DEF Comes
  <2>6. ASSUME NEW m \in Message, m.n <= created, NEW p \in ToSet(msgs) PROVE m.n < p.n
    <3>1. p \in Message BY <2>5, SetOf
    <3>2. m.n \in Nat /\ p.n \in Nat /\ created < p.n BY <1>1, <2>5, <3>1, Numbers
    <3> QED BY <1>1, <2>6, <3>2
  <2>7. Rising(c)
    <3>1. ASSUME NEW m \in ToSet(cache) PROVE m \in Message /\ m.n <= created
      <4>1. m \in Message BY <1>1, SetOf
      <4> QED BY <1>1, <4>1 DEF Holds
    <3>2. \A m \in ToSet(cache) : \A p \in ToSet(msgs) : m.n < p.n BY <2>6, <3>1
    <3> QED BY <1>1, <2>3, <2>5, <3>2, CatRising
  <2>8. Precede(Told(waiting), ToSet(o.msgs))
    <3>1. ASSUME NEW m \in Told(waiting) PROVE m \in Message /\ m.n <= created
      <4>1. PICK k \in 1..Len(waiting) : m \in ToSet(waiting[k].msgs) BY ToldBy
      <4> DEFINE q == waiting[k]
      <4>2. q \in Waiter /\ Waits(q, named, ToSet(cache), created) BY <1>1, ElementOfSeq DEF Waiters
      <4>3. m \in ToSet(q.msgs) BY <4>1
      <4> HIDE DEF q
      <4>4. q.msgs \in Seq(Message) BY <4>2 DEF Waiter
      <4>5. m \in Message BY <4>3, <4>4, SetOf
      <4> QED BY <4>2, <4>3, <4>5 DEF Waits
    <3> QED BY <2>5, <2>6, <3>1 DEF Precede
  <2>9. Mirrors(db, c, named, Told(waiting) \cup ToSet(o.msgs))
    <3>1. PICK rest \in Seq(Message) : /\ cache = Cat(db, rest) /\ ToSet(rest) \cap named = {}
                                       /\ ToSet(rest) \subseteq Told(waiting)
      BY <1>1 DEF Mirrors
    <3> DEFINE more == Cat(rest, msgs)
    <3>2. more = Cat(rest, msgs) OBVIOUS
    <3> HIDE DEF more
    <3>3. more \in Seq(Message) /\ ToSet(more) = ToSet(rest) \cup ToSet(msgs) BY <2>5, <3>1, <3>2, CatParts
    <3>4. c = Cat(db, more) BY <1>1, <2>3, <2>5, <3>1, <3>2, CatThree
    <3>5. ToSet(more) \cap named = {} /\ ToSet(more) \subseteq Told(waiting) \cup ToSet(o.msgs)
      BY <2>4, <2>5, <3>1, <3>3
    <3> QED BY <3>3, <3>4, <3>5 DEF Mirrors
  <2> QED BY <1>1, <2>2, <2>4, <2>5, <2>7, <2>8, <2>9, ArrivesCalm
<1>5. CASE SaveUnlocked
  <2>1. db' = Synced(db, cache) /\ UNCHANGED <<cache, waiting>> BY <1>5 DEF SaveUnlocked
  <2> DEFINE later == Told(waiting)
  <2>2. Mirrors(db, cache, named, later) BY <1>1
  <2> HIDE DEF later
  <2>3. db' = cache BY <1>1, <2>1, <2>2, SyncedAll
  <2>4. Mirrors(cache, cache, named', Told(waiting)) BY <1>1, MirrorsAll
  <2> QED BY <1>1, <2>1, <2>3, <2>4 DEF CalmInv
<1>6. CASE Undo BY <1>3, <1>6 DEF Undo
<1>7. CASE Grant
  <2>1. waiting # <<>> /\ waiting' = Tail(waiting) /\ Runs(Head(waiting), cache) BY <1>7 DEF Grant
  <2> DEFINE o == Head(waiting)
             v == Tail(waiting)
             later == Told(v)
  <2>2. v = Tail(waiting) /\ Runs(o, cache) BY <2>1
  <2>3. o \in Waiter /\ 1 \in 1..Len(waiting) /\ o = waiting[1] BY <1>1, <2>1, TailDrawn
  <2> HIDE DEF v
  <2>4. /\ InLine(v) /\ Told(waiting) = ToSet(o.msgs) \cup later
        /\ Precede(ToSet(o.msgs), later) /\ Rising(o.msgs)
        /\ o.op \notin {"append", "save"} => o.msgs = <<>>
    BY <1>1, <2>1, <2>2, LeavesLine
  <2> HIDE DEF o, later
  <2>5. Waits(o, named, ToSet(cache), created) BY <1>1, <2>3 DEF Waiters
  <2>6. Ready(o, cache, created) BY <1>1, <2>3, <2>5 DEF Ready
  <2>7. Mirrors(db, cache, named, ToSet(o.msgs) \cup later) BY <1>1, <2>4
  <2>8. Mirrors(db', cache', named', later) /\ Rising(cache') BY <1>1, <2>2, <2>4, <2>6, <2>7, RunsMirrors
  <2>9. waiting' = v BY <2>1 DEF v
  <2> QED BY <2>4, <2>8, <2>9 DEF CalmInv, later
<1>8. CASE Prepared BY <1>3, <1>8 DEF Prepared
<1>9. CASE WriteMemory BY <1>2, <1>9 DEF WriteMemory
<1>10. CASE CommitCursor BY <1>2, <1>10 DEF CommitCursor
<1>11. CASE Publish BY <1>2, <1>11 DEF Publish
<1>12. CASE Cancel BY <1>12 DEF Cancel, Calm
<1>13. CASE Capture BY <1>2, <1>13 DEF Capture
<1>14. CASE PrepareFails BY <1>2, <1>14 DEF PrepareFails
<1>15. CASE CommitFails BY <1>15 DEF CommitFails, Calm
<1>16. CASE Crash
  <2>1. cache' = db /\ db' = db /\ waiting' = <<>> BY <1>16 DEF Crash
  <2>2. InLine(waiting') BY <2>1, NobodyWaits
  <2>3. Rising(db)
    <3>1. PICK rest \in Seq(Message) : cache = Cat(db, rest) BY <1>1 DEF Mirrors
    <3> QED BY <1>1, <3>1, RisingParts
  <2>4. Mirrors(db, db, named', Told(waiting')) BY <1>1, MirrorsAll
  <2> QED BY <2>1, <2>2, <2>3, <2>4 DEF CalmInv
<1> QED BY <1>4, <1>5, <1>6, <1>7, <1>8, <1>9, <1>10, <1>11, <1>12, <1>13, <1>14, <1>15, <1>16
        DEF Next, Writers, Work

(* CacheMirrors: while no writer is cancelled and no write fails the cache   *)
(* holds the rows in their order and then the messages whose writers wait.   *)
THEOREM CacheMirrorsCorrect == Spec => []CacheMirrors
<1> DEFINE CInv == IInv /\ (Calm => CalmInv)
<1>1. Init => CInv
  <2> SUFFICES ASSUME Init PROVE CalmInv BY CleanStep
  <2>1. db = <<>> /\ cache = <<>> /\ waiting = <<>> BY DEF Init
  <2>2. Rising(<<>>) BY DEF Rising
  <2>3. <<>> \in Seq(Message) BY EmptySeq
  <2>4. Mirrors(<<>>, <<>>, named, Told(waiting)) BY <2>3, MirrorsAll
  <2> QED BY <2>1, <2>2, <2>4, NobodyWaits DEF CalmInv
<1>2. CInv /\ [Next]_vars => CInv'
  <2> SUFFICES ASSUME IInv, Calm => CalmInv, [Next]_vars, Calm' PROVE CalmInv' BY CleanStep
  <2>1. CASE Next
    <3>1. Calm BY <2>1 DEF Next, Calm
    <3>2. TypeOK /\ CleanInv BY <3>1 DEF IInv, TInv, Calm, Clean
    <3> QED BY <2>1, <3>1, <3>2, NextCalm
  <2>2. CASE UNCHANGED vars BY <2>2 DEF vars, Calm, CalmInv
  <2> QED BY <2>1, <2>2
<1>3. CInv => CacheMirrors
  <2> SUFFICES ASSUME CInv, Calm
               PROVE  /\ IsPrefix(db, cache)
                      /\ \A i \in Len(db) + 1..Len(cache) :
                            \E k \in DOMAIN waiting : cache[i] \in ToSet(waiting[k].msgs)
    BY DEF CacheMirrors, Calm
  <2>1. db \in Seq(Message) /\ waiting \in Seq(Waiter) BY DEF IInv, TInv, TypeOK
  <2>2. PICK rest \in Seq(Message) : cache = Cat(db, rest) /\ ToSet(rest) \subseteq Told(waiting)
    BY DEF CalmInv, Mirrors
  <2>3. IsPrefix(db, cache) BY <2>1, <2>2, CatParts
  <2>4. ASSUME NEW i \in Len(db) + 1..Len(cache)
        PROVE  \E k \in DOMAIN waiting : cache[i] \in ToSet(waiting[k].msgs)
    <3>1. Len(db) \in Nat BY <2>1, LenProperties
    <3>2. i \in 1..Len(cache) /\ i \notin 1..Len(db) BY <3>1
    <3>3. i - Len(db) \in 1..Len(rest) /\ cache[i] = rest[i - Len(db)] BY <2>1, <2>2, <3>2, Sides
    <3>4. cache[i] \in Told(waiting) BY <2>2, <3>3, SetOf
    <3>5. DOMAIN waiting = 1..Len(waiting) BY <2>1, LenProperties
    <3> QED BY <3>4, <3>5, ToldBy
  <2> QED BY <2>3, <2>4
<1> QED BY <1>1, <1>2, <1>3, PTL DEF Spec

=============================================================================
