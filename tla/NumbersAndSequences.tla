------------------------- MODULE NumbersAndSequences -------------------------
(***************************************************************************)
(* What the proofs of several modules need: induction over the naturals,   *)
(* for loops over positions, the existence of functions defined by         *)
(* recursion, and the sequences made by Append, Front and SubSeq.  The     *)
(* predicate of an induction is a set: the least number outside of it is   *)
(* the one whose interval is minimal for set inclusion.                    *)
(***************************************************************************)
EXTENDS Integers, SequencesExt, SequenceTheorems, FiniteSetTheorems, TLAPS

LEMMA LeastBelow ==
  ASSUME NEW m \in Nat, NEW T \in SUBSET (0..m), T # {}
  PROVE  \E x \in T : \A y \in T : x <= y
<1> DEFINE S == 0..m
           Intervals == {0..(n - 1) : n \in T}
<1>1. IsWellFoundedOn(StrictSubsetOrdering(S), FiniteSubsetsOf(S))
  BY FS_StrictSubsetOrderingWellFounded
<1>2. Intervals \subseteq FiniteSubsetsOf(S) /\ Intervals # {}
  <2>1. ASSUME NEW n \in T
        PROVE  0..(n - 1) \in FiniteSubsetsOf(S)
    <3>1. IsFiniteSet(0..(n - 1))
      BY FS_Interval
    <3> QED
      BY <3>1 DEF FiniteSubsetsOf
  <2> QED
    BY <2>1
<1>3. PICK X \in Intervals : \A Y \in Intervals : <<Y, X>> \notin StrictSubsetOrdering(S)
  <2> HIDE DEF Intervals, S
  <2> QED
    BY <1>1, <1>2, WFMin
<1>4. PICK x \in T : X = 0..(x - 1)
  BY <1>3
<1>5. ASSUME NEW y \in T, y < x
      PROVE  FALSE
  <2>1. 0..(y - 1) \in Intervals
    OBVIOUS
  <2>2. y \in X /\ y \notin 0..(y - 1)
    BY <1>4, <1>5
  <2>3. 0..(y - 1) \subseteq X /\ 0..(y - 1) # X
    BY <1>4, <1>5, <2>2
  <2>4. <<0..(y - 1), X>> \in StrictSubsetOrdering(S)
    BY <2>1, <2>3, <1>2, <1>3 DEF StrictSubsetOrdering, FiniteSubsetsOf
  <2> QED
    BY <1>3, <2>1, <2>4
<1> QED
  BY <1>5

LEMMA Least ==
  ASSUME NEW T \in SUBSET Nat, T # {}
  PROVE  \E x \in T : \A y \in T : x <= y
<1>1. PICK t \in T : TRUE
  OBVIOUS
<1>2. T \cap (0..t) \in SUBSET (0..t) /\ T \cap (0..t) # {}
  BY <1>1
<1>3. PICK x \in T \cap (0..t) : \A y \in T \cap (0..t) : x <= y
  BY <1>2, LeastBelow
<1> QED
  BY <1>3

LEMMA Induct ==
  ASSUME NEW S \in SUBSET Nat, 0 \in S, \A n \in S : n + 1 \in S
  PROVE  S = Nat
<1> SUFFICES ASSUME Nat \ S # {}
             PROVE  FALSE
  OBVIOUS
<1>1. PICK x \in Nat \ S : \A y \in Nat \ S : x <= y
  BY Least
<1>2. x # 0 /\ x - 1 \in Nat /\ ~(x <= x - 1) /\ (x - 1) + 1 = x
  BY <1>1
<1> QED
  BY <1>1, <1>2

LEMMA InductTo ==
  ASSUME NEW n \in Nat, NEW P, 0 \in P, \A k \in 0..(n - 1) : k \in P => k + 1 \in P
  PROVE  \A k \in 0..n : k \in P
<1> DEFINE S == {k \in Nat : k <= n => k \in P}
<1>1. 0 \in S
  OBVIOUS
<1>2. ASSUME NEW k \in S
      PROVE  k + 1 \in S
  <2>1. k + 1 \in Nat /\ (k + 1 <= n => k <= n /\ k \in 0..(n - 1))
    OBVIOUS
  <2> QED
    BY <2>1
<1>3. S \in SUBSET Nat
  OBVIOUS
<1> HIDE DEF S
<1>4. S = Nat
  BY <1>1, <1>2, <1>3, Induct
<1> QED
  BY <1>4 DEF S

\* What holds of a number when it holds of all above it up to n, holds up to n.
LEMMA FromTheTop ==
  ASSUME NEW n \in Nat, NEW T,
         \A c \in 1..n : (\A d \in 1..n : d > c => d \in T) => c \in T
  PROVE  \A c \in 1..n : c \in T
<1> DEFINE B == {k \in Nat : k < n /\ (n - k) \notin T}
<1> SUFFICES ASSUME NEW c \in 1..n, c \notin T
             PROVE  FALSE
  OBVIOUS
<1>1. n - c \in B
  <2>1. n - c \in Nat /\ n - c < n /\ n - (n - c) = c
    OBVIOUS
  <2> QED
    BY <2>1
<1>2. PICK k \in B : \A j \in B : k <= j
  <2>1. B \in SUBSET Nat /\ B # {}
    BY <1>1
  <2> HIDE DEF B
  <2> QED
    BY <2>1, Least
<1>3. n - k \in 1..n /\ (n - k) \notin T
  BY <1>2
<1>4. ASSUME NEW d \in 1..n, d > n - k
      PROVE  d \in T
  <2>1. n - d \in Nat /\ n - d < n /\ n - (n - d) = d /\ ~(k <= n - d)
    BY <1>2, <1>4
  <2> QED
    BY <1>2, <2>1
<1> QED
  BY <1>3, <1>4

\* What holds of a number when it holds of all below it, holds of all.
LEMMA FromBelow ==
  ASSUME NEW n \in Nat, NEW T,
         \A c \in 0..n : (\A d \in 0..n : d < c => d \in T) => c \in T
  PROVE  \A c \in 0..n : c \in T
<1> DEFINE B == {k \in Nat : k <= n /\ k \notin T}
<1> SUFFICES ASSUME NEW c \in 0..n, c \notin T
             PROVE  FALSE
  OBVIOUS
<1>1. B \in SUBSET Nat /\ B # {}
  OBVIOUS
<1>2. PICK k \in B : \A j \in B : k <= j
  <2> HIDE DEF B
  <2> QED
    BY <1>1, Least
<1>3. ASSUME NEW d \in 0..n, d < k
      PROVE  d \in T
  BY <1>2, <1>3
<1> QED
  BY <1>2, <1>3

LEMMA OneOrMore == ASSUME NEW n \in Nat, n >= 1 PROVE n \in 1..n /\ 1 \in 1..n /\ (n > 1 \/ n = 1)
  OBVIOUS

LEMMA TwoOrMore == ASSUME NEW n \in Nat, n >= 2 PROVE n # 0 /\ n # 1
  OBVIOUS

-----------------------------------------------------------------------------
(* Recursion *)

\* A function defined by recursion from 0 to n exists; step[<<v, i>>] is the value at i
\* when v is the one before.
Recursive(n, first, step) ==
  \E f : /\ f = [i \in 0..n |-> f[i]]
         /\ f[0] = first
         /\ \A i \in 1..n : f[i] = step[<<f[i - 1], i>>]

LEMMA RecursionExists ==
  ASSUME NEW n \in Nat, NEW first, NEW step
  PROVE  Recursive(n, first, step)
<1> DEFINE Solves(f, m) == f = [i \in 0..m |-> IF i = 0 THEN first ELSE step[<<f[i - 1], i>>]]
           S == {m \in Nat : \E f : Solves(f, m)}
<1>1. 0 \in S
  <2>1. Solves([i \in 0..0 |-> first], 0)
    OBVIOUS
  <2> QED
    BY <2>1
<1>2. ASSUME NEW m \in S
      PROVE  m + 1 \in S
  <2>1. PICK f : Solves(f, m)
    OBVIOUS
  <2> DEFINE g == [i \in 0..(m + 1) |-> IF i <= m THEN f[i] ELSE step[<<f[m], m + 1>>]]
  <2>2. /\ g = [i \in 0..(m + 1) |-> g[i]]
        /\ \A i \in 0..m : g[i] = f[i]
        /\ g[m + 1] = step[<<f[m], m + 1>>]
    OBVIOUS
  <2> HIDE DEF g
  <2>3. ASSUME NEW i \in 0..(m + 1)
        PROVE  g[i] = IF i = 0 THEN first ELSE step[<<g[i - 1], i>>]
    <3>1. CASE i = 0
      <4>1. 0 \in 0..m /\ f[0] = first
        BY <2>1
      <4> QED
        BY <2>2, <3>1, <4>1
    <3>2. CASE i > 0 /\ i <= m
      <4>1. i - 1 \in 0..m /\ i \in 0..m
        BY <3>2
      <4>2. g[i] = f[i] /\ g[i - 1] = f[i - 1]
        BY <2>2, <4>1
      <4>3. f[i] = step[<<f[i - 1], i>>]
        BY <2>1, <3>2, <4>1
      <4> QED
        BY <3>2, <4>2, <4>3
    <3>3. CASE i = m + 1
      <4>1. i # 0 /\ i - 1 = m /\ m \in 0..m
        BY <3>3
      <4> QED
        BY <2>2, <3>3, <4>1
    <3> QED
      BY <3>1, <3>2, <3>3
  <2>4. Solves(g, m + 1)
    BY <2>2, <2>3
  <2> HIDE DEF Solves
  <2> QED
    BY <2>4
<1>3. S = Nat
  <2> HIDE DEF S
  <2>1. S \in SUBSET Nat
    BY DEF S
  <2> QED
    BY <1>1, <1>2, <2>1, Induct
<1>4. PICK f : Solves(f, n)
  BY <1>3
<1>5. \A i \in 0..n : f[i] = IF i = 0 THEN first ELSE step[<<f[i - 1], i>>]
  BY <1>4
<1>6. f = [i \in 0..n |-> f[i]]
  BY <1>4
<1>7. 0 \in 0..n /\ \A i \in 1..n : i \in 0..n /\ i # 0
  OBVIOUS
<1> HIDE DEF Solves
<1> QED
  BY <1>5, <1>6, <1>7 DEF Recursive

LEMMA ProductNat == \A x, y, z \in Nat : x * y + z \in Nat
  OBVIOUS

\* Each value is a multiple of the one before and something more.
Horner(f, n, first, a, b) ==
  /\ f = [i \in 0..n |-> f[i]] /\ f[0] = first
  /\ \A i \in 1..n : f[i] = a[i] * f[i - 1] + b[i]
  /\ \A i \in 0..n : f[i] \in Nat

LEMMA LoopExists ==
  ASSUME NEW n \in Nat, NEW first \in Nat, NEW a \in [1..n -> Nat], NEW b \in [1..n -> Nat]
  PROVE  \E f : Horner(f, n, first, a, b)
<1> DEFINE step == [x \in Nat \X (1..n) |-> a[x[2]] * x[1] + b[x[2]]]
<1>1. PICK f : /\ f = [i \in 0..n |-> f[i]] /\ f[0] = first
               /\ \A i \in 1..n : f[i] = step[<<f[i - 1], i>>]
  <2> HIDE DEF step
  <2>1. Recursive(n, first, step)
    BY RecursionExists
  <2> QED
    BY <2>1 DEF Recursive
<1>2. ASSUME NEW i \in 1..n, f[i - 1] \in Nat
      PROVE  f[i] = a[i] * f[i - 1] + b[i] /\ f[i] \in Nat
  <2>1. <<f[i - 1], i>> \in Nat \X (1..n) /\ <<f[i - 1], i>>[1] = f[i - 1] /\ <<f[i - 1], i>>[2] = i
    BY <1>2
  <2>2. step[<<f[i - 1], i>>] = a[i] * f[i - 1] + b[i]
    BY <2>1
  <2>3. a[i] \in Nat /\ b[i] \in Nat
    OBVIOUS
  <2>4. a[i] * f[i - 1] + b[i] \in Nat
    BY <1>2, <2>3, ProductNat
  <2>5. f[i] = step[<<f[i - 1], i>>]
    BY <1>1
  <2> HIDE DEF step
  <2> QED
    BY <2>2, <2>4, <2>5
<1>3. \A i \in 0..n : f[i] \in Nat
  <2> DEFINE P == {i \in 0..n : f[i] \in Nat}
  <2>1. 0 \in P
    BY <1>1
  <2>2. ASSUME NEW k \in 0..(n - 1), k \in P PROVE k + 1 \in P
    <3>1. k + 1 \in 1..n /\ (k + 1) - 1 = k /\ k + 1 \in 0..n
      OBVIOUS
    <3>2. f[k + 1] \in Nat
      BY <1>2, <2>2, <3>1
    <3> QED
      BY <3>1, <3>2
  <2> HIDE DEF P
  <2>3. \A k \in 0..n : k \in P
    BY <2>1, <2>2, InductTo
  <2> QED
    BY <2>3 DEF P
<1>4. \A i \in 1..n : i - 1 \in 0..n
  OBVIOUS
<1> HIDE DEF step
<1> QED
  BY <1>1, <1>2, <1>3, <1>4 DEF Horner

-----------------------------------------------------------------------------
(* Sequences *)

LEMMA Appended ==
  ASSUME NEW S, NEW s \in Seq(S), NEW e \in S
  PROVE  /\ Append(s, e) \in Seq(S) /\ Len(s) \in Nat
         /\ Len(Append(s, e)) = Len(s) + 1
         /\ \A i \in 1..Len(s) : Append(s, e)[i] = s[i]
         /\ Append(s, e)[Len(s) + 1] = e
  OBVIOUS

LEMMA Shortened ==
  ASSUME NEW S, NEW s \in Seq(S), s # <<>>
  PROVE  /\ Len(s) \in Nat /\ Len(s) >= 1 /\ Last(s) = s[Len(s)]
         /\ Front(s) \in Seq(S) /\ Len(Front(s)) = Len(s) - 1
         /\ \A i \in 1..Len(s) - 1 : Front(s)[i] = s[i]
<1>1. Len(s) \in Nat /\ Len(s) >= 1
  BY EmptySeq
<1>2. Front(s) = SubSeq(s, 1, Len(s) - 1)
  BY DEF Front
<1>3. /\ SubSeq(s, 1, Len(s) - 1) \in Seq(S)
      /\ Len(SubSeq(s, 1, Len(s) - 1)) = Len(s) - 1
      /\ \A i \in 1..Len(s) - 1 : SubSeq(s, 1, Len(s) - 1)[i] = s[i]
  <2>1. PICK n \in Nat : n = Len(s) - 1
    BY <1>1
  <2>2. \A i \in 1..n : s[i] \in S
    BY <1>1, <2>1
  <2>3. /\ SubSeq(s, 1, n) \in Seq(S)
        /\ Len(SubSeq(s, 1, n)) = IF 1 <= n THEN n - 1 + 1 ELSE 0
        /\ \A i \in 1..n - 1 + 1 : SubSeq(s, 1, n)[i] = s[1 + i - 1]
    BY <2>2, SubSeqProperties
  <2> QED
    BY <2>1, <2>3
<1> QED
  BY <1>1, <1>2, <1>3 DEF Last

LEMMA FrontLast ==
  ASSUME NEW S, NEW s \in Seq(S), s # <<>>
  PROVE  Front(s) \in Seq(S) /\ Last(s) \in S /\ s = Append(Front(s), Last(s))
<1>1. /\ Len(s) \in Nat /\ Len(s) >= 1 /\ Last(s) = s[Len(s)]
      /\ Front(s) \in Seq(S) /\ Len(Front(s)) = Len(s) - 1
      /\ \A i \in 1..Len(s) - 1 : Front(s)[i] = s[i]
  BY Shortened
<1>2. Last(s) \in S
  BY <1>1
<1> DEFINE f == Front(s)  e == Last(s)
<1> HIDE DEF f, e
<1>3. f \in Seq(S) /\ e \in S
  BY <1>1, <1>2 DEF f, e
<1>4. /\ Append(f, e) \in Seq(S) /\ Len(Append(f, e)) = Len(f) + 1
      /\ \A i \in 1..Len(f) : Append(f, e)[i] = f[i]
      /\ Append(f, e)[Len(f) + 1] = e
  BY <1>3, Appended
<1>5. Len(Append(f, e)) = Len(s) /\ \A i \in 1..Len(s) : Append(f, e)[i] = s[i]
  <2>1. Len(f) = Len(s) - 1 /\ e = s[Len(s)] /\ \A i \in 1..Len(s) - 1 : f[i] = s[i]
    BY <1>1 DEF f, e
  <2> QED
    BY <1>1, <1>4, <2>1
<1>6. s = Append(f, e)
  BY <1>4, <1>5, SeqEqual
<1> QED
  BY <1>3, <1>6 DEF f, e

LEMMA FrontOfAppend ==
  ASSUME NEW S, NEW s \in Seq(S), NEW e \in S
  PROVE  Front(Append(s, e)) = s /\ Last(Append(s, e)) = e /\ Append(s, e) # <<>>
<1> DEFINE t == Append(s, e)
<1>1. /\ t \in Seq(S) /\ Len(s) \in Nat /\ Len(t) = Len(s) + 1
      /\ \A i \in 1..Len(s) : t[i] = s[i]
      /\ t[Len(s) + 1] = e
  BY Appended
<1> HIDE DEF t
<1>2. t # <<>>
  <2>1. Len(t) # 0
    BY <1>1
  <2> QED
    BY <2>1, EmptySeq
<1>3. /\ Last(t) = t[Len(t)] /\ Front(t) \in Seq(S) /\ Len(Front(t)) = Len(t) - 1
      /\ \A i \in 1..Len(t) - 1 : Front(t)[i] = t[i]
  BY <1>1, <1>2, Shortened
<1>4. Len(Front(t)) = Len(s) /\ \A i \in 1..Len(s) : Front(t)[i] = s[i]
  BY <1>1, <1>3
<1>5. Front(t) = s
  BY <1>3, <1>4, SeqEqual
<1> QED
  BY <1>1, <1>2, <1>3, <1>5 DEF t

LEMMA OneLong ==
  ASSUME NEW S, NEW s \in Seq(S), Len(s) = 1
  PROVE  s = <<s[1]>> /\ Front(s) = <<>> /\ Last(s) = s[1] /\ s # <<>> /\ s[1] \in S
<1>1. s # <<>> /\ s[1] \in S
  BY EmptySeq
<1>2. Last(s) = s[1] /\ Front(s) \in Seq(S) /\ Len(Front(s)) = 0
  BY <1>1, Shortened
<1>3. s = <<s[1]>>
  OBVIOUS
<1> QED
  BY <1>1, <1>2, <1>3, EmptySeq

\* An item at the end of one of several sequences.
LEMMA Pushed ==
  ASSUME NEW S, NEW q \in Seq(Seq(S)), NEW m \in 0..Len(q) - 1, NEW e \in S
  PROVE  LET q2 == [q EXCEPT ![m + 1] = Append(@, e)]
         IN /\ q2 \in Seq(Seq(S)) /\ Len(q2) = Len(q)
            /\ \A b \in 0..Len(q) - 1 : b # m => q2[b + 1] = q[b + 1]
            /\ q[m + 1] \in Seq(S) /\ Len(q[m + 1]) \in Nat
            /\ Len(q2[m + 1]) = Len(q[m + 1]) + 1
            /\ \A i \in 1..Len(q[m + 1]) : q2[m + 1][i] = q[m + 1][i]
            /\ q2[m + 1][Len(q[m + 1]) + 1] = e
<1> DEFINE q2 == [q EXCEPT ![m + 1] = Append(@, e)]
<1>1. Len(q) \in Nat /\ m + 1 \in 1..Len(q) /\ q[m + 1] \in Seq(S)
  BY LenProperties
<1>2. /\ Append(q[m + 1], e) \in Seq(S) /\ Len(q[m + 1]) \in Nat
      /\ Len(Append(q[m + 1], e)) = Len(q[m + 1]) + 1
      /\ \A i \in 1..Len(q[m + 1]) : Append(q[m + 1], e)[i] = q[m + 1][i]
      /\ Append(q[m + 1], e)[Len(q[m + 1]) + 1] = e
  BY <1>1, Appended
<1>3. q2[m + 1] = Append(q[m + 1], e) /\ \A b \in 0..Len(q) - 1 : b # m => q2[b + 1] = q[b + 1]
  BY <1>1
<1>4. q2 \in Seq(Seq(S)) /\ Len(q2) = Len(q)
  BY <1>1, <1>2, ExceptSeq
<1> HIDE DEF q2
<1>5. QED
  BY <1>1, <1>2, <1>3, <1>4 DEF q2

Replaces(s, e, t) == [Append(s, e) EXCEPT ![Len(s) + 1] = t] = Append(s, t)

LEMMA LastReplaced ==
  ASSUME NEW S, NEW s \in Seq(S), NEW e \in S, NEW t \in S
  PROVE  Replaces(s, e, t)
<1> DEFINE a == Append(s, e)  b == Append(s, t)  n == Len(s) + 1  u == [a EXCEPT ![n] = t]
<1>1. /\ a \in Seq(S) /\ Len(a) = n /\ n \in 1..n /\ n \in Nat
      /\ \A i \in 1..n : i # n => a[i] = s[i]
      /\ b \in Seq(S) /\ Len(b) = n /\ b[n] = t
      /\ \A i \in 1..n : i # n => b[i] = s[i]
  <2>1. Len(s) \in Nat /\ \A i \in 1..Len(s) + 1 : i # Len(s) + 1 => i \in 1..Len(s)
    OBVIOUS
  <2> QED
    BY <2>1, Appended
<1> HIDE DEF a, b, n
<1>2. u \in Seq(S) /\ Len(u) = n /\ u[n] = t /\ \A i \in 1..n : i # n => u[i] = a[i]
  BY <1>1, ExceptSeq
<1> HIDE DEF u
<1>3. \A i \in 1..n : u[i] = b[i]
  BY <1>1, <1>2
<1>4. u = b
  BY <1>1, <1>2, <1>3, SeqEqual
<1> QED
  BY <1>4 DEF u, a, b, n, Replaces

\* What is left of a sequence.
LEMMA LeftBehind ==
  ASSUME NEW S, NEW ts \in Seq(S), NEW n \in 0..Len(ts)
  PROVE  /\ SubSeq(ts, n + 1, Len(ts)) \in Seq(S)
         /\ Len(SubSeq(ts, n + 1, Len(ts))) = Len(ts) - n
         /\ \A i \in 1..Len(ts) - n : SubSeq(ts, n + 1, Len(ts))[i] = ts[n + i]
<1>1. Len(ts) \in Nat /\ n + 1 \in Nat
  OBVIOUS
<1>2. \A i \in n + 1..Len(ts) : ts[i] \in S
  BY <1>1
<1>3. /\ SubSeq(ts, n + 1, Len(ts)) \in Seq(S)
      /\ Len(SubSeq(ts, n + 1, Len(ts))) = IF n + 1 <= Len(ts) THEN Len(ts) - (n + 1) + 1 ELSE 0
      /\ \A i \in 1..Len(ts) - (n + 1) + 1 :
           SubSeq(ts, n + 1, Len(ts))[i] = ts[n + 1 + i - 1]
  BY <1>1, <1>2, SubSeqProperties
<1> QED
  BY <1>1, <1>3

LEMMA SuffixOf ==
  ASSUME NEW S, NEW s \in Seq(S), NEW m \in Nat
  PROVE  SubSeq(s, m + 1, Len(s)) \in Seq(S)
<1>1. CASE m <= Len(s)
  BY <1>1, SubSeqProperties
<1>2. CASE m > Len(s)
  <2>1. SubSeq(s, m + 1, Len(s)) = << >>
    BY <1>2, SubSeqEmpty
  <2> QED
    BY <2>1
<1> QED
  BY <1>1, <1>2

LEMMA SubSeqSame ==
  ASSUME NEW S, NEW u \in Seq(S), NEW w \in Seq(S), NEW k \in Nat, k <= Len(u), k <= Len(w),
         \A i \in 1..k : u[i] = w[i]
  PROVE  SubSeq(u, 1, k) = SubSeq(w, 1, k)
<1>1. /\ SubSeq(u, 1, k) \in Seq(S) /\ Len(SubSeq(u, 1, k)) = k
      /\ \A i \in 1..k : SubSeq(u, 1, k)[i] = u[i]
  BY SubSeqProperties
<1>2. /\ SubSeq(w, 1, k) \in Seq(S) /\ Len(SubSeq(w, 1, k)) = k
      /\ \A i \in 1..k : SubSeq(w, 1, k)[i] = w[i]
  BY SubSeqProperties
<1> QED
  BY <1>1, <1>2, SeqEqual

LEMMA OwnRange ==
  ASSUME NEW S, NEW s \in Seq(S)
  PROVE  s \in Seq(Range(s))
<1>1. Len(s) \in Nat /\ s = [k \in 1..Len(s) |-> s[k]]
  OBVIOUS
<1>2. \A k \in 1..Len(s) : s[k] \in Range(s)
  BY DEF Range
<1> QED
  BY <1>1, <1>2

\* Each number of the sequence is 0 or that of a later item: what is defined along them
\* exists.
Forward(nx) ==
  nx \in Seq(Nat) /\ \A c \in 1..Len(nx) : nx[c] # 0 => nx[c] > c /\ nx[c] <= Len(nx)

LEMMA ForwardRecursion ==
  ASSUME NEW nx, Forward(nx)
  PROVE  \E f : f = [c \in DOMAIN nx |-> IF nx[c] = 0 THEN c ELSE f[nx[c]]]
<1> DEFINE n == Len(nx)
           Solved(m, f) == \A c \in (n - m + 1)..n : f[c] = IF nx[c] = 0 THEN c ELSE f[nx[c]]
           S == {m \in Nat : m <= n => \E f \in [(n - m + 1)..n -> Nat] : Solved(m, f)}
<1>1. n \in Nat /\ DOMAIN nx = 1..n /\ \A c \in 1..n : nx[c] \in Nat
  BY LenProperties DEF Forward
<1>2. \A c \in 1..n : nx[c] # 0 => nx[c] > c /\ nx[c] <= n
  BY DEF Forward
<1>3. 0 \in S
  <2>1. [c \in (n - 0 + 1)..n |-> 0] \in [(n - 0 + 1)..n -> Nat]
    OBVIOUS
  <2>2. \A c \in (n - 0 + 1)..n : FALSE
    BY <1>1
  <2> QED
    BY <1>1, <2>1, <2>2
<1>4. ASSUME NEW m \in S
      PROVE  m + 1 \in S
  <2>1. SUFFICES ASSUME m + 1 <= n
                 PROVE  \E f \in [(n - (m + 1) + 1)..n -> Nat] : Solved(m + 1, f)
    BY <1>1
  <2>2. PICK f \in [(n - m + 1)..n -> Nat] : Solved(m, f)
    BY <1>1, <2>1
  <2>3. PICK d \in 1..n : d = n - m /\ n - (m + 1) + 1 = d /\ n - m + 1 = d + 1
    <3>1. m \in Nat
      OBVIOUS
    <3> HIDE DEF n, S
    <3>2. n - m \in 1..n /\ n - (m + 1) + 1 = n - m
      BY <1>1, <2>1, <3>1
    <3> QED
      BY <3>2
  <2> DEFINE g == [c \in d..n |-> IF c = d THEN IF nx[d] = 0 THEN d ELSE f[nx[d]] ELSE f[c]]
  <2>4. f \in [(d + 1)..n -> Nat] /\ \A c \in (d + 1)..n : f[c] = IF nx[c] = 0 THEN c ELSE f[nx[c]]
    BY <2>2, <2>3
  <2>5. nx[d] # 0 => nx[d] \in (d + 1)..n
    BY <1>1, <1>2
  <2>6. g \in [d..n -> Nat]
    BY <1>1, <2>4, <2>5
  <2>7. ASSUME NEW c \in d..n
        PROVE  g[c] = IF nx[c] = 0 THEN c ELSE g[nx[c]]
    <3>1. CASE c = d
      <4>1. nx[d] # 0 => g[nx[d]] = f[nx[d]]
        BY <1>1, <2>5
      <4> QED
        BY <1>1, <3>1, <4>1
    <3>2. CASE c # d
      <4>1. c \in (d + 1)..n /\ c \in 1..n
        BY <1>1, <3>2
      <4>2. nx[c] # 0 => nx[c] \in (d + 1)..n /\ nx[c] \in d..n /\ nx[c] # d
        BY <1>1, <1>2, <4>1
      <4>3. g[c] = f[c] /\ (nx[c] # 0 => g[nx[c]] = f[nx[c]])
        BY <3>2, <4>2
      <4> QED
        BY <2>4, <4>1, <4>3
    <3> QED
      BY <3>1, <3>2
  <2> HIDE DEF g
  <2> QED
    BY <2>3, <2>6, <2>7
<1>5. n \in S
  <2>1. S \in SUBSET Nat
    OBVIOUS
  <2> HIDE DEF S
  <2>2. S = Nat
    BY <1>3, <1>4, <2>1, Induct
  <2> QED
    BY <1>1, <2>2
<1>6. PICK f \in [1..n -> Nat] : \A c \in 1..n : f[c] = IF nx[c] = 0 THEN c ELSE f[nx[c]]
  <2>1. n - n + 1 = 1
    BY <1>1
  <2> QED
    BY <1>1, <1>5, <2>1
<1>7. f = [c \in DOMAIN nx |-> IF nx[c] = 0 THEN c ELSE f[nx[c]]]
  BY <1>1, <1>6
<1> QED
  BY <1>7
=============================================================================
