----------------------------- MODULE ShellProofs -----------------------------
(***************************************************************************)
(* Theorems about the interactive shell.  The editor of a line             *)
(* (LineEditor): its loops over positions do what the abstract TextBuffer  *)
(* promises, for texts of any length, and the console stays in step with   *)
(* it.  The session (ReplSession): what one command leaves to the next.    *)
(* The terminal (TerminalModes): whose settings are in force.              *)
(***************************************************************************)
EXTENDS LineEditor, ReplSession, TerminalModes, SequenceTheorems, NumbersAndSequences

-----------------------------------------------------------------------------
(* Numbers *)

\* The least and the greatest element of a finite set of integers.
LEMMA MinOf ==
  ASSUME NEW m \in Nat, NEW T \in SUBSET (0..m), T # {}
  PROVE  Min(T) \in T /\ \A y \in T : Min(T) <= y
  BY LeastBelow DEF Min

LEMMA MaxOf ==
  ASSUME NEW m \in Nat, NEW T \in SUBSET (0..m), T # {}
  PROVE  Max(T) \in T /\ \A y \in T : Max(T) >= y
<1> DEFINE Mirror == {m - y : y \in T}
<1>1. PICK z \in Mirror : \A y \in Mirror : z <= y
  <2>1. Mirror \in SUBSET (0..m) /\ Mirror # {}
    <3>1. \A y \in T : m - y \in 0..m
      OBVIOUS
    <3> QED
      BY <3>1
  <2> HIDE DEF Mirror
  <2> QED
    BY <2>1, LeastBelow
<1>2. PICK x \in T : z = m - x
  OBVIOUS
<1>3. \A y \in T : m - x <= m - y
  BY <1>1, <1>2
<1>4. \A y \in T : x >= y
  BY <1>2, <1>3
<1> QED
  BY <1>4 DEF Max

-----------------------------------------------------------------------------
(* Slices of sequences *)

LEMMA Slice ==
  ASSUME NEW S, NEW s \in Seq(S), NEW m \in 1..Len(s) + 1, NEW n \in m - 1..Len(s)
  PROVE  /\ SubSeq(s, m, n) \in Seq(S)
         /\ Len(SubSeq(s, m, n)) = n - m + 1
         /\ \A p \in 1..n - m + 1 : SubSeq(s, m, n)[p] = s[m + p - 1]
<1>1. Len(s) \in Nat /\ m \in Int /\ n \in Int
  BY LenProperties
<1>2. \A p \in m..n : s[p] \in S
  BY <1>1, ElementOfSeq
<1>3. /\ SubSeq(s, m, n) \in Seq(S)
      /\ Len(SubSeq(s, m, n)) = IF m <= n THEN n - m + 1 ELSE 0
      /\ \A p \in 1..n - m + 1 : SubSeq(s, m, n)[p] = s[m + p - 1]
  BY <1>1, <1>2, SubSeqProperties
<1>4. (IF m <= n THEN n - m + 1 ELSE 0) = n - m + 1
  BY <1>1
<1> QED
  BY <1>3, <1>4

\* A sequence without its elements i + 1 to k.
Cut(s, i, k) == SubSeq(s, 1, i) \o SubSeq(s, k + 1, Len(s))

LEMMA CutOf ==
  ASSUME NEW S, NEW s \in Seq(S), NEW i \in 0..Len(s), NEW k \in i..Len(s)
  PROVE  /\ Cut(s, i, k) \in Seq(S)
         /\ Len(Cut(s, i, k)) = i + (Len(s) - k)
         /\ \A p \in 1..(i + (Len(s) - k)) :
              Cut(s, i, k)[p] = s[IF p <= i THEN p ELSE p + (k - i)]
<1> DEFINE l == SubSeq(s, 1, i)  r == SubSeq(s, k + 1, Len(s))
<1>1. Len(s) \in Nat /\ i \in Nat /\ k \in Nat /\ i <= k /\ k <= Len(s)
  BY LenProperties
<1>2. l \in Seq(S) /\ Len(l) = i /\ \A p \in 1..i : l[p] = s[p]
  <2>1. /\ l \in Seq(S)
        /\ Len(l) = i - 1 + 1
        /\ \A p \in 1..(i - 1 + 1) : l[p] = s[1 + p - 1]
    <3>1. 1 \in 1..Len(s) + 1 /\ i \in 1 - 1..Len(s)
      BY <1>1
    <3> QED
      BY <3>1, Slice
  <2> HIDE DEF l
  <2> QED
    BY <1>1, <2>1
<1>3. r \in Seq(S) /\ Len(r) = Len(s) - k /\ \A p \in 1..(Len(s) - k) : r[p] = s[p + k]
  <2>1. /\ r \in Seq(S)
        /\ Len(r) = Len(s) - (k + 1) + 1
        /\ \A p \in 1..(Len(s) - (k + 1) + 1) : r[p] = s[(k + 1) + p - 1]
    <3>1. k + 1 \in 1..Len(s) + 1 /\ Len(s) \in (k + 1) - 1..Len(s)
      BY <1>1
    <3> QED
      BY <3>1, Slice
  <2> HIDE DEF r
  <2>2. Len(s) - (k + 1) + 1 = Len(s) - k
    BY <1>1
  <2>3. ASSUME NEW p \in 1..(Len(s) - k)
        PROVE  r[p] = s[p + k]
    <3>1. (k + 1) + p - 1 = p + k
      BY <1>1
    <3> QED
      BY <2>1, <2>2, <3>1
  <2> QED
    BY <2>1, <2>2, <2>3
<1>4. Cut(s, i, k) = l \o r
  BY DEF Cut
<1> HIDE DEF l, r
<1>5. /\ l \o r \in Seq(S)
      /\ Len(l \o r) = Len(l) + Len(r)
      /\ \A p \in 1..Len(l) + Len(r) : (l \o r)[p] = IF p <= Len(l) THEN l[p] ELSE r[p - Len(l)]
  BY <1>2, <1>3, ConcatProperties
<1>6. ASSUME NEW p \in 1..(i + (Len(s) - k))
      PROVE  (l \o r)[p] = s[IF p <= i THEN p ELSE p + (k - i)]
  <2>1. (l \o r)[p] = IF p <= i THEN l[p] ELSE r[p - i]
    BY <1>2, <1>3, <1>5
  <2>2. CASE p <= i
    BY <1>1, <1>2, <2>1, <2>2
  <2>3. CASE ~(p <= i)
    <3>1. p - i \in 1..(Len(s) - k) /\ (p - i) + k = p + (k - i)
      BY <1>1, <2>3
    <3>2. r[p - i] = s[(p - i) + k]
      BY <1>3, <3>1
    <3> QED
      BY <2>1, <2>3, <3>1, <3>2
  <2> QED
    BY <2>2, <2>3
<1> QED
  BY <1>2, <1>3, <1>4, <1>5, <1>6

\* Sequences that are read the same are the same.
LEMMA CutNothing ==
  ASSUME NEW S, NEW s \in Seq(S), NEW i \in 0..Len(s)
  PROVE  Cut(s, i, i) = s
<1>1. Len(s) \in Nat /\ i \in i..Len(s) /\ i + (Len(s) - i) = Len(s)
  BY LenProperties
<1>2. /\ Cut(s, i, i) \in Seq(S)
      /\ Len(Cut(s, i, i)) = i + (Len(s) - i)
      /\ \A p \in 1..(i + (Len(s) - i)) :
           Cut(s, i, i)[p] = s[IF p <= i THEN p ELSE p + (i - i)]
  BY <1>1, CutOf
<1>3. \A p \in 1..Len(s) : (IF p <= i THEN p ELSE p + (i - i)) = p
  BY <1>1
<1> QED
  BY <1>1, <1>2, <1>3, SeqEqual

\* Erase removes one character; done to a text with characters missing, it widens
\* what is missing by the character left of it or right of it.
LEMMA EraseOne ==
  ASSUME NEW S, NEW s \in Seq(S), NEW i \in 0..Len(s) - 1
  PROVE  Erase(s, i) = Cut(s, i, i + 1)
<1>1. Len(s) \in Nat /\ i < Len(s) /\ (i + 1) - 1 = i
  BY LenProperties
<1> QED
  BY <1>1 DEF Erase, RemoveAt, Cut

LEMMA EraseLeftOf ==
  ASSUME NEW S, NEW s \in Seq(S), NEW i \in 0..Len(s), NEW k \in (i + 1)..Len(s)
  PROVE  Erase(Cut(s, i + 1, k), i) = Cut(s, i, k)
<1> DEFINE t == Cut(s, i + 1, k)  u == Cut(t, i, i + 1)  v == Cut(s, i, k)
<1>1. Len(s) \in Nat /\ i \in Nat /\ k \in Nat /\ i + 1 <= k /\ k <= Len(s)
  BY LenProperties
<1>2. /\ t \in Seq(S)
      /\ Len(t) = (i + 1) + (Len(s) - k)
      /\ \A p \in 1..((i + 1) + (Len(s) - k)) :
           t[p] = s[IF p <= i + 1 THEN p ELSE p + (k - (i + 1))]
  <2>1. i + 1 \in 0..Len(s)
    BY <1>1
  <2> QED
    BY <2>1, CutOf
<1>3. /\ v \in Seq(S)
      /\ Len(v) = i + (Len(s) - k)
      /\ \A p \in 1..(i + (Len(s) - k)) : v[p] = s[IF p <= i THEN p ELSE p + (k - i)]
  <2>1. k \in i..Len(s)
    BY <1>1
  <2> QED
    BY <2>1, CutOf
<1>4. Erase(t, i) = u
  <2>1. i \in 0..Len(t) - 1
    BY <1>1, <1>2
  <2> QED
    BY <1>2, <2>1, EraseOne
<1> HIDE DEF t, v
<1>5. /\ u \in Seq(S)
      /\ Len(u) = i + (Len(t) - (i + 1))
      /\ \A p \in 1..(i + (Len(t) - (i + 1))) :
           u[p] = t[IF p <= i THEN p ELSE p + ((i + 1) - i)]
  <2>1. i \in 0..Len(t) /\ i + 1 \in i..Len(t)
    BY <1>1, <1>2
  <2>2. t \in Seq(S)
    BY <1>2
  <2> QED
    BY <2>1, <2>2, CutOf
<1> HIDE DEF u
<1>6. i + (Len(t) - (i + 1)) = i + (Len(s) - k)
  BY <1>1, <1>2
<1>7. ASSUME NEW p \in 1..(i + (Len(s) - k))
      PROVE  u[p] = v[p]
  <2>1. CASE p <= i
    <3>1. u[p] = t[p]
      BY <1>5, <1>6, <2>1
    <3>2. t[p] = s[p]
      <4>1. p \in 1..((i + 1) + (Len(s) - k)) /\ p <= i + 1
        BY <1>1, <2>1
      <4> QED
        BY <1>2, <4>1
    <3> QED
      BY <1>3, <2>1, <3>1, <3>2
  <2>2. CASE p > i
    <3>1. u[p] = t[p + 1]
      <4>1. ~(p <= i) /\ p + ((i + 1) - i) = p + 1
        BY <1>1, <2>2
      <4> QED
        BY <1>5, <1>6, <4>1
    <3>2. t[p + 1] = s[p + (k - i)]
      <4>1. /\ p + 1 \in 1..((i + 1) + (Len(s) - k))
            /\ ~(p + 1 <= i + 1)
            /\ (p + 1) + (k - (i + 1)) = p + (k - i)
        BY <1>1, <2>2
      <4> QED
        BY <1>2, <4>1
    <3>3. v[p] = s[p + (k - i)]
      BY <1>1, <1>3, <2>2
    <3> QED
      BY <3>1, <3>2, <3>3
  <2> QED
    BY <1>1, <2>1, <2>2
<1>8. u = v
  BY <1>3, <1>5, <1>6, <1>7, SeqEqual
<1> QED
  BY <1>4, <1>8 DEF t, v

LEMMA EraseRightOf ==
  ASSUME NEW S, NEW s \in Seq(S), NEW i \in 0..Len(s), NEW k \in i..Len(s), k < Len(s)
  PROVE  Erase(Cut(s, i, k), i) = Cut(s, i, k + 1)
<1> DEFINE t == Cut(s, i, k)  u == Cut(t, i, i + 1)  v == Cut(s, i, k + 1)
<1>1. Len(s) \in Nat /\ i \in Nat /\ k \in Nat /\ i <= k /\ k < Len(s)
  BY LenProperties
<1>2. /\ t \in Seq(S)
      /\ Len(t) = i + (Len(s) - k)
      /\ \A p \in 1..(i + (Len(s) - k)) : t[p] = s[IF p <= i THEN p ELSE p + (k - i)]
  BY CutOf
<1>3. /\ v \in Seq(S)
      /\ Len(v) = i + (Len(s) - (k + 1))
      /\ \A p \in 1..(i + (Len(s) - (k + 1))) :
           v[p] = s[IF p <= i THEN p ELSE p + ((k + 1) - i)]
  <2>1. k + 1 \in i..Len(s)
    BY <1>1
  <2> QED
    BY <2>1, CutOf
<1>4. Erase(t, i) = u
  <2>1. i \in 0..Len(t) - 1
    BY <1>1, <1>2
  <2> QED
    BY <1>2, <2>1, EraseOne
<1> HIDE DEF t, v
<1>5. /\ u \in Seq(S)
      /\ Len(u) = i + (Len(t) - (i + 1))
      /\ \A p \in 1..(i + (Len(t) - (i + 1))) :
           u[p] = t[IF p <= i THEN p ELSE p + ((i + 1) - i)]
  <2>1. i \in 0..Len(t) /\ i + 1 \in i..Len(t)
    BY <1>1, <1>2
  <2>2. t \in Seq(S)
    BY <1>2
  <2> QED
    BY <2>1, <2>2, CutOf
<1> HIDE DEF u
<1>6. i + (Len(t) - (i + 1)) = i + (Len(s) - (k + 1))
  BY <1>1, <1>2
<1>7. ASSUME NEW p \in 1..(i + (Len(s) - (k + 1)))
      PROVE  u[p] = v[p]
  <2>1. CASE p <= i
    <3>1. u[p] = t[p]
      BY <1>5, <1>6, <2>1
    <3>2. t[p] = s[p]
      <4>1. p \in 1..(i + (Len(s) - k))
        BY <1>1, <2>1
      <4> QED
        BY <1>2, <2>1, <4>1
    <3> QED
      BY <1>3, <2>1, <3>1, <3>2
  <2>2. CASE p > i
    <3>1. u[p] = t[p + 1]
      <4>1. ~(p <= i) /\ p + ((i + 1) - i) = p + 1
        BY <1>1, <2>2
      <4> QED
        BY <1>5, <1>6, <4>1
    <3>2. t[p + 1] = s[p + ((k + 1) - i)]
      <4>1. /\ p + 1 \in 1..(i + (Len(s) - k))
            /\ ~(p + 1 <= i)
            /\ (p + 1) + (k - i) = p + ((k + 1) - i)
        BY <1>1, <2>2
      <4> QED
        BY <1>2, <4>1
    <3>3. v[p] = s[p + ((k + 1) - i)]
      BY <1>1, <1>3, <2>2
    <3> QED
      BY <3>1, <3>2, <3>3
  <2> QED
    BY <1>1, <2>1, <2>2
<1>8. u = v
  BY <1>3, <1>5, <1>6, <1>7, SeqEqual
<1> QED
  BY <1>4, <1>8 DEF t, v

\* The halves of a sequence, and of one with elements missing.
LEMMA Halves ==
  ASSUME NEW S, NEW s \in Seq(S), NEW c \in 0..Len(s)
  PROVE  /\ SubSeq(s, 1, c) \in Seq(S) /\ Len(SubSeq(s, 1, c)) = c
         /\ \A p \in 1..c : SubSeq(s, 1, c)[p] = s[p]
         /\ SubSeq(s, c + 1, Len(s)) \in Seq(S)
         /\ Len(SubSeq(s, c + 1, Len(s))) = Len(s) - c
         /\ \A p \in 1..Len(s) - c : SubSeq(s, c + 1, Len(s))[p] = s[c + p]
         /\ SubSeq(s, 1, c) \o SubSeq(s, c + 1, Len(s)) = s
<1> DEFINE l == SubSeq(s, 1, c)  r == SubSeq(s, c + 1, Len(s))
<1>1. Len(s) \in Nat /\ c \in Nat /\ c <= Len(s)
  BY LenProperties
<1>2. l \in Seq(S) /\ Len(l) = c - 1 + 1 /\ \A p \in 1..c - 1 + 1 : l[p] = s[1 + p - 1]
  <2>1. 1 \in 1..Len(s) + 1 /\ c \in 1 - 1..Len(s)
    BY <1>1
  <2> QED
    BY <2>1, Slice
<1>3. /\ r \in Seq(S) /\ Len(r) = Len(s) - (c + 1) + 1
      /\ \A p \in 1..Len(s) - (c + 1) + 1 : r[p] = s[(c + 1) + p - 1]
  <2>1. c + 1 \in 1..Len(s) + 1 /\ Len(s) \in (c + 1) - 1..Len(s)
    BY <1>1
  <2> QED
    BY <2>1, Slice
<1>4. l \o r = s
  BY CutNothing DEF Cut
<1> HIDE DEF l, r
<1>5. c - 1 + 1 = c /\ Len(s) - (c + 1) + 1 = Len(s) - c
  BY <1>1
<1>6. \A p \in 1..c : l[p] = s[p]
  BY <1>1, <1>2
<1>7. ASSUME NEW p \in 1..Len(s) - c
      PROVE  r[p] = s[c + p]
  <2>1. (c + 1) + p - 1 = c + p
    BY <1>1
  <2> QED
    BY <1>3, <1>5, <2>1
<1>8. /\ l \in Seq(S) /\ Len(l) = c
      /\ \A p \in 1..c : l[p] = s[p]
      /\ r \in Seq(S)
      /\ Len(r) = Len(s) - c
      /\ \A p \in 1..Len(s) - c : r[p] = s[c + p]
      /\ l \o r = s
  BY <1>2, <1>3, <1>4, <1>5, <1>6, <1>7
<1> QED
  BY <1>8 DEF l, r

LEMMA CutHalves ==
  ASSUME NEW S, NEW s \in Seq(S), NEW i \in 0..Len(s), NEW k \in i..Len(s), NEW c \in 0..i
  PROVE  /\ c \in 0..Len(Cut(s, i, k))
         /\ SubSeq(Cut(s, i, k), 1, c) = SubSeq(s, 1, c)
         /\ SubSeq(Cut(s, i, k), c + 1, Len(Cut(s, i, k)))
              = SubSeq(s, c + 1, i) \o SubSeq(s, k + 1, Len(s))
<1> DEFINE t == Cut(s, i, k)
           l == SubSeq(t, 1, c)  r == SubSeq(t, c + 1, Len(t))
           x == SubSeq(s, 1, c)  m == SubSeq(s, c + 1, i)  e == SubSeq(s, k + 1, Len(s))
<1>1. /\ Len(s) \in Nat /\ i \in Nat /\ k \in Nat /\ c \in Nat
      /\ c <= i /\ i <= k /\ k <= Len(s)
  BY LenProperties
<1>2. /\ t \in Seq(S)
      /\ Len(t) = i + (Len(s) - k)
      /\ \A p \in 1..(i + (Len(s) - k)) : t[p] = s[IF p <= i THEN p ELSE p + (k - i)]
  BY CutOf
<1>3. c \in 0..Len(t)
  BY <1>1, <1>2
<1> HIDE DEF t
<1>4. /\ l \in Seq(S) /\ Len(l) = c
      /\ \A p \in 1..c : l[p] = t[p]
      /\ r \in Seq(S)
      /\ Len(r) = Len(t) - c
      /\ \A p \in 1..Len(t) - c : r[p] = t[c + p]
  BY <1>2, <1>3, Halves
<1>5. x \in Seq(S) /\ Len(x) = c /\ \A p \in 1..c : x[p] = s[p]
  <2>1. c \in 0..Len(s)
    BY <1>1
  <2> QED
    BY <2>1, Halves
<1>6. e \in Seq(S) /\ Len(e) = Len(s) - k /\ \A p \in 1..Len(s) - k : e[p] = s[k + p]
  <2>1. k \in 0..Len(s)
    BY <1>1
  <2> QED
    BY <2>1, Halves
<1>7. m \in Seq(S) /\ Len(m) = i - c /\ \A p \in 1..i - c : m[p] = s[c + p]
  <2>1. /\ m \in Seq(S) /\ Len(m) = i - (c + 1) + 1
        /\ \A p \in 1..i - (c + 1) + 1 : m[p] = s[(c + 1) + p - 1]
    <3>1. c + 1 \in 1..Len(s) + 1 /\ i \in (c + 1) - 1..Len(s)
      BY <1>1
    <3> QED
      BY <3>1, Slice
  <2> HIDE DEF m
  <2>2. i - (c + 1) + 1 = i - c
    BY <1>1
  <2>3. ASSUME NEW p \in 1..i - c
        PROVE  m[p] = s[c + p]
    <3>1. (c + 1) + p - 1 = c + p
      BY <1>1
    <3> QED
      BY <2>1, <2>2, <3>1
  <2> QED
    BY <2>1, <2>2, <2>3
<1> HIDE DEF l, r, x, m, e
<1>8. l = x
  <2>1. ASSUME NEW p \in 1..c
        PROVE  l[p] = x[p]
    <3>1. p \in 1..(i + (Len(s) - k)) /\ p <= i
      BY <1>1
    <3>2. t[p] = s[p]
      BY <1>2, <3>1
    <3> QED
      BY <1>4, <1>5, <3>2
  <2> QED
    BY <1>4, <1>5, <2>1, SeqEqual
<1>9. r = m \o e
  <2>1. /\ m \o e \in Seq(S)
        /\ Len(m \o e) = Len(m) + Len(e)
        /\ \A p \in 1..Len(m) + Len(e) : (m \o e)[p] = IF p <= Len(m) THEN m[p] ELSE e[p - Len(m)]
    BY <1>6, <1>7, ConcatProperties
  <2>2. Len(t) - c = Len(m) + Len(e) /\ Len(m) + Len(e) = (i - c) + (Len(s) - k)
    BY <1>1, <1>2, <1>6, <1>7
  <2>3. ASSUME NEW p \in 1..(i - c) + (Len(s) - k)
        PROVE  r[p] = (m \o e)[p]
    <3>1. r[p] = t[c + p] /\ c + p \in 1..(i + (Len(s) - k))
      BY <1>1, <1>4, <2>2
    <3>2. CASE p <= i - c
      <4>1. t[c + p] = s[c + p]
        <5>1. c + p <= i
          BY <1>1, <3>1, <3>2
        <5> QED
          BY <1>2, <3>1, <5>1
      <4>2. (m \o e)[p] = m[p]
        BY <1>7, <2>1, <2>2, <3>2
      <4>3. p \in 1..i - c
        BY <1>1, <3>2
      <4>4. m[p] = s[c + p]
        BY <1>7, <4>3
      <4> QED
        BY <3>1, <4>1, <4>2, <4>4
    <3>3. CASE ~(p <= i - c)
      <4>1. p - (i - c) \in 1..Len(s) - k /\ k + (p - (i - c)) = (c + p) + (k - i) /\ ~(c + p <= i)
        BY <1>1, <3>3
      <4>2. t[c + p] = s[(c + p) + (k - i)]
        BY <1>2, <3>1, <4>1
      <4>3. (m \o e)[p] = e[p - (i - c)]
        <5>1. ~(p <= Len(m)) /\ p - Len(m) = p - (i - c)
          BY <1>1, <1>7, <3>3
        <5> QED
          BY <2>1, <2>2, <5>1
      <4> QED
        BY <1>6, <3>1, <4>1, <4>2, <4>3
    <3> QED
      BY <3>2, <3>3
  <2> QED
    BY <1>4, <2>1, <2>2, <2>3, SeqEqual
<1> QED
  BY <1>3, <1>8, <1>9 DEF t, l, r, x, m, e

-----------------------------------------------------------------------------
(* The loops over positions.  Each is shown to have the value it is meant   *)
(* to compute: the function that computes it exists, and by induction it    *)
(* has that value everywhere.                                               *)

EditorTypes ==
  /\ command \in Seq(Chars) /\ cursor \in 0..Size
  /\ history \in Seq(Seq(Chars)) /\ index \in 0..Len(history)
  /\ saved \in Seq(Chars)

LEMMA SizeNat ==
  ASSUME EditorTypes
  PROVE  Size = Len(command) /\ Size \in Nat /\ cursor \in Nat /\ cursor <= Size
  BY LenProperties DEF EditorTypes, Size

\* Behind the character under the cursor, if there is one.
Beyond == IF cursor < Size THEN cursor + 1 ELSE Size

\* Erasing down to i leaves what is before i and behind the character under the
\* cursor.
LEMMA ErasedToOf ==
  ASSUME EditorTypes, NEW i \in 0..cursor
  PROVE  ErasedTo(i) = Cut(command, i, Beyond)
<1> DEFINE Stages(f) == [j \in i..cursor |->
                         Erase(IF j = cursor THEN command ELSE f[j + 1], j)]
           f0 == [j \in i..cursor |-> Cut(command, j, Beyond)]
<1>1. /\ Size = Len(command) /\ Size \in Nat /\ cursor \in Nat /\ cursor <= Size
      /\ i \in Nat /\ i <= cursor /\ command \in Seq(Chars)
  BY SizeNat DEF EditorTypes
<1>2. Erase(command, cursor) = Cut(command, cursor, Beyond)
  <2>1. CASE cursor < Size
    <3>1. cursor \in 0..Len(command) - 1
      BY <1>1, <2>1
    <3> QED
      BY <1>1, <2>1, <3>1, EraseOne DEF Beyond
  <2>2. CASE ~(cursor < Size)
    <3>1. cursor = Size /\ cursor \in 0..Len(command)
      BY <1>1, <2>2
    <3>2. Erase(command, cursor) = command
      BY <1>1, <2>2 DEF Erase
    <3> QED
      BY <1>1, <2>2, <3>1, <3>2, CutNothing DEF Beyond
  <2> QED
    BY <2>1, <2>2
<1>3. ASSUME NEW j \in i..cursor, j # cursor
      PROVE  Erase(Cut(command, j + 1, Beyond), j) = Cut(command, j, Beyond)
  <2>1. j \in 0..Len(command) /\ Beyond \in (j + 1)..Len(command)
    BY <1>1, <1>3 DEF Beyond
  <2> QED
    BY <1>1, <2>1, EraseLeftOf
<1>4. f0 = Stages(f0)
  <2>1. ASSUME NEW j \in i..cursor
        PROVE  f0[j] = Erase(IF j = cursor THEN command ELSE f0[j + 1], j)
    <3>1. CASE j = cursor
      BY <1>2, <3>1
    <3>2. CASE j # cursor
      <4>1. j + 1 \in i..cursor
        BY <1>1, <3>2
      <4> QED
        BY <1>3, <3>2, <4>1
    <3> QED
      BY <3>1, <3>2
  <2> QED
    BY <2>1
<1> DEFINE text == CHOOSE f : f = Stages(f)
<1>5. text = Stages(text)
  <2> HIDE DEF f0, Stages
  <2> QED
    BY <1>4
<1>6. ErasedTo(i) = text[i]
  BY DEF ErasedTo
<1> HIDE DEF text
<1>7. \A j \in i..cursor : text[j] = Erase(IF j = cursor THEN command ELSE text[j + 1], j)
  BY <1>5
<1> DEFINE T == {n \in Nat : n <= cursor - i => text[cursor - n] = Cut(command, cursor - n, Beyond)}
<1>8. T = Nat
  <2>1. 0 \in T
    <3>1. cursor - 0 = cursor /\ cursor \in i..cursor
      BY <1>1
    <3> QED
      BY <1>2, <1>7, <3>1
  <2>2. ASSUME NEW n \in T
        PROVE  n + 1 \in T
    <3> SUFFICES ASSUME n + 1 <= cursor - i
                 PROVE  text[cursor - (n + 1)] = Cut(command, cursor - (n + 1), Beyond)
      OBVIOUS
    <3> DEFINE j == cursor - (n + 1)
    <3>1. j \in i..cursor /\ j # cursor /\ j + 1 = cursor - n /\ n <= cursor - i
      BY <1>1
    <3>2. text[j + 1] = Cut(command, j + 1, Beyond)
      BY <3>1
    <3>3. text[j] = Erase(text[j + 1], j)
      BY <1>7, <3>1
    <3> QED
      BY <1>3, <3>1, <3>2, <3>3
  <2> QED
    <3>1. T \in SUBSET Nat
      OBVIOUS
    <3> HIDE DEF T
    <3> QED
      BY <2>1, <2>2, <3>1, Induct
<1>9. text[cursor - (cursor - i)] = Cut(command, cursor - (cursor - i), Beyond)
  <2>1. cursor - i \in Nat /\ cursor - i <= cursor - i
    BY <1>1
  <2>2. cursor - i \in T
    <3> HIDE DEF T
    <3> QED
      BY <1>8, <2>1
  <2> QED
    BY <2>1, <2>2
<1>10. cursor - (cursor - i) = i
  BY <1>1
<1> QED
  BY <1>6, <1>9, <1>10

\* The place behind the last space up to n, 0 when there is none.
Spaces(n) == {k \in 0..n : k = 0 \/ command[k] = Space}

LEMMA LastSpaceOf ==
  ASSUME NEW n \in Nat
  PROVE  /\ Max(Spaces(n)) \in 0..n
         /\ Max(Spaces(n)) = 0 \/ command[Max(Spaces(n))] = Space
         /\ \A k \in 1..n : command[k] = Space => k <= Max(Spaces(n))
<1>1. Spaces(n) \in SUBSET (0..n) /\ Spaces(n) # {}
  BY DEF Spaces
<1>2. Max(Spaces(n)) \in Spaces(n) /\ \A y \in Spaces(n) : Max(Spaces(n)) >= y
  BY <1>1, MaxOf
<1>3. ASSUME NEW k \in 1..n, command[k] = Space
      PROVE  k <= Max(Spaces(n))
  <2>1. k \in Spaces(n)
    BY <1>3 DEF Spaces
  <2>2. Max(Spaces(n)) \in 0..n
    BY <1>1, <1>2
  <2>3. Max(Spaces(n)) >= k
    BY <1>2, <2>1
  <2> QED
    BY <2>2, <2>3
<1> QED
  BY <1>2, <1>3 DEF Spaces

\* The character the loop looks at is the one of the text before it began.
LEMMA CharLeft ==
  ASSUME EditorTypes, NEW i \in 0..cursor - 1
  PROVE  Char(ErasedTo(i + 1), i) = command[i + 1]
<1>1. /\ Size = Len(command) /\ Size \in Nat /\ cursor \in Nat /\ cursor <= Size
      /\ i \in Nat /\ i < cursor /\ command \in Seq(Chars)
  BY SizeNat DEF EditorTypes
<1>2. ErasedTo(i + 1) = Cut(command, i + 1, Beyond)
  <2>1. i + 1 \in 0..cursor
    BY <1>1
  <2> QED
    BY <2>1, ErasedToOf
<1>3. i + 1 \in 0..Len(command) /\ Beyond \in (i + 1)..Len(command)
  BY <1>1 DEF Beyond
<1>4. /\ Len(Cut(command, i + 1, Beyond)) = (i + 1) + (Len(command) - Beyond)
      /\ \A p \in 1..((i + 1) + (Len(command) - Beyond)) :
           Cut(command, i + 1, Beyond)[p]
             = command[IF p <= i + 1 THEN p ELSE p + (Beyond - (i + 1))]
  <2> DEFINE a == i + 1  b == Beyond
  <2>1. a \in 0..Len(command) /\ b \in a..Len(command) /\ command \in Seq(Chars)
    BY <1>1, <1>3
  <2> HIDE DEF a, b
  <2>2. /\ Len(Cut(command, a, b)) = a + (Len(command) - b)
        /\ \A p \in 1..(a + (Len(command) - b)) :
             Cut(command, a, b)[p] = command[IF p <= a THEN p ELSE p + (b - a)]
    BY <2>1, CutOf
  <2> QED
    BY <2>2 DEF a, b
<1>5. i + 1 \in 1..((i + 1) + (Len(command) - Beyond))
  BY <1>1, <1>3
<1>6. Cut(command, i + 1, Beyond)[i + 1] = command[i + 1]
  BY <1>1, <1>4, <1>5
<1>7. i \in 0..Len(Cut(command, i + 1, Beyond)) - 1
  BY <1>1, <1>3, <1>4
<1> QED
  BY <1>2, <1>6, <1>7 DEF Char

LEMMA PopWordStopOf ==
  ASSUME EditorTypes, cursor > 0
  PROVE  PopWordStop = Max(Spaces(cursor)) - 1
<1> DEFINE Stops(f) == [i \in -1..cursor - 1 |->
                         IF i >= 0 /\ Char(ErasedTo(i + 1), i) # Space THEN f[i - 1] ELSE i]
           f0 == [i \in -1..cursor - 1 |-> Max(Spaces(i + 1)) - 1]
<1>1. /\ cursor \in Nat /\ cursor - 1 \in -1..cursor - 1 /\ (cursor - 1) + 1 = cursor
  BY SizeNat
<1>2. ASSUME NEW i \in -1..cursor - 1, i = -1
      PROVE  Max(Spaces(i + 1)) - 1 = i
  <2>1. i + 1 = 0 /\ 0 \in Nat
    BY <1>2
  <2>2. Max(Spaces(0)) \in 0..0
    BY LastSpaceOf
  <2> QED
    BY <1>2, <2>1, <2>2
<1>3. ASSUME NEW i \in -1..cursor - 1, i >= 0, command[i + 1] = Space
      PROVE  Max(Spaces(i + 1)) - 1 = i
  <2>1. i + 1 \in Nat /\ i + 1 \in 1..i + 1
    BY <1>1, <1>3
  <2>2. Max(Spaces(i + 1)) \in 0..i + 1 /\ i + 1 <= Max(Spaces(i + 1))
    BY <1>3, <2>1, LastSpaceOf
  <2> QED
    BY <2>1, <2>2
<1>4. ASSUME NEW i \in -1..cursor - 1, i >= 0, command[i + 1] # Space
      PROVE  Max(Spaces(i + 1)) = Max(Spaces((i - 1) + 1))
  <2>1. Spaces(i + 1) = Spaces((i - 1) + 1)
    <3>1. i \in Nat /\ (i - 1) + 1 = i
      BY <1>1, <1>4
    <3>2. ASSUME NEW k \in 0..i + 1
          PROVE  (k = 0 \/ command[k] = Space) => k \in 0..i
      <4>1. CASE k = i + 1
        BY <1>4, <3>1, <4>1
      <4>2. CASE k # i + 1
        BY <3>1, <4>2
      <4> QED
        BY <4>1, <4>2
    <3>3. \A k \in 0..i : k \in 0..i + 1
      BY <3>1
    <3> QED
      BY <3>1, <3>2, <3>3 DEF Spaces
  <2> QED
    BY <2>1
<1>5. ASSUME NEW i \in -1..cursor - 1, i >= 0
      PROVE  Char(ErasedTo(i + 1), i) = command[i + 1]
  <2>1. i \in 0..cursor - 1
    BY <1>1, <1>5
  <2> QED
    BY <2>1, CharLeft
<1>6. f0 = Stops(f0)
  <2>1. ASSUME NEW i \in -1..cursor - 1
        PROVE  f0[i] = IF i >= 0 /\ Char(ErasedTo(i + 1), i) # Space THEN f0[i - 1] ELSE i
    <3>1. CASE ~(i >= 0)
      <4>1. i = -1
        BY <1>1, <3>1
      <4> QED
        BY <1>2, <3>1, <4>1
    <3>2. CASE i >= 0 /\ command[i + 1] = Space
      BY <1>3, <1>5, <3>2
    <3>3. CASE i >= 0 /\ command[i + 1] # Space
      <4>1. i - 1 \in -1..cursor - 1
        BY <1>1, <3>3
      <4>2. f0[i - 1] = Max(Spaces((i - 1) + 1)) - 1
        BY <4>1
      <4> QED
        BY <1>4, <1>5, <3>3, <4>2
    <3> QED
      BY <3>1, <3>2, <3>3
  <2> QED
    BY <2>1
<1> DEFINE stop == CHOOSE f : f = Stops(f)
<1>7. stop = Stops(stop)
  <2> HIDE DEF f0, Stops
  <2> QED
    BY <1>6
<1>8. PopWordStop = stop[cursor - 1]
  BY DEF PopWordStop
<1> HIDE DEF stop
<1>9. \A i \in -1..cursor - 1 :
        stop[i] = IF i >= 0 /\ Char(ErasedTo(i + 1), i) # Space THEN stop[i - 1] ELSE i
  BY <1>7
<1> DEFINE T == {n \in Nat : n <= cursor => stop[n - 1] = Max(Spaces(n)) - 1}
<1>10. T = Nat
  <2>1. 0 \in T
    <3>1. 0 - 1 \in -1..cursor - 1 /\ 0 - 1 = -1 /\ ~(-1 >= 0) /\ -1 + 1 = 0
      BY <1>1
    <3>2. stop[-1] = -1
      BY <1>9, <3>1
    <3>3. Max(Spaces(-1 + 1)) - 1 = -1
      BY <1>2, <3>1
    <3> QED
      BY <3>1, <3>2, <3>3
  <2>2. ASSUME NEW n \in T
        PROVE  n + 1 \in T
    <3> SUFFICES ASSUME n + 1 <= cursor
                 PROVE  stop[(n + 1) - 1] = Max(Spaces(n + 1)) - 1
      OBVIOUS
    <3>1. n \in Nat /\ n \in -1..cursor - 1 /\ n >= 0 /\ (n + 1) - 1 = n /\ n <= cursor
      BY <1>1
    <3>2. stop[n] = IF command[n + 1] # Space THEN stop[n - 1] ELSE n
      BY <1>5, <1>9, <3>1
    <3>3. CASE command[n + 1] = Space
      BY <1>3, <3>1, <3>2, <3>3
    <3>4. CASE command[n + 1] # Space
      <4>1. stop[n - 1] = Max(Spaces(n)) - 1
        BY <3>1
      <4>2. Max(Spaces(n + 1)) = Max(Spaces((n - 1) + 1)) /\ (n - 1) + 1 = n
        BY <1>4, <3>1, <3>4
      <4> QED
        BY <3>1, <3>2, <3>4, <4>1, <4>2
    <3> QED
      BY <3>3, <3>4
  <2> QED
    <3>1. T \in SUBSET Nat
      OBVIOUS
    <3> HIDE DEF T
    <3> QED
      BY <2>1, <2>2, <3>1, Induct
<1>11. cursor \in T
  BY <1>1, <1>10
<1> QED
  BY <1>1, <1>8, <1>11

\* Erasing n characters under the cursor.
LEMMA ErasedRightOf ==
  ASSUME EditorTypes, NEW n \in 0..Size - cursor
  PROVE  ErasedRight(n) = Cut(command, cursor, cursor + n)
<1> DEFINE Stages(f) == [k \in 0..n |-> IF k = 0 THEN command ELSE Erase(f[k - 1], cursor)]
           f0 == [k \in 0..n |-> Cut(command, cursor, cursor + k)]
<1>1. /\ Size = Len(command) /\ Size \in Nat /\ cursor \in Nat /\ cursor <= Size
      /\ n \in Nat /\ cursor + n <= Size /\ command \in Seq(Chars)
      /\ cursor \in 0..Len(command)
  BY SizeNat DEF EditorTypes
<1>2. Cut(command, cursor, cursor + 0) = command
  BY <1>1, CutNothing
<1>3. ASSUME NEW k \in 0..n, k # 0
      PROVE  Erase(Cut(command, cursor, cursor + (k - 1)), cursor) = Cut(command, cursor, cursor + k)
  <2>1. /\ cursor + (k - 1) \in cursor..Len(command) /\ cursor + (k - 1) < Len(command)
        /\ (cursor + (k - 1)) + 1 = cursor + k
    BY <1>1, <1>3
  <2>2. Erase(Cut(command, cursor, cursor + (k - 1)), cursor)
          = Cut(command, cursor, (cursor + (k - 1)) + 1)
    BY <1>1, <2>1, EraseRightOf
  <2> QED
    BY <2>1, <2>2
<1>4. f0 = Stages(f0)
  <2>1. ASSUME NEW k \in 0..n
        PROVE  f0[k] = IF k = 0 THEN command ELSE Erase(f0[k - 1], cursor)
    <3>1. CASE k = 0
      BY <1>2, <3>1
    <3>2. CASE k # 0
      <4>1. k - 1 \in 0..n
        BY <1>1, <3>2
      <4> QED
        BY <1>3, <3>2, <4>1
    <3> QED
      BY <3>1, <3>2
  <2> QED
    BY <2>1
<1> DEFINE text == CHOOSE f : f = Stages(f)
<1>5. text = Stages(text)
  <2> HIDE DEF f0, Stages
  <2> QED
    BY <1>4
<1>6. ErasedRight(n) = text[n]
  BY DEF ErasedRight
<1> HIDE DEF text
<1>7. \A k \in 0..n : text[k] = IF k = 0 THEN command ELSE Erase(text[k - 1], cursor)
  BY <1>5
<1> DEFINE T == {k \in Nat : k <= n => text[k] = Cut(command, cursor, cursor + k)}
<1>8. T = Nat
  <2>1. 0 \in T
    <3>1. 0 \in 0..n
      BY <1>1
    <3> QED
      BY <1>2, <1>7, <3>1
  <2>2. ASSUME NEW k \in T
        PROVE  k + 1 \in T
    <3> SUFFICES ASSUME k + 1 <= n
                 PROVE  text[k + 1] = Cut(command, cursor, cursor + (k + 1))
      OBVIOUS
    <3>1. k + 1 \in 0..n /\ k + 1 # 0 /\ (k + 1) - 1 = k /\ k <= n
      BY <1>1
    <3>2. text[k] = Cut(command, cursor, cursor + k)
      BY <3>1
    <3>3. text[k + 1] = Erase(text[k], cursor)
      BY <1>7, <3>1
    <3> QED
      BY <1>3, <3>1, <3>2, <3>3
  <2> QED
    <3>1. T \in SUBSET Nat
      OBVIOUS
    <3> HIDE DEF T
    <3> QED
      BY <2>1, <2>2, <3>1, Induct
<1>9. n \in T
  BY <1>1, <1>8
<1> QED
  BY <1>1, <1>6, <1>9

-----------------------------------------------------------------------------
(* What is written to the history file: lines are split and joined again. *)

LEMMA LinesType ==
  ASSUME NEW text \in Seq(Chars)
  PROVE  Lines(text) \in Seq(Seq(Chars))
<1> DEFINE n == Len(text)
           D == Seq(Seq(Chars)) \ {<<>>}
           one(v, i) == IF text[i] = Newline THEN Append(v, <<>>)
                        ELSE [v EXCEPT ![Len(v)] = Append(@, text[i])]
           step == [z \in D \X (1..n) |-> one(z[1], z[2])]
           Splits(f) == [i \in 0..n |-> IF i = 0 THEN <<<<>>>> ELSE one(f[i - 1], i)]
<1>1. n \in Nat /\ \A i \in 1..n : text[i] \in Chars
  BY LenProperties, ElementOfSeq
<1>2. <<<<>>>> \in D
  OBVIOUS
<1>3. ASSUME NEW v \in D, NEW i \in 1..n
      PROVE  one(v, i) \in D
  <2>1. v \in Seq(Seq(Chars)) /\ Len(v) \in Nat /\ Len(v) \in 1..Len(v)
    <3>1. v # <<>> /\ v \in Seq(Seq(Chars))
      OBVIOUS
    <3>2. Len(v) \in Nat \ {0}
      BY <3>1, EmptySeq
    <3> QED
      BY <3>1, <3>2
  <2>2. CASE text[i] = Newline
    <3>1. <<>> \in Seq(Chars)
      OBVIOUS
    <3> DEFINE w == Append(v, <<>>)
    <3>2. w \in Seq(Seq(Chars)) /\ Len(w) = Len(v) + 1
      BY <2>1, <3>1, AppendProperties
    <3>3. w # <<>>
      <4> HIDE DEF w
      <4> QED
        BY <2>1, <3>2, EmptySeq
    <3> QED
      BY <2>2, <3>2, <3>3
  <2>3. CASE text[i] # Newline
    <3>1. v[Len(v)] \in Seq(Chars)
      BY <2>1, ElementOfSeq
    <3>2. Append(v[Len(v)], text[i]) \in Seq(Chars)
      BY <1>1, <3>1, AppendProperties
    <3> DEFINE w == [v EXCEPT ![Len(v)] = Append(v[Len(v)], text[i])]
    <3>3. w \in Seq(Seq(Chars)) /\ Len(w) = Len(v)
      BY <2>1, <3>2, ExceptSeq
    <3>4. w # <<>>
      BY <2>1, <3>3, EmptySeq
    <3> QED
      BY <2>3, <3>3, <3>4
  <2> QED
    BY <2>2, <2>3
<1>4. ASSUME NEW f,
             f = [i \in 0..n |-> f[i]],
             f[0] = <<<<>>>>,
             \A i \in 1..n : f[i] = step[<<f[i - 1], i>>]
      PROVE  f = Splits(f)
  <2> DEFINE T == {i \in Nat : i <= n => f[i] \in D}
  <2>1. \A i \in 0..n : f[i] = IF i = 0 THEN <<<<>>>> ELSE step[<<f[i - 1], i>>]
    <3>1. \A i \in 0..n : i # 0 => i \in 1..n
      BY <1>1
    <3> HIDE DEF step
    <3> QED
      BY <1>4, <3>1
  <2>2. ASSUME NEW i \in 1..n, f[i - 1] \in D
        PROVE  f[i] = one(f[i - 1], i)
    <3>1. <<f[i - 1], i>> \in D \X (1..n)
      BY <2>2
    <3>2. step[<<f[i - 1], i>>] = one(<<f[i - 1], i>>[1], <<f[i - 1], i>>[2])
      <4> HIDE DEF one, D
      <4> QED
        BY <3>1
    <3>3. i \in 0..n /\ i # 0
      BY <1>1
    <3> HIDE DEF one, step, D
    <3> QED
      BY <2>1, <3>2, <3>3
  <2>3. T = Nat
    <3>1. 0 \in T
      <4>1. 0 \in 0..n
        BY <1>1
      <4> QED
        BY <1>2, <2>1, <4>1
    <3>2. ASSUME NEW i \in T
          PROVE  i + 1 \in T
      <4> SUFFICES ASSUME i + 1 <= n
                   PROVE  f[i + 1] \in D
        OBVIOUS
      <4>1. i + 1 \in 1..n /\ (i + 1) - 1 = i /\ f[i] \in D
        BY <1>1
      <4> HIDE DEF one, D, step
      <4> QED
        BY <1>3, <2>2, <4>1
    <3> QED
      <4>1. T \in SUBSET Nat
        OBVIOUS
      <4> HIDE DEF T
      <4> QED
        BY <3>1, <3>2, <4>1, Induct
  <2>4. ASSUME NEW i \in 1..n
        PROVE  f[i - 1] \in D
    <3>1. i - 1 \in Nat /\ i - 1 <= n
      BY <1>1
    <3>2. i - 1 \in T
      <4> HIDE DEF T
      <4> QED
        BY <2>3, <3>1
    <3> HIDE DEF D
    <3> QED
      BY <3>1, <3>2
  <2>5. \A i \in 0..n : f[i] = IF i = 0 THEN <<<<>>>> ELSE one(f[i - 1], i)
    <3> HIDE DEF one, D, step
    <3> TAKE i \in 0..n
    <3>1. CASE i = 0
      BY <2>1, <3>1
    <3>2. CASE i # 0
      <4>1. i \in 1..n
        BY <1>1, <3>2
      <4> QED
        BY <2>2, <2>4, <3>2, <4>1
    <3> QED
      BY <3>1, <3>2
  <2>6. f = [i \in 0..n |-> f[i]]
    BY <1>4
  <2> HIDE DEF one, D, step
  <2> QED
    BY <2>5, <2>6
<1>5. \E f : f = Splits(f)
  <2>1. \E f : /\ f = [i \in 0..n |-> f[i]]
               /\ f[0] = <<<<>>>>
               /\ \A i \in 1..n : f[i] = step[<<f[i - 1], i>>]
    <3> HIDE DEF step, n
    <3>1. Recursive(n, <<<<>>>>, step)
      BY <1>1, RecursionExists
    <3> QED
      BY <3>1 DEF Recursive
  <2> HIDE DEF step, Splits
  <2> QED
    BY <1>4, <2>1
<1> DEFINE lines == CHOOSE f : f = Splits(f)
<1>6. lines = Splits(lines)
  <2> HIDE DEF Splits
  <2> QED
    BY <1>5
<1>7. Lines(text) = lines[n]
  BY DEF Lines
<1> HIDE DEF lines
<1>8. \A i \in 0..n : lines[i] = IF i = 0 THEN <<<<>>>> ELSE one(lines[i - 1], i)
  <2> HIDE DEF one
  <2> QED
    BY <1>6
<1> DEFINE T == {i \in Nat : i <= n => lines[i] \in D}
<1>9. T = Nat
  <2>1. 0 \in T
    <3>1. 0 \in 0..n
      BY <1>1
    <3> QED
      BY <1>2, <1>8, <3>1
  <2>2. ASSUME NEW i \in T
        PROVE  i + 1 \in T
    <3> SUFFICES ASSUME i + 1 <= n
                 PROVE  lines[i + 1] \in D
      OBVIOUS
    <3>1. i + 1 \in 1..n /\ i + 1 \in 0..n /\ i + 1 # 0 /\ (i + 1) - 1 = i /\ lines[i] \in D
      BY <1>1
    <3> HIDE DEF one, D
    <3> QED
      BY <1>3, <1>8, <3>1
  <2> QED
    <3>1. T \in SUBSET Nat
      OBVIOUS
    <3> HIDE DEF T
    <3> QED
      BY <2>1, <2>2, <3>1, Induct
<1>10. lines[n] \in D
  <2>1. n \in T
    <3> HIDE DEF T, n
    <3> QED
      BY <1>1, <1>9
  <2> HIDE DEF D
  <2> QED
    BY <1>1, <2>1
<1> QED
  BY <1>7, <1>10

LEMMA FlattenType ==
  ASSUME NEW S, NEW seqs \in Seq(Seq(S))
  PROVE  FlattenSeq(seqs) \in Seq(S)
<1> DEFINE n == Len(seqs)
           Joins(f) == [i \in 1..n |-> IF i = 1 THEN seqs[i] ELSE f[i - 1] \o seqs[i]]
           step == [z \in Seq(S) \X (1..n) |-> z[1] \o seqs[z[2] + 1]]
<1>1. n \in Nat /\ \A i \in 1..n : seqs[i] \in Seq(S)
  BY LenProperties, ElementOfSeq
<1>2. CASE n = 0
  <2>1. seqs = <<>>
    BY <1>2, EmptySeq
  <2>2. FlattenSeq(seqs) = seqs
    BY <1>2 DEF FlattenSeq
  <2> QED
    BY <2>1, <2>2, EmptySeq
<1>3. CASE n # 0
  <2>1. n - 1 \in Nat /\ 1 \in 1..n /\ n \in 1..n
    BY <1>1, <1>3
  <2>2. PICK f : /\ f = [i \in 0..n - 1 |-> f[i]]
                 /\ f[0] = seqs[1]
                 /\ \A i \in 1..n - 1 : f[i] = step[<<f[i - 1], i>>]
    <3> HIDE DEF step, n
    <3>1. Recursive(n - 1, seqs[1], step)
      BY <2>1, RecursionExists
    <3> QED
      BY <3>1 DEF Recursive
  <2>3. /\ f[0] = seqs[1]
        /\ \A i \in 1..n - 1 : f[i] = step[<<f[i - 1], i>>]
    BY <2>2
  <2>4. ASSUME NEW i \in 1..n - 1, f[i - 1] \in Seq(S)
        PROVE  f[i] = f[i - 1] \o seqs[i + 1] /\ f[i] \in Seq(S)
    <3>1. <<f[i - 1], i>> \in Seq(S) \X (1..n)
      BY <1>1, <2>4
    <3>2. step[<<f[i - 1], i>>] = f[i - 1] \o seqs[i + 1]
      BY <3>1
    <3>3. i + 1 \in 1..n
      BY <1>1
    <3>4. f[i] = f[i - 1] \o seqs[i + 1]
      <4> HIDE DEF step
      <4> QED
        BY <2>3, <3>2, <3>3
    <3> QED
      BY <1>1, <2>4, <3>3, <3>4, ConcatProperties
  <2> DEFINE T == {i \in Nat : i <= n - 1 => f[i] \in Seq(S)}
  <2>5. T = Nat
    <3>1. 0 \in T
      <4>1. 0 \in 0..n - 1
        BY <2>1
      <4> QED
        BY <1>1, <2>1, <2>3, <4>1
    <3>2. ASSUME NEW i \in T
          PROVE  i + 1 \in T
      <4> SUFFICES ASSUME i + 1 <= n - 1
                   PROVE  f[i + 1] \in Seq(S)
        OBVIOUS
      <4>1. i + 1 \in 1..n - 1 /\ (i + 1) - 1 = i /\ f[i] \in Seq(S)
        BY <1>1
      <4> QED
        BY <2>4, <4>1
    <3> QED
      <4>1. T \in SUBSET Nat
        OBVIOUS
      <4> HIDE DEF T
      <4> QED
        BY <3>1, <3>2, <4>1, Induct
  <2>6. \A i \in 0..n - 1 : f[i] \in Seq(S)
    <3> TAKE i \in 0..n - 1
    <3>1. i \in Nat /\ i <= n - 1
      BY <1>1
    <3>2. i \in T
      <4> HIDE DEF T
      <4> QED
        BY <2>5, <3>1
    <3> QED
      BY <3>1, <3>2
  <2> DEFINE g == [i \in 1..n |-> f[i - 1]]
  <2>7. g = Joins(g)
    <3>1. ASSUME NEW i \in 1..n
          PROVE  g[i] = IF i = 1 THEN seqs[i] ELSE g[i - 1] \o seqs[i]
      <4>1. CASE i = 1
        <5>1. g[i] = f[0] /\ 0 \in 0..n - 1
          BY <2>1, <4>1
        <5> QED
          BY <2>3, <4>1, <5>1
      <4>2. CASE i # 1
        <5>1. /\ i - 1 \in 1..n - 1 /\ i - 1 \in 1..n /\ (i - 1) + 1 = i
              /\ (i - 1) - 1 \in 0..n - 1
          BY <1>1, <4>2
        <5>2. f[i - 1] = f[(i - 1) - 1] \o seqs[(i - 1) + 1]
          BY <2>4, <2>6, <5>1
        <5>3. g[i] = f[i - 1] /\ g[i - 1] = f[(i - 1) - 1]
          BY <5>1
        <5> QED
          BY <4>2, <5>1, <5>2, <5>3
      <4> QED
        BY <4>1, <4>2
    <3> QED
      BY <3>1
  <2> DEFINE flatten == CHOOSE h : h = Joins(h)
  <2>8. flatten = Joins(flatten)
    <3> HIDE DEF g, Joins
    <3> QED
      BY <2>7
  <2>9. FlattenSeq(seqs) = flatten[n]
    BY <1>1, <1>3 DEF FlattenSeq
  <2> HIDE DEF flatten
  <2>10. \A i \in 1..n : flatten[i] = IF i = 1 THEN seqs[i] ELSE flatten[i - 1] \o seqs[i]
    BY <2>8
  <2> DEFINE U == {i \in Nat : i + 1 <= n => flatten[i + 1] \in Seq(S)}
  <2>11. U = Nat
    <3>1. 0 \in U
      <4>1. 0 + 1 = 1
        OBVIOUS
      <4> QED
        BY <1>1, <2>1, <2>10, <4>1
    <3>2. ASSUME NEW i \in U
          PROVE  i + 1 \in U
      <4> SUFFICES ASSUME (i + 1) + 1 <= n
                   PROVE  flatten[(i + 1) + 1] \in Seq(S)
        OBVIOUS
      <4>1. (i + 1) + 1 \in 1..n /\ (i + 1) + 1 # 1 /\ ((i + 1) + 1) - 1 = i + 1 /\ i + 1 <= n
        BY <1>1
      <4>2. flatten[i + 1] \in Seq(S)
        BY <4>1
      <4>3. flatten[(i + 1) + 1] = flatten[i + 1] \o seqs[(i + 1) + 1]
        BY <2>10, <4>1
      <4> QED
        BY <1>1, <4>1, <4>2, <4>3, ConcatProperties
    <3> QED
      <4>1. U \in SUBSET Nat
        OBVIOUS
      <4> HIDE DEF U
      <4> QED
        BY <3>1, <3>2, <4>1, Induct
  <2>12. n - 1 \in U /\ (n - 1) + 1 = n
    <3> HIDE DEF U
    <3> QED
      BY <1>1, <2>1, <2>11
  <2>13. flatten[(n - 1) + 1] \in Seq(S)
    BY <1>1, <2>12
  <2> QED
    BY <2>9, <2>12, <2>13
<1> QED
  BY <1>2, <1>3

LEMMA SavedLinesType ==
  ASSUME EditorTypes
  PROVE  SavedLines \in Seq(Seq(Chars))
<1> DEFINE l == [i \in DOMAIN history |-> Lines(history[i])]
<1>1. /\ history \in Seq(Seq(Chars)) /\ Len(history) \in Nat
      /\ DOMAIN history = 1..Len(history)
  BY LenProperties DEF EditorTypes
<1>2. \A i \in 1..Len(history) : Lines(history[i]) \in Seq(Seq(Chars))
  BY <1>1, ElementOfSeq, LinesType
<1>3. l \in Seq(Seq(Seq(Chars)))
  <2>1. l = [i \in 1..Len(history) |-> Lines(history[i])]
    BY <1>1
  <2> QED
    BY <1>1, <1>2, <2>1
<1> HIDE DEF l
<1>4. FlattenSeq(l) \in Seq(Seq(Chars))
  BY <1>3, FlattenType
<1> QED
  BY <1>4 DEF SavedLines, l

\* A text without a line end is one line, and a history of such texts is saved as
\* it is.
LEMMA OneLine ==
  ASSUME NEW text \in Seq(Chars), Newline \notin Range(text)
  PROVE  Lines(text) = <<text>>
<1> DEFINE n == Len(text)
           one(v, i) == IF text[i] = Newline THEN Append(v, <<>>)
                        ELSE [v EXCEPT ![Len(v)] = Append(@, text[i])]
           Splits(f) == f = [i \in 0..n |-> IF i = 0 THEN <<<<>>>> ELSE one(f[i - 1], i)]
           part == [i \in 0..n |-> <<SubSeq(text, 1, i)>>]
<1>1. n \in Nat /\ SubSeq(text, 1, 0) = <<>> /\ SubSeq(text, 1, n) = text
  BY LenProperties, SubSeqEmpty, SubSeqFull
<1>2. ASSUME NEW i \in 1..n
      PROVE  one(<<SubSeq(text, 1, i - 1)>>, i) = <<SubSeq(text, 1, i)>>
  <2> DEFINE s == SubSeq(text, 1, i - 1)
  <2>1. i \in DOMAIN text /\ text[i] # Newline
    BY <1>1, LenProperties DEF Range
  <2>2. 1 \in 1..Len(text) /\ i \in 1..Len(text) /\ text[i] \in Chars
    BY <1>1, ElementOfSeq
  <2>3. SubSeq(text, 1, i) = s \o <<text[i]>>
    BY <2>2, SubSeqRecursiveSecond
  <2>4. s \in Seq(Chars)
    <3>1. i - 1 \in 0..Len(text)
      BY <1>1
    <3> QED
      BY <3>1, Halves
  <2> HIDE DEF s
  <2>5. Append(s, text[i]) = s \o <<text[i]>>
    BY <2>2, <2>4, AppendIsConcat
  <2>6. [<<s>> EXCEPT ![1] = Append(s, text[i])] = <<Append(s, text[i])>>
    OBVIOUS
  <2>7. Len(<<s>>) = 1 /\ <<s>>[1] = s
    OBVIOUS
  <2>8. one(<<s>>, i) = [<<s>> EXCEPT ![1] = Append(s, text[i])]
    BY <2>1, <2>7
  <2> QED
    BY <2>3, <2>5, <2>6, <2>8 DEF s
<1>3. Splits(part)
  <2>1. ASSUME NEW i \in 0..n
        PROVE  part[i] = IF i = 0 THEN <<<<>>>> ELSE one(part[i - 1], i)
    <3>1. i # 0 => i \in 1..n /\ i - 1 \in 0..n
      BY <1>1
    <3> HIDE DEF one
    <3> QED
      BY <1>1, <1>2, <3>1
  <2> HIDE DEF one
  <2> QED
    BY <2>1
<1> DEFINE lines == CHOOSE f : Splits(f)
<1>4. Splits(lines)
  <2> HIDE DEF Splits, part
  <2> QED
    BY <1>3
<1>5. Lines(text) = lines[n]
  BY DEF Lines
<1> HIDE DEF lines, one
<1>6. \A i \in 0..n : lines[i] = IF i = 0 THEN <<<<>>>> ELSE one(lines[i - 1], i)
  BY <1>4
<1> DEFINE T == {i \in 0..n : lines[i] = <<SubSeq(text, 1, i)>>}
<1>7. \A i \in 0..n : i \in T
  <2>1. 0 \in T
    <3>1. 0 \in 0..n
      BY <1>1
    <3> QED
      BY <1>1, <1>6, <3>1
  <2>2. ASSUME NEW k \in 0..(n - 1), k \in T
        PROVE  k + 1 \in T
    <3>1. k + 1 \in 0..n /\ k + 1 \in 1..n /\ (k + 1) - 1 = k /\ k + 1 # 0
      BY <1>1
    <3> QED
      BY <1>2, <1>6, <2>2, <3>1
  <2> HIDE DEF T
  <2> QED
    BY <1>1, <2>1, <2>2, InductTo
<1>8. n \in 0..n
  BY <1>1
<1> QED
  BY <1>1, <1>5, <1>7, <1>8

LEMMA FlattenOnes ==
  ASSUME NEW S, NEW h \in Seq(S)
  PROVE  FlattenSeq([i \in DOMAIN h |-> <<h[i]>>]) = h
<1> DEFINE n == Len(h)
           ones == [i \in 1..n |-> <<h[i]>>]
           Joins(f) == f = [i \in 1..n |-> IF i = 1 THEN ones[i] ELSE f[i - 1] \o ones[i]]
           part == [i \in 1..n |-> SubSeq(h, 1, i)]
<1>1. /\ n \in Nat /\ DOMAIN h = 1..n /\ SubSeq(h, 1, n) = h
      /\ Len(ones) = n /\ \A i \in 1..n : ones[i] = <<h[i]>>
  BY LenProperties, SubSeqFull
<1>2. CASE n = 0
  <2>1. h = <<>> /\ ones = <<>>
    BY <1>2, EmptySeq
  <2>2. FlattenSeq(ones) = ones
    BY <1>1, <1>2 DEF FlattenSeq
  <2> QED
    BY <1>1, <2>1, <2>2
<1>3. CASE n # 0
  <2>1. 1 \in 1..n /\ n \in 1..n /\ n - 1 \in Nat
    BY <1>1, <1>3
  <2>2. SubSeq(h, 1, 1) = <<h[1]>>
    <3>1. 1 \in 1..Len(h) /\ 1 - 1 = 0 /\ h[1] \in S
      BY <2>1, ElementOfSeq
    <3>2. SubSeq(h, 1, 1) = SubSeq(h, 1, 0) \o <<h[1]>>
      BY <3>1, SubSeqRecursiveSecond
    <3>3. SubSeq(h, 1, 0) = <<>>
      BY SubSeqEmpty
    <3>4. <<>> \o <<h[1]>> = <<h[1]>>
      BY <3>1, ConcatEmptySeq
    <3> QED
      BY <3>2, <3>3, <3>4
  <2>3. ASSUME NEW i \in 1..n, i # 1
        PROVE  SubSeq(h, 1, i) = SubSeq(h, 1, i - 1) \o ones[i] /\ i - 1 \in 1..n
    <3>1. 1 \in 1..Len(h) /\ i \in 1..Len(h) /\ i - 1 \in 1..n
      BY <1>1, <2>1, <2>3
    <3> QED
      BY <1>1, <3>1, SubSeqRecursiveSecond
  <2> HIDE DEF ones
  <2>4. Joins(part)
    <3>1. ASSUME NEW i \in 1..n
          PROVE  part[i] = IF i = 1 THEN ones[i] ELSE part[i - 1] \o ones[i]
      BY <1>1, <2>2, <2>3
    <3> QED
      BY <3>1
  <2> DEFINE flatten == CHOOSE f : Joins(f)
  <2>5. Joins(flatten)
    <3> HIDE DEF Joins, part
    <3> QED
      BY <2>4
  <2>6. FlattenSeq(ones) = flatten[n]
    BY <1>1, <1>3 DEF FlattenSeq
  <2> HIDE DEF flatten
  <2>7. \A i \in 1..n : flatten[i] = IF i = 1 THEN ones[i] ELSE flatten[i - 1] \o ones[i]
    BY <2>5
  <2> DEFINE T == {k \in 0..n - 1 : flatten[k + 1] = SubSeq(h, 1, k + 1)}
  <2>8. \A k \in 0..n - 1 : k \in T
    <3>1. 0 \in T
      <4>1. 0 + 1 = 1 /\ 0 \in 0..n - 1
        BY <2>1
      <4> QED
        BY <1>1, <2>1, <2>2, <2>7, <4>1
    <3>2. ASSUME NEW k \in 0..((n - 1) - 1), k \in T
          PROVE  k + 1 \in T
      <4>1. /\ k + 1 \in 0..n - 1 /\ (k + 1) + 1 \in 1..n /\ (k + 1) + 1 # 1
            /\ ((k + 1) + 1) - 1 = k + 1
        BY <1>1
      <4>2. flatten[(k + 1) + 1] = flatten[k + 1] \o ones[(k + 1) + 1]
        BY <2>7, <4>1
      <4>3. SubSeq(h, 1, (k + 1) + 1) = SubSeq(h, 1, k + 1) \o ones[(k + 1) + 1]
        BY <2>3, <4>1
      <4>4. flatten[k + 1] = SubSeq(h, 1, k + 1)
        BY <3>2
      <4> QED
        BY <4>1, <4>2, <4>3, <4>4
    <3> HIDE DEF T
    <3> QED
      BY <2>1, <3>1, <3>2, InductTo
  <2>9. n - 1 \in 0..n - 1 /\ (n - 1) + 1 = n
    BY <1>1, <2>1
  <2>10. flatten[n] = SubSeq(h, 1, n)
    BY <2>8, <2>9
  <2> QED
    BY <1>1, <2>6, <2>10 DEF ones
<1> QED
  BY <1>2, <1>3

LEMMA SavedAsItIs ==
  ASSUME EditorTypes, \A i \in DOMAIN history : Newline \notin Range(history[i])
  PROVE  SavedLines = history
<1>1. history \in Seq(Seq(Chars)) /\ DOMAIN history = 1..Len(history)
  BY LenProperties DEF EditorTypes
<1>2. \A i \in DOMAIN history : Lines(history[i]) = <<history[i]>>
  BY <1>1, ElementOfSeq, OneLine
<1>3. [i \in DOMAIN history |-> Lines(history[i])] = [i \in DOMAIN history |-> <<history[i]>>]
  BY <1>2
<1> QED
  BY <1>1, <1>3, FlattenOnes DEF SavedLines

-----------------------------------------------------------------------------
(* What each key does to the text, cut at the cursor *)

Before == SubSeq(command, 1, cursor)
Behind == SubSeq(command, cursor + 1, Size)

LEMMA BeforeBehind ==
  ASSUME EditorTypes
  PROVE  /\ Before \in Seq(Chars) /\ Len(Before) = cursor
         /\ \A p \in 1..cursor : Before[p] = command[p]
         /\ Behind \in Seq(Chars) /\ Len(Behind) = Size - cursor
         /\ \A p \in 1..Size - cursor : Behind[p] = command[cursor + p]
         /\ Before \o Behind = command
<1>1. command \in Seq(Chars) /\ cursor \in 0..Len(command) /\ Size = Len(command)
  BY SizeNat DEF EditorTypes
<1> QED
  BY <1>1, Halves DEF Before, Behind

\* A text joined from two, and cut again.
LEMMA Joined ==
  ASSUME NEW S, NEW l \in Seq(S), NEW r \in Seq(S)
  PROVE  /\ l \o r \in Seq(S)
         /\ Len(l) \in 0..Len(l \o r)
         /\ SubSeq(l \o r, 1, Len(l)) = l
         /\ SubSeq(l \o r, Len(l) + 1, Len(l \o r)) = r
<1> DEFINE s == l \o r  c == Len(l)
           x == SubSeq(s, 1, c)  y == SubSeq(s, c + 1, Len(s))
<1>1. Len(l) \in Nat /\ Len(r) \in Nat
  BY LenProperties
<1>2. /\ s \in Seq(S) /\ Len(s) = c + Len(r)
      /\ \A p \in 1..c + Len(r) : s[p] = IF p <= c THEN l[p] ELSE r[p - c]
  BY ConcatProperties
<1>3. c \in 0..Len(s)
  BY <1>1, <1>2
<1> HIDE DEF s
<1>4. /\ x \in Seq(S) /\ Len(x) = c /\ \A p \in 1..c : x[p] = s[p]
      /\ y \in Seq(S) /\ Len(y) = Len(s) - c /\ \A p \in 1..Len(s) - c : y[p] = s[c + p]
  BY <1>2, <1>3, Halves
<1> HIDE DEF x, y
<1>5. x = l
  <2>1. \A p \in 1..c : x[p] = l[p]
    BY <1>1, <1>2, <1>4
  <2> QED
    BY <1>4, <2>1, SeqEqual
<1>6. y = r
  <2>1. ASSUME NEW p \in 1..Len(r)
        PROVE  y[p] = r[p]
    <3>1. c + p \in 1..c + Len(r) /\ ~(c + p <= c) /\ (c + p) - c = p /\ Len(s) - c = Len(r)
      BY <1>1, <1>2
    <3>2. y[p] = s[c + p]
      BY <1>4, <3>1
    <3>3. s[c + p] = r[(c + p) - c]
      BY <1>2, <3>1
    <3> QED
      BY <3>1, <3>2, <3>3
  <2>2. Len(y) = Len(r)
    BY <1>1, <1>2, <1>4
  <2> QED
    BY <1>4, <2>1, <2>2, SeqEqual
<1> QED
  BY <1>2, <1>3, <1>5, <1>6 DEF s, x, y

\* The next text is l and r with the cursor between them.
Becomes(l, r) ==
  /\ l \in Seq(Chars) /\ r \in Seq(Chars)
  /\ command' = l \o r /\ cursor' = Len(l)

LEMMA BecomesHalves ==
  ASSUME NEW l, NEW r, Becomes(l, r)
  PROVE  /\ command' \in Seq(Chars) /\ cursor' \in 0..Size' /\ cursor' \in Nat
         /\ Before' = l /\ Behind' = r
<1>1. /\ l \o r \in Seq(Chars)
      /\ Len(l) \in 0..Len(l \o r)
      /\ SubSeq(l \o r, 1, Len(l)) = l
      /\ SubSeq(l \o r, Len(l) + 1, Len(l \o r)) = r
  BY Joined DEF Becomes
<1>2. Size' = Len(l \o r) /\ Len(l) \in Nat
  BY LenProperties DEF Becomes, Size
<1> QED
  BY <1>1, <1>2 DEF Becomes, Before, Behind

LEMMA ClipNat == ASSUME NEW n \in Nat PROVE Clip(n) = n
<1>1. \A x \in {0, n} : (\A y \in {0, n} : x >= y) => x = n
  OBVIOUS
<1>2. \A y \in {0, n} : n >= y
  OBVIOUS
<1> QED
  BY <1>1, <1>2 DEF Clip, Max

LEMMA ClipBelow == Clip(-1) = 0
<1>1. \A x \in {0, -1} : (\A y \in {0, -1} : x >= y) => x = 0
  OBVIOUS
<1>2. \A y \in {0, -1} : 0 >= y
  OBVIOUS
<1> QED
  BY <1>1, <1>2 DEF Clip, Max

LEMMA Inserted ==
  ASSUME EditorTypes, NEW c \in Chars,
         command' = InsertAt(command, cursor + 1, c), cursor' = cursor + 1
  PROVE  Becomes(Append(Before, c), Behind)
<1>1. /\ Before \in Seq(Chars) /\ Len(Before) = cursor /\ Behind \in Seq(Chars)
      /\ cursor \in Nat /\ Size = Len(command)
  BY BeforeBehind, SizeNat
<1>2. Append(Before, c) = Before \o <<c>> /\ Len(Append(Before, c)) = cursor + 1
      /\ Append(Before, c) \in Seq(Chars)
  BY <1>1, AppendProperties, AppendIsConcat
<1>3. command' = (Before \o <<c>>) \o Behind
  <2>1. (cursor + 1) - 1 = cursor
    BY <1>1
  <2> QED
    BY <1>1, <2>1 DEF InsertAt, Before, Behind
<1> QED
  BY <1>1, <1>2, <1>3 DEF Becomes

LEMMA PutCharText ==
  ASSUME EditorTypes, PutChar
  PROVE  \E c \in Chars : Becomes(Append(Before, c), Behind)
  BY Inserted DEF PutChar

LEMMA PopCharText ==
  ASSUME EditorTypes, PopChar
  PROVE  Before # <<>> /\ Becomes(Front(Before), Behind)
<1>1. /\ Before \in Seq(Chars) /\ Len(Before) = cursor /\ Behind \in Seq(Chars)
      /\ cursor \in Nat /\ cursor > 0 /\ cursor <= Size
      /\ Size = Len(command) /\ Size \in Nat
      /\ command \in Seq(Chars)
  BY BeforeBehind, SizeNat DEF EditorTypes, PopChar
<1>2. Before # <<>>
  BY <1>1, EmptySeq
<1>3. command' = Cut(command, cursor - 1, cursor)
  <2>1. cursor - 1 \in 0..Len(command) - 1 /\ (cursor - 1) + 1 = cursor
    BY <1>1
  <2>2. Erase(command, cursor - 1) = Cut(command, cursor - 1, (cursor - 1) + 1)
    BY <1>1, <2>1, EraseOne
  <2> QED
    BY <2>1, <2>2 DEF PopChar
<1>4. Front(Before) = SubSeq(command, 1, cursor - 1)
      /\ Front(Before) \in Seq(Chars) /\ Len(Front(Before)) = cursor - 1
  <2> DEFINE f == SubSeq(Before, 1, cursor - 1)  g == SubSeq(command, 1, cursor - 1)
  <2>1. cursor - 1 \in 0..Len(Before) /\ cursor - 1 \in 0..Len(command)
    BY <1>1
  <2>2. f \in Seq(Chars) /\ Len(f) = cursor - 1 /\ \A p \in 1..cursor - 1 : f[p] = Before[p]
    BY <1>1, <2>1, Halves
  <2>3. g \in Seq(Chars) /\ Len(g) = cursor - 1 /\ \A p \in 1..cursor - 1 : g[p] = command[p]
    BY <1>1, <2>1, Halves
  <2>4. \A p \in 1..cursor - 1 : Before[p] = command[p]
    <3>1. \A p \in 1..cursor - 1 : p \in 1..cursor
      BY <1>1
    <3> QED
      BY <3>1, BeforeBehind
  <2> HIDE DEF f, g
  <2>5. f = g
    BY <2>2, <2>3, <2>4, SeqEqual
  <2>6. Front(Before) = f
    BY <1>1 DEF Front, f
  <2> QED
    BY <2>2, <2>5, <2>6 DEF g
<1>5. command' = Front(Before) \o Behind
  BY <1>1, <1>3, <1>4 DEF Cut, Behind
<1>6. cursor' = cursor - 1
  BY DEF PopChar
<1> QED
  BY <1>1, <1>2, <1>4, <1>5, <1>6 DEF Becomes

\* The text behind the cursor without its first character.
LEMMA BeyondText ==
  ASSUME EditorTypes
  PROVE  /\ Rest(Behind) = SubSeq(command, Beyond + 1, Size)
         /\ Rest(Behind) \in Seq(Chars)
         /\ cursor < Size => Behind # <<>> /\ Tail(Behind) = SubSeq(command, Beyond + 1, Size)
<1>1. /\ Behind \in Seq(Chars) /\ Len(Behind) = Size - cursor
      /\ \A p \in 1..Size - cursor : Behind[p] = command[cursor + p]
      /\ cursor \in Nat /\ cursor <= Size
      /\ Size = Len(command) /\ Size \in Nat
      /\ command \in Seq(Chars)
  BY BeforeBehind, SizeNat DEF EditorTypes
<1>2. CASE cursor < Size
  <2> DEFINE t == Tail(Behind)  e == SubSeq(command, Beyond + 1, Size)
  <2>1. Behind # <<>>
    BY <1>1, <1>2, EmptySeq
  <2>2. t \in Seq(Chars) /\ Len(t) = Len(Behind) - 1 /\ \A p \in 1..Len(t) : t[p] = Behind[p + 1]
    BY <1>1, <2>1, HeadTailProperties
  <2>3. Beyond = cursor + 1 /\ Beyond \in 0..Len(command)
    BY <1>1, <1>2 DEF Beyond
  <2>4. e \in Seq(Chars) /\ Len(e) = Size - Beyond
        /\ \A p \in 1..Size - Beyond : e[p] = command[Beyond + p]
    BY <1>1, <2>3, Halves
  <2> HIDE DEF t, e
  <2>5. ASSUME NEW p \in 1..Size - Beyond
        PROVE  t[p] = e[p]
    <3>1. p \in 1..Len(t) /\ p + 1 \in 1..Size - cursor /\ cursor + (p + 1) = Beyond + p
      BY <1>1, <2>2, <2>3
    <3>2. t[p] = Behind[p + 1] /\ Behind[p + 1] = command[cursor + (p + 1)]
      BY <1>1, <2>2, <3>1
    <3> QED
      BY <2>4, <3>1, <3>2
  <2>6. t = e
    <3>1. Len(t) = (Size - cursor) - 1
      BY <1>1, <2>2
    <3>2. (Size - cursor) - 1 = Size - Beyond
      BY <1>1, <2>3
    <3> QED
      BY <2>2, <2>4, <2>5, <3>1, <3>2, SeqEqual
  <2>7. Rest(Behind) = t
    BY <2>1 DEF Rest, t
  <2> QED
    BY <2>1, <2>2, <2>6, <2>7 DEF t, e
<1>3. CASE ~(cursor < Size)
  <2>1. Len(Behind) = 0 /\ Beyond = Size /\ cursor = Size
    BY <1>1, <1>3 DEF Beyond
  <2>2. Behind = <<>>
    BY <1>1, <2>1, EmptySeq
  <2>3. Rest(Behind) = Behind
    BY <2>2 DEF Rest
  <2>4. SubSeq(command, Beyond + 1, Size) = Behind
    BY <2>1 DEF Behind
  <2> QED
    BY <1>1, <1>3, <2>3, <2>4
<1> QED
  BY <1>2, <1>3

\* What a word erased to the left leaves before the cursor and behind it.
LEMMA PopWordText ==
  ASSUME EditorTypes, PopWord
  PROVE  LET m == Max(Spaces(cursor))
         IN  IF m = 0 THEN Becomes(<<>>, Rest(Behind))
             ELSE Becomes(SubSeq(Before, 1, m - 1), <<Space>> \o Rest(Behind))
<1> DEFINE m == Max(Spaces(cursor))  e == Rest(Behind)
<1>1. /\ Before \in Seq(Chars) /\ Len(Before) = cursor
      /\ \A p \in 1..cursor : Before[p] = command[p]
      /\ cursor \in Nat /\ cursor > 0 /\ cursor <= Size
      /\ Size = Len(command) /\ Size \in Nat
      /\ command \in Seq(Chars)
  BY BeforeBehind, SizeNat DEF EditorTypes, PopWord
<1>2. m \in 0..cursor /\ (m = 0 \/ command[m] = Space)
  BY <1>1, LastSpaceOf
<1>3. PopWordStop = m - 1
  BY <1>1, PopWordStopOf
<1>4. e = SubSeq(command, Beyond + 1, Size) /\ e \in Seq(Chars)
  BY BeyondText
<1> HIDE DEF m, e
<1>5. command' = Cut(command, m, Beyond)
  <2>1. (m - 1) + 1 = m
    BY <1>1, <1>2
  <2>2. ErasedTo(m) = Cut(command, m, Beyond)
    BY <1>2, ErasedToOf
  <2> QED
    BY <1>3, <2>1, <2>2 DEF PopWord
<1>6. cursor' = Clip(m - 1)
  BY <1>3 DEF PopWord
<1>7. CASE m = 0
  <2>1. cursor' = 0
    BY <1>6, <1>7, ClipBelow
  <2>2. SubSeq(command, 1, 0) = <<>>
    BY SubSeqEmpty
  <2>3. command' = <<>> \o e
    BY <1>1, <1>4, <1>5, <1>7, <2>2 DEF Cut
  <2> QED
    BY <1>4, <1>7, <2>1, <2>3, EmptySeq DEF Becomes, m, e
<1>8. CASE m # 0
  <2>1. m - 1 \in Nat /\ cursor' = m - 1
    BY <1>1, <1>2, <1>6, <1>8, ClipNat
  <2> DEFINE f == SubSeq(Before, 1, m - 1)  g == SubSeq(command, 1, m - 1)
             h == SubSeq(command, 1, m)
  <2>2. f \in Seq(Chars) /\ Len(f) = m - 1 /\ \A p \in 1..m - 1 : f[p] = Before[p]
    <3>1. m - 1 \in 0..Len(Before)
      BY <1>1, <1>2, <1>8
    <3> QED
      BY <1>1, <3>1, Halves
  <2>3. g \in Seq(Chars) /\ Len(g) = m - 1 /\ \A p \in 1..m - 1 : g[p] = command[p]
    <3>1. m - 1 \in 0..Len(command)
      BY <1>1, <1>2, <1>8
    <3> QED
      BY <1>1, <3>1, Halves
  <2>4. f = g
    <3>1. \A p \in 1..m - 1 : p \in 1..cursor
      BY <1>1, <1>2, <1>8
    <3>2. \A p \in 1..m - 1 : f[p] = g[p]
      BY <1>1, <2>2, <2>3, <3>1
    <3> HIDE DEF f, g
    <3> QED
      BY <2>2, <2>3, <3>2, SeqEqual
  <2>5. h = g \o <<Space>>
    <3>1. 1 \in 1..Len(command) /\ m \in 1..Len(command)
      BY <1>1, <1>2, <1>8
    <3>2. h = g \o <<command[m]>>
      BY <1>1, <3>1, SubSeqRecursiveSecond
    <3> QED
      BY <1>2, <1>8, <3>2
  <2> HIDE DEF f, g, h
  <2>6. command' = (f \o <<Space>>) \o e
    BY <1>1, <1>4, <1>5, <2>4, <2>5 DEF Cut, h
  <2>7. <<Space>> \in Seq(Chars) /\ <<Space>> \o e \in Seq(Chars)
    <3>1. Space \in Chars
      BY DEF Chars
    <3>2. <<Space>> \in Seq(Chars)
      BY <3>1
    <3> QED
      BY <1>4, <3>2, ConcatProperties
  <2>8. command' = f \o (<<Space>> \o e)
    <3> DEFINE w == <<Space>>
    <3>1. f \in Seq(Chars) /\ w \in Seq(Chars) /\ e \in Seq(Chars)
      BY <1>4, <2>2, <2>7
    <3> HIDE DEF w
    <3>2. (f \o w) \o e = f \o (w \o e)
      BY <3>1, ConcatAssociative
    <3> QED
      BY <2>6, <3>2 DEF w
  <2>9. Becomes(f, <<Space>> \o e)
    BY <2>1, <2>2, <2>7, <2>8 DEF Becomes
  <2> QED
    BY <1>8, <2>9 DEF f, m, e
<1> QED
  BY <1>7, <1>8

LEMMA PopCharRightText ==
  ASSUME EditorTypes, PopCharRight
  PROVE  Behind # <<>> /\ Becomes(Before, Tail(Behind))
<1>1. /\ Before \in Seq(Chars) /\ Len(Before) = cursor /\ Behind \in Seq(Chars)
      /\ cursor \in Nat /\ cursor < Size
      /\ Size = Len(command) /\ Size \in Nat
      /\ command \in Seq(Chars)
  BY BeforeBehind, SizeNat DEF EditorTypes, PopCharRight
<1>2. Behind # <<>> /\ Tail(Behind) = SubSeq(command, Beyond + 1, Size)
  BY <1>1, BeyondText
<1>3. Tail(Behind) \in Seq(Chars)
  BY <1>1, <1>2, HeadTailProperties
<1>4. command' = Cut(command, cursor, cursor + 1) /\ cursor' = cursor
  <2>1. cursor \in 0..Len(command) - 1
    BY <1>1
  <2> QED
    BY <1>1, <2>1, EraseOne DEF PopCharRight
<1>5. command' = Before \o Tail(Behind)
  BY <1>1, <1>2, <1>4 DEF Cut, Before, Beyond
<1> QED
  BY <1>1, <1>2, <1>3, <1>4, <1>5 DEF Becomes

\* What a word erased to the right leaves behind the cursor.
LEMMA PopWordRightText ==
  ASSUME EditorTypes, PopWordRight
  PROVE  /\ Behind # <<>>
         /\ LET blanks == {i \in 2..Len(Behind) : Behind[i] = Space}
            IN  Becomes(Before, IF blanks = {} THEN <<>>
                                ELSE SubSeq(Behind, Min(blanks), Len(Behind)))
<1> DEFINE N == Size - cursor
           blanks == {i \in 2..N : Behind[i] = Space}
           Stops == {n \in 1..N : n = N \/ Behind[n + 1] = Space}
           n0 == Min(Stops)
<1>1. /\ Before \in Seq(Chars) /\ Len(Before) = cursor
      /\ Behind \in Seq(Chars) /\ Len(Behind) = N
      /\ \A p \in 1..N : Behind[p] = command[cursor + p]
      /\ cursor \in Nat /\ cursor < Size
      /\ Size = Len(command) /\ Size \in Nat
      /\ command \in Seq(Chars) /\ N \in Nat /\ N > 0
  BY BeforeBehind, SizeNat DEF EditorTypes, PopWordRight
<1>2. Behind # <<>>
  BY <1>1, EmptySeq
<1>3. ASSUME NEW n \in 1..N
      PROVE  /\ ErasedRight(n) = Cut(command, cursor, cursor + n)
             /\ (cursor >= Len(ErasedRight(n)) \/ Char(ErasedRight(n), cursor) = Space)
                  <=> (n = N \/ Behind[n + 1] = Space)
  <2> DEFINE k == cursor + n  t == Cut(command, cursor, k)
  <2>0. /\ n \in Nat /\ n >= 1 /\ n <= N /\ cursor \in Nat /\ Size \in Nat /\ cursor < Size
        /\ command \in Seq(Chars) /\ Len(command) = Size
    BY <1>1
  <2>1. ErasedRight(n) = t
    <3>1. n \in 0..Size - cursor
      BY <2>0
    <3> QED
      BY <3>1, ErasedRightOf
  <2>2. cursor \in 0..Len(command) /\ k \in cursor..Len(command)
    BY <2>0
  <2> HIDE DEF k
  <2>3. /\ Len(t) = cursor + (Len(command) - k)
        /\ \A p \in 1..(cursor + (Len(command) - k)) :
             t[p] = command[IF p <= cursor THEN p ELSE p + (k - cursor)]
    <3> DEFINE c == cursor
    <3>1. command \in Seq(Chars) /\ c \in 0..Len(command) /\ k \in c..Len(command)
      BY <2>0, <2>2
    <3> HIDE DEF c
    <3>2. /\ Len(Cut(command, c, k)) = c + (Len(command) - k)
          /\ \A p \in 1..(c + (Len(command) - k)) :
               Cut(command, c, k)[p] = command[IF p <= c THEN p ELSE p + (k - c)]
      BY <3>1, CutOf
    <3> QED
      BY <3>2 DEF c
  <2> HIDE DEF t
  <2>4. Len(t) = Size - n
    BY <2>0, <2>3 DEF k
  <2>5. CASE n = N
    <3>1. cursor >= Len(t)
      BY <2>0, <2>4, <2>5
    <3> QED
      BY <2>1, <2>5, <3>1 DEF t, k
  <2>6. CASE n # N
    <3>1. ~(cursor >= Len(t)) /\ cursor \in 0..Len(t) - 1
      BY <2>0, <2>4, <2>6
    <3>2. Char(t, cursor) = t[cursor + 1]
      BY <3>1 DEF Char
    <3>3. /\ cursor + 1 \in 1..(cursor + (Len(command) - k)) /\ ~(cursor + 1 <= cursor)
          /\ (cursor + 1) + (k - cursor) = cursor + (n + 1) /\ n + 1 \in 1..N
      BY <2>0, <2>6 DEF k
    <3>4. t[cursor + 1] = command[cursor + (n + 1)]
      BY <2>3, <3>3
    <3>5. Behind[n + 1] = command[cursor + (n + 1)]
      BY <1>1, <3>3
    <3>6. (cursor >= Len(t) \/ Char(t, cursor) = Space) <=> (n = N \/ Behind[n + 1] = Space)
      BY <2>6, <3>1, <3>2, <3>4, <3>5
    <3> QED
      BY <2>1, <3>6 DEF t, k
  <2> QED
    BY <2>5, <2>6
<1>4. Stops = {n \in 1..N : cursor >= Len(ErasedRight(n)) \/ Char(ErasedRight(n), cursor) = Space}
  <2> HIDE DEF N
  <2> QED
    BY <1>3
<1>5. n0 \in Stops /\ \A y \in Stops : n0 <= y
  <2>1. Stops \in SUBSET (0..N) /\ N \in Stops
    BY <1>1
  <2> HIDE DEF Stops, N
  <2> QED
    BY <1>1, <2>1, MinOf
<1>6. n0 \in 1..N /\ (n0 = N \/ Behind[n0 + 1] = Space)
  <2> HIDE DEF n0, N
  <2> QED
    BY <1>5
<1>7. command' = ErasedRight(n0) /\ cursor' = cursor
  BY <1>4 DEF PopWordRight
<1> DEFINE k == cursor + n0  rest == SubSeq(command, k + 1, Size)
<1>8. command' = Before \o rest
  <2>1. ErasedRight(n0) = Cut(command, cursor, k)
    <3> HIDE DEF n0, N
    <3> QED
      BY <1>3, <1>6
  <2> QED
    BY <1>1, <1>7, <2>1 DEF Cut, Before
<1>9. k \in 0..Len(command)
  <2> HIDE DEF n0
  <2> QED
    BY <1>1, <1>6
<1> HIDE DEF k
<1>10. /\ rest \in Seq(Chars) /\ Len(rest) = Size - k
       /\ \A p \in 1..Size - k : rest[p] = command[k + p]
  BY <1>1, <1>9, Halves
<1> HIDE DEF rest
<1>11. CASE blanks = {}
  <2>1. n0 = N
    <3> SUFFICES ASSUME n0 # N PROVE FALSE
      OBVIOUS
    <3> HIDE DEF n0
    <3>1. n0 + 1 \in 2..N /\ Behind[n0 + 1] = Space
      BY <1>1, <1>6
    <3>2. n0 + 1 \in blanks
      BY <3>1
    <3> QED
      BY <1>11, <3>2
  <2>2. Size - k = 0
    <3> HIDE DEF n0
    <3> QED
      BY <1>1, <2>1 DEF k
  <2>3. rest = <<>>
    BY <1>10, <2>2, EmptySeq
  <2>4. Becomes(Before, <<>>)
    BY <1>1, <1>7, <1>8, <2>3, EmptySeq DEF Becomes
  <2> HIDE DEF N
  <2> QED
    BY <1>1, <1>2, <1>11, <2>4
<1>12. CASE blanks # {}
  <2> DEFINE y == Min(blanks)  f == SubSeq(Behind, y, N)
  <2>1. y \in blanks /\ \A z \in blanks : y <= z
    <3>1. blanks \in SUBSET (0..N)
      BY <1>1
    <3> HIDE DEF blanks, N
    <3> QED
      BY <1>1, <1>12, <3>1, MinOf
  <2>2. y \in 2..N /\ Behind[y] = Space
    <3> HIDE DEF y, N
    <3> QED
      BY <2>1
  <2> HIDE DEF y, n0
  <2>3. y = n0 + 1
    <3>1. y - 1 \in Stops
      <4>1. y - 1 \in 1..N /\ (y - 1) + 1 = y
        BY <1>1, <2>2
      <4> HIDE DEF N
      <4> QED
        BY <2>2, <4>1
    <3>2. n0 <= y - 1
      <4> HIDE DEF Stops
      <4> QED
        BY <1>5, <3>1
    <3>3. n0 # N /\ n0 + 1 \in 2..N
      BY <1>1, <1>6, <2>2, <3>2
    <3>4. n0 + 1 \in blanks
      <4> HIDE DEF N
      <4> QED
        BY <1>6, <3>3
    <3>5. y <= n0 + 1
      <4> HIDE DEF blanks
      <4> QED
        BY <2>1, <3>4
    <3> QED
      BY <1>1, <1>6, <2>2, <3>2, <3>5
  <2>4. y - 1 \in 0..Len(Behind) /\ (y - 1) + 1 = y
    BY <1>1, <2>2
  <2>5. /\ f \in Seq(Chars) /\ Len(f) = Len(Behind) - (y - 1)
        /\ \A p \in 1..Len(Behind) - (y - 1) : f[p] = Behind[(y - 1) + p]
    <3> DEFINE c == y - 1
    <3>1. c \in 0..Len(Behind) /\ c + 1 = y
      BY <2>4
    <3> HIDE DEF c
    <3>2. /\ SubSeq(Behind, c + 1, Len(Behind)) \in Seq(Chars)
          /\ Len(SubSeq(Behind, c + 1, Len(Behind))) = Len(Behind) - c
          /\ \A p \in 1..Len(Behind) - c : SubSeq(Behind, c + 1, Len(Behind))[p] = Behind[c + p]
      BY <1>1, <3>1, Halves
    <3>3. f = SubSeq(Behind, c + 1, Len(Behind))
      BY <1>1, <3>1
    <3> HIDE DEF f
    <3> QED
      BY <3>2, <3>3 DEF c
  <2>6. Len(Behind) - (y - 1) = Size - k
    BY <1>1, <1>6, <2>3 DEF k
  <2> HIDE DEF f
  <2>7. ASSUME NEW p \in 1..Size - k
        PROVE  f[p] = rest[p]
    <3>1. (y - 1) + p \in 1..N /\ cursor + ((y - 1) + p) = k + p
      BY <1>1, <1>6, <2>3 DEF k
    <3>2. f[p] = Behind[(y - 1) + p]
      BY <2>5, <2>6
    <3>3. Behind[(y - 1) + p] = command[cursor + ((y - 1) + p)]
      <4> HIDE DEF N
      <4> QED
        BY <1>1, <3>1
    <3> QED
      BY <1>10, <3>1, <3>2, <3>3
  <2>8. f = rest
    BY <1>10, <2>5, <2>6, <2>7, SeqEqual
  <2>9. Becomes(Before, f)
    BY <1>1, <1>7, <1>8, <1>10, <2>8 DEF Becomes
  <2> HIDE DEF N
  <2> QED
    BY <1>1, <1>2, <1>12, <2>9 DEF f, y
<1> QED
  BY <1>11, <1>12

-----------------------------------------------------------------------------
(* Types *)

LEMMA SetLineText ==
  ASSUME NEW text \in Seq(Chars), SetLine(text)
  PROVE  Becomes(text, <<>>)
  BY ConcatEmptySeq, EmptySeq DEF SetLine, Becomes

LEMMA NextCommandText ==
  ASSUME NextCommand
  PROVE  Becomes(<<>>, <<>>)
<1>1. <<>> \in Seq(Chars) /\ Len(<<>>) = 0
  BY EmptySeq
<1>2. <<>> \o <<>> = <<>>
  BY <1>1, ConcatEmptySeq
<1> QED
  BY <1>1, <1>2 DEF NextCommand, Becomes

LEMMA ArrowUpText ==
  ASSUME EditorTypes, ArrowUp
  PROVE  Becomes(history[Len(history) - index], <<>>) /\ Len(history) - index \in 1..Len(history)
<1>1. history \in Seq(Seq(Chars)) /\ Len(history) \in Nat /\ index \in Nat /\ index < Len(history)
  BY LenProperties DEF EditorTypes, ArrowUp
<1>2. Len(history) - index \in 1..Len(history)
  BY <1>1
<1>3. history[Len(history) - index] \in Seq(Chars)
  BY <1>1, <1>2, ElementOfSeq
<1> QED
  BY <1>2, <1>3, SetLineText DEF ArrowUp

\* Down shows a later command, or what was typed first; or it reads behind the
\* history, and changes nothing that is shown.
LEMMA ArrowDownText ==
  ASSUME EditorTypes, ArrowDown
  PROVE  /\ UNCHANGED <<history, saved>>
         /\ \/ \E k \in 1..Len(history) : Becomes(history[k], <<>>) /\ SetLine(history[k])
            \/ Becomes(saved, <<>>) /\ SetLine(saved)
            \/ UNCHANGED <<command, cursor, row, column, astray>>
         /\ index' \in 0..Len(history)
<1>1. /\ history \in Seq(Seq(Chars)) /\ Len(history) \in Nat
      /\ index \in Nat /\ index <= Len(history) /\ saved \in Seq(Chars)
  BY LenProperties DEF EditorTypes
<1>2. UNCHANGED <<history, saved>>
  BY DEF ArrowDown
<1>3. CASE index > 1 /\ index' = index - 1 /\ SetLine(history[Len(history) - index + 2])
  <2>1. Len(history) - index + 2 \in 1..Len(history) /\ index' \in 0..Len(history)
    BY <1>1, <1>3
  <2>2. history[Len(history) - index + 2] \in Seq(Chars)
    BY <1>1, <2>1, ElementOfSeq
  <2>3. Becomes(history[Len(history) - index + 2], <<>>)
    BY <1>3, <2>2, SetLineText
  <2> QED
    BY <1>2, <1>3, <2>1, <2>3
<1>4. CASE index = 1 /\ index' = 0 /\ UNCHANGED <<command, cursor, row, column, astray>>
  BY <1>1, <1>2, <1>4
<1>5. CASE index = 0 /\ SetLine(saved) /\ index' = index
  BY <1>1, <1>2, <1>5, SetLineText
<1> QED
  BY <1>3, <1>4, <1>5 DEF ArrowDown

\* The places the arrows go to.
LEMMA ArrowLeftPlace ==
  ASSUME EditorTypes, ArrowLeft
  PROVE  /\ \E place \in 0..cursor - 1 : Move(place, column - (cursor - place))
         /\ UNCHANGED astray /\ cursor > 0
<1> DEFINE Stops == {i \in 0..cursor - 1 : i = 0 \/ Char(command, i) = Space}
<1>1. cursor \in Nat /\ cursor > 0 /\ cursor - 1 \in Nat
  BY SizeNat DEF ArrowLeft
<1>2. Max(Stops) \in Stops
  <2>1. Stops \in SUBSET (0..cursor - 1) /\ 0 \in Stops
    BY <1>1
  <2> HIDE DEF Stops
  <2> QED
    BY <1>1, <2>1, MaxOf
<1>3. Max(Stops) \in 0..cursor - 1 /\ cursor - 1 \in 0..cursor - 1
  BY <1>1, <1>2
<1> QED
  BY <1>1, <1>3 DEF ArrowLeft

LEMMA ArrowRightPlace ==
  ASSUME EditorTypes, ArrowRight
  PROVE  /\ \E place \in cursor + 1..Size : Move(place, column + (place - cursor))
         /\ UNCHANGED astray /\ cursor < Size
<1> DEFINE Stops == {i \in cursor + 1..Size : i = Size \/ Char(command, i) = Space}
<1>1. cursor \in Nat /\ cursor < Size /\ Size \in Nat
  BY SizeNat DEF ArrowRight
<1>2. Min(Stops) \in Stops
  <2>1. Stops \in SUBSET (0..Size) /\ Size \in Stops
    BY <1>1
  <2> HIDE DEF Stops
  <2> QED
    BY <1>1, <2>1, MinOf
<1>3. Min(Stops) \in cursor + 1..Size /\ cursor + 1 \in cursor + 1..Size
  BY <1>1, <1>2
<1> QED
  BY <1>1, <1>3 DEF ArrowRight

\* Every key leaves a text cut in two, or the text it found with the cursor at a
\* place of it.
LEMMA TextStep ==
  ASSUME EditorTypes, Next
  PROVE  (\E l, r : Becomes(l, r)) \/ (command' = command /\ cursor' \in 0..Size)
<1>1. CASE PutChar
  BY <1>1, PutCharText
<1>2. CASE PopChar
  BY <1>2, PopCharText
<1>3. CASE PopWord
  BY <1>3, PopWordText
<1>4. CASE PopCharRight
  BY <1>4, PopCharRightText
<1>5. CASE PopWordRight
  BY <1>5, PopWordRightText
<1>6. CASE ArrowLeft
  <2>1. PICK place \in 0..cursor - 1 : Move(place, column - (cursor - place))
    BY <1>6, ArrowLeftPlace
  <2>2. command' = command /\ cursor' = place
    BY <2>1 DEF Move
  <2>3. place \in 0..Size
    BY SizeNat
  <2> QED
    BY <2>2, <2>3
<1>7. CASE ArrowRight
  <2>1. PICK place \in cursor + 1..Size : Move(place, column + (place - cursor))
    BY <1>7, ArrowRightPlace
  <2>2. command' = command /\ cursor' = place
    BY <2>1 DEF Move
  <2>3. place \in 0..Size
    BY SizeNat
  <2> QED
    BY <2>2, <2>3
<1>8. CASE Home
  <2>1. command' = command /\ cursor' = 0 /\ 0 \in 0..Size
    BY <1>8, SizeNat DEF Home, Move
  <2> QED
    BY <2>1
<1>9. CASE End
  <2>1. command' = command /\ cursor' = Size /\ Size \in 0..Size
    BY <1>9, SizeNat DEF End, Move
  <2> QED
    BY <2>1
<1>10. CASE ArrowUp
  BY <1>10, ArrowUpText
<1>11. CASE ArrowDown
  <2>1. command' = command /\ cursor' = cursor => cursor' \in 0..Size
    BY DEF EditorTypes
  <2> QED
    BY <1>11, <2>1, ArrowDownText
<1>12. CASE Enter
  BY <1>12, NextCommandText DEF Enter
<1>13. CASE NewSession
  BY <1>13, NextCommandText DEF NewSession
<1> QED
  BY <1>1, <1>2, <1>3, <1>4, <1>5, <1>6, <1>7, <1>8, <1>9, <1>10, <1>11, <1>12, <1>13 DEF Next

\* The history after a command is entered.
LEMMA EnterHistory ==
  ASSUME EditorTypes, Enter
  PROVE  history' \in Seq(Seq(Chars))
<1>1. history \in Seq(Seq(Chars)) /\ command \in Seq(Chars)
  BY DEF EditorTypes
<1>2. Append(history, command) \in Seq(Seq(Chars))
  BY <1>1, AppendProperties
<1>3. CASE Len(history) >= MaxHistorySize
  <2>1. history # <<>>
    BY <1>3, EditorAssumption, EmptySeq DEF EditorAssumption
  <2>2. Tail(history) \in Seq(Seq(Chars))
    BY <1>1, <2>1, HeadTailProperties
  <2>3. Append(Tail(history), command) \in Seq(Seq(Chars))
    BY <1>1, <2>2, AppendProperties
  <2> QED
    BY <1>1, <1>2, <2>3 DEF Enter
<1>4. CASE ~(Len(history) >= MaxHistorySize)
  BY <1>1, <1>2, <1>4 DEF Enter
<1> QED
  BY <1>3, <1>4

LEMMA TypesInit == ASSUME Init PROVE EditorTypes
<1>1. <<>> \in Seq(Chars) /\ <<>> \in Seq(Seq(Chars)) /\ Len(<<>>) = 0 /\ 0 \in 0..0
  BY EmptySeq
<1>2. /\ command = <<>> /\ cursor = 0 /\ history = <<>> /\ index = 0
      /\ saved = <<>>
  BY DEF Init
<1> QED
  BY <1>1, <1>2 DEF EditorTypes, Size

LEMMA TypesStep == ASSUME EditorTypes, [Next]_vars PROVE EditorTypes'
<1>1. CASE UNCHANGED vars
  BY <1>1 DEF vars, EditorTypes, Size
<1>2. CASE Next
  <2>1. command' \in Seq(Chars) /\ cursor' \in 0..Size'
    <3>1. CASE \E l, r : Becomes(l, r)
      BY <3>1, BecomesHalves
    <3>2. CASE command' = command /\ cursor' \in 0..Size
      BY <3>2 DEF EditorTypes, Size
    <3> QED
      BY <1>2, <3>1, <3>2, TextStep
  <2>2. history \in Seq(Seq(Chars)) /\ saved \in Seq(Chars) /\ Len(history) \in Nat
        /\ command \in Seq(Chars) /\ index \in 0..Len(history)
    BY LenProperties DEF EditorTypes
  <2>4. history' \in Seq(Seq(Chars)) /\ saved' \in Seq(Chars) /\ index' \in 0..Len(history')
    <3>1. CASE UNCHANGED <<history, index, saved>>
      BY <2>2, <3>1
    <3>2. CASE ArrowUp
      <4>1. index' \in 0..Len(history) /\ history' = history
        BY <2>2, <3>2 DEF ArrowUp
      <4>2. saved' \in Seq(Chars)
        BY <2>2, <3>2 DEF ArrowUp
      <4> QED
        BY <2>2, <4>1, <4>2
    <3>3. CASE ArrowDown
      BY <2>2, <3>3, ArrowDownText
    <3>4. CASE Enter
      <4>1. history' \in Seq(Seq(Chars)) /\ index' = 0 /\ saved' = saved
        BY <3>4, EnterHistory DEF Enter, NextCommand
      <4> QED
        BY <2>2, <4>1, LenProperties
    <3>5. CASE NewSession
      <4>1. history' \in Seq(Seq(Chars)) /\ index' = 0 /\ saved' = <<>>
        BY <3>5, SavedLinesType DEF NewSession, NextCommand
      <4> QED
        BY <4>1, LenProperties, EmptySeq
    <3>6. UNCHANGED <<history, index, saved>> \/ ArrowUp \/ ArrowDown \/ Enter \/ NewSession
      BY <1>2 DEF Next, PutChar, PopChar, PopWord, PopCharRight, PopWordRight, ArrowLeft,
                  ArrowRight, Home, End, Move, KeepHistory
    <3> QED
      BY <3>1, <3>2, <3>3, <3>4, <3>5, <3>6
  <2> QED
    BY <2>1, <2>4 DEF EditorTypes
<1> QED
  BY <1>1, <1>2

-----------------------------------------------------------------------------
(* The console *)

\* The console shows the command, each of whose characters takes one column.
InStep == row = Prompt \o command /\ column = Len(Prompt) + cursor /\ Odd(command) = {}

\* A text of such characters is shown as it is.
LEMMA CellsAreText ==
  ASSUME NEW text \in Seq(Chars), Odd(text) = {}
  PROVE  Cells(text) = text
<1> DEFINE n == Len(text)
           cell(i) == [k \in 1..Columns[text[i]] |-> text[i]]
           Fills(f) == f = [i \in 0..n |-> IF i = 0 THEN <<>> ELSE f[i - 1] \o cell(i)]
           part == [i \in 0..n |-> SubSeq(text, 1, i)]
<1>1. n \in Nat /\ SubSeq(text, 1, 0) = <<>> /\ SubSeq(text, 1, n) = text
  BY LenProperties, SubSeqEmpty, SubSeqFull
<1>2. ASSUME NEW i \in 1..n
      PROVE  SubSeq(text, 1, i) = SubSeq(text, 1, i - 1) \o cell(i)
  <2>1. Columns[text[i]] = 1
    BY <1>1, LenProperties DEF Odd
  <2>2. cell(i) = <<text[i]>>
    BY <2>1
  <2>3. 1 \in 1..Len(text) /\ i \in 1..Len(text)
    BY <1>1
  <2> HIDE DEF cell
  <2> QED
    BY <2>2, <2>3, SubSeqRecursiveSecond
<1> HIDE DEF cell
<1>3. Fills(part)
  <2>1. ASSUME NEW i \in 0..n
        PROVE  part[i] = IF i = 0 THEN <<>> ELSE part[i - 1] \o cell(i)
    <3>1. i # 0 => i \in 1..n /\ i - 1 \in 0..n
      BY <1>1
    <3> QED
      BY <1>1, <1>2, <3>1
  <2> QED
    BY <2>1
<1> DEFINE cells == CHOOSE f : Fills(f)
<1>4. Fills(cells)
  <2> HIDE DEF Fills, part
  <2> QED
    BY <1>3
<1>5. Cells(text) = cells[n]
  BY DEF Cells, cell
<1> HIDE DEF cells
<1>6. \A i \in 0..n : cells[i] = IF i = 0 THEN <<>> ELSE cells[i - 1] \o cell(i)
  BY <1>4
<1> DEFINE T == {i \in 0..n : cells[i] = SubSeq(text, 1, i)}
<1>7. \A i \in 0..n : i \in T
  <2>1. 0 \in T
    <3>1. 0 \in 0..n
      BY <1>1
    <3> QED
      BY <1>1, <1>6, <3>1
  <2>2. ASSUME NEW k \in 0..(n - 1), k \in T
        PROVE  k + 1 \in T
    <3>1. k + 1 \in 0..n /\ k + 1 \in 1..n /\ (k + 1) - 1 = k /\ k + 1 # 0
      BY <1>1
    <3> QED
      BY <1>2, <1>6, <2>2, <3>1
  <2> HIDE DEF T
  <2> QED
    BY <1>1, <2>1, <2>2, InductTo
<1>8. n \in 0..n
  BY <1>1
<1> QED
  BY <1>1, <1>5, <1>7, <1>8

LEMMA PromptNat == Len(Prompt) \in Nat /\ Len(Prompt) > 0
  BY EditorAssumption, LenProperties DEF EditorAssumption

\* A line written again with the cursor's new place shows the text.
LEMMA UpdateLineShows ==
  ASSUME NEW position \in Int, NEW offset \in Int, command' \in Seq(Chars),
         UpdateLine(command', position, offset), astray' = {},
         cursor' = position + offset - 1, cursor' \in Nat
  PROVE  InStep'
<1>1. Odd(command') = {}
  BY DEF UpdateLine
<1>2. Cells(command') = command'
  BY <1>1, CellsAreText
<1>3. row' = Prompt \o command' /\ column' = Clip((position + offset) + Len(Prompt) - 1)
  BY <1>2 DEF UpdateLine, Console, SetCursorPosition
<1>4. (position + offset) + Len(Prompt) - 1 = Len(Prompt) + cursor'
  BY PromptNat
<1>5. Clip(Len(Prompt) + cursor') = Len(Prompt) + cursor'
  <2>1. Len(Prompt) + cursor' \in Nat
    BY PromptNat
  <2> QED
    BY <2>1, ClipNat
<1> QED
  BY <1>1, <1>3, <1>4, <1>5 DEF InStep, Odd

LEMMA SetLineShows ==
  ASSUME NEW text \in Seq(Chars), SetLine(text), astray' = {}
  PROVE  InStep'
<1>1. Odd(text) = {}
  BY DEF SetLine
<1>2. Cells(text) = text
  BY <1>1, CellsAreText
<1>3. Len(Prompt) + Len(text) \in Nat
  BY PromptNat, LenProperties
<1>4. Clip(Len(Prompt) + Len(text)) = Len(Prompt) + Len(text)
  BY <1>3, ClipNat
<1> QED
  BY <1>1, <1>2, <1>4 DEF SetLine, Console, InStep, Odd

LEMMA NextCommandShows == ASSUME NextCommand PROVE InStep'
<1>1. Prompt \o <<>> = Prompt
  BY EditorAssumption, ConcatEmptySeq DEF EditorAssumption
<1>2. Len(Prompt) + 0 = Len(Prompt)
  BY PromptNat
<1>3. Odd(<<>>) = {}
  BY DEF Odd
<1> QED
  BY <1>1, <1>2, <1>3 DEF NextCommand, InStep, Odd

\* A move of the cursor moves the console's by as much.
LEMMA MoveShows ==
  ASSUME EditorTypes, InStep, NEW place \in Nat, NEW at,
         Move(place, at), at = Len(Prompt) + place
  PROVE  InStep'
<1>1. Len(Prompt) + place \in Nat
  BY PromptNat
<1>2. Clip(at) = Len(Prompt) + place
  BY <1>1, ClipNat
<1> QED
  BY <1>2 DEF InStep, Move, Console, Odd

\* The characters written over the line from the console's cursor on are those
\* that have changed.
LEMMA PutCharShows ==
  ASSUME EditorTypes, InStep, PutChar, astray' = {}
  PROVE  InStep'
<1> DEFINE P == Len(Prompt)  W == STRING \cup Chars
           t == SubSeq(command', cursor + 1, Len(command'))
           old == Prompt \o command  new == Prompt \o command'
<1>1. /\ P \in Nat /\ cursor \in Nat /\ cursor <= Size /\ Size = Len(command) /\ Size \in Nat
      /\ command \in Seq(Chars)
  BY PromptNat, SizeNat DEF EditorTypes
<1>2. PICK c \in Chars :
        /\ Becomes(Append(Before, c), Behind) /\ Columns[c] = 1
        /\ Console(Written(Cells(t)), column + Len(Cells(t)) - (Size - cursor))
  <2>1. PICK c \in Chars :
          /\ command' = InsertAt(command, cursor + 1, c)
          /\ Console(Written(Cells(t)), column + Len(Cells(t)) - (Size - cursor))
          /\ astray' = astray \cup Odd(<<c>>)
    BY DEF PutChar
  <2>2. Becomes(Append(Before, c), Behind)
    BY <2>1, Inserted DEF PutChar
  <2>3. Odd(<<c>>) = {}
    BY <2>1
  <2>4. Columns[c] = 1
    <3>1. 1 \in DOMAIN <<c>> /\ <<c>>[1] = c
      OBVIOUS
    <3> QED
      BY <2>3, <3>1 DEF Odd
  <2> QED
    BY <2>1, <2>2, <2>4
<1> DEFINE l == Append(Before, c)
<1>3. /\ l \in Seq(Chars) /\ Len(l) = cursor + 1 /\ \A p \in 1..cursor : l[p] = command[p]
      /\ l[cursor + 1] = c
      /\ Behind \in Seq(Chars) /\ Len(Behind) = Size - cursor
      /\ \A p \in 1..Size - cursor : Behind[p] = command[cursor + p]
  <2>1. Before \in Seq(Chars) /\ Len(Before) = cursor
    BY BeforeBehind
  <2>2. /\ l \in Seq(Chars) /\ Len(l) = cursor + 1
        /\ \A p \in 1..cursor : l[p] = Before[p]
        /\ l[cursor + 1] = c
    BY <1>1, <2>1, AppendProperties
  <2> QED
    BY <2>2, BeforeBehind
<1> HIDE DEF l
<1>4. /\ command' \in Seq(Chars) /\ Len(command') = Size + 1 /\ cursor' = cursor + 1
      /\ \A p \in 1..cursor : command'[p] = command[p]
      /\ command'[cursor + 1] = c
      /\ \A p \in cursor + 2..Size + 1 : command'[p] = command[p - 1]
  <2>1. command' = l \o Behind /\ cursor' = Len(l)
    BY <1>2 DEF Becomes, l
  <2>2. /\ command' \in Seq(Chars) /\ Len(command') = Len(l) + Len(Behind)
        /\ \A p \in 1..Len(l) + Len(Behind) :
             command'[p] = IF p <= Len(l) THEN l[p] ELSE Behind[p - Len(l)]
    BY <1>3, <2>1, ConcatProperties
  <2>3. \A p \in 1..cursor : p \in 1..Len(l) + Len(Behind) /\ p <= Len(l)
    BY <1>1, <1>3
  <2>4. \A p \in 1..cursor : command'[p] = l[p]
    BY <2>2, <2>3
  <2>5. Len(l) + Len(Behind) = Size + 1
    BY <1>1, <1>3
  <2>6. command'[cursor + 1] = c
    BY <1>1, <1>3, <2>2
  <2>7. ASSUME NEW p \in cursor + 2..Size + 1
        PROVE  command'[p] = command[p - 1]
    <3>1. /\ p \in 1..Len(l) + Len(Behind) /\ ~(p <= Len(l))
          /\ p - Len(l) \in 1..Size - cursor /\ cursor + (p - Len(l)) = p - 1
      BY <1>1, <1>3
    <3> QED
      BY <1>3, <2>2, <3>1
  <2> QED
    BY <1>3, <2>1, <2>2, <2>4, <2>5, <2>6, <2>7
<1>plain. ASSUME NEW p \in 1..Size + 1
       PROVE  Columns[command'[p]] = 1
  <2>1. \A q \in 1..Size : Columns[command[q]] = 1
    <3>1. DOMAIN command = 1..Size
      BY <1>1, LenProperties
    <3> QED
      BY <3>1 DEF InStep, Odd
  <2>2. CASE p <= cursor
    BY <1>1, <1>4, <2>1, <2>2
  <2>3. CASE p = cursor + 1
    BY <1>2, <1>4, <2>3
  <2>4. CASE p > cursor + 1
    <3>1. p \in cursor + 2..Size + 1 /\ p - 1 \in 1..Size
      BY <1>1, <2>4
    <3> QED
      BY <1>4, <2>1, <3>1
  <2> QED
    BY <1>1, <2>2, <2>3, <2>4
<1>5. /\ t \in Seq(Chars) /\ Len(t) = (Size + 1) - cursor
      /\ \A p \in 1..(Size + 1) - cursor : t[p] = command'[cursor + p]
  <2> DEFINE s == command'
  <2>1. s \in Seq(Chars) /\ cursor \in 0..Len(s)
    BY <1>1, <1>4
  <2> HIDE DEF s
  <2>2. /\ SubSeq(s, cursor + 1, Len(s)) \in Seq(Chars)
        /\ Len(SubSeq(s, cursor + 1, Len(s))) = Len(s) - cursor
        /\ \A p \in 1..Len(s) - cursor : SubSeq(s, cursor + 1, Len(s))[p] = s[cursor + p]
    BY <2>1, Halves
  <2> QED
    BY <1>4, <2>2 DEF s
<1>shown. Odd(command') = {} /\ Cells(t) = t
  <2>1. DOMAIN command' = 1..Size + 1
    <3> DEFINE s == command'
    <3>1. s \in Seq(Chars) /\ Len(s) = Size + 1
      BY <1>4
    <3> HIDE DEF s
    <3>2. DOMAIN s = 1..Size + 1
      BY <3>1, LenProperties
    <3> QED
      BY <3>2 DEF s
  <2>2. DOMAIN t = 1..(Size + 1) - cursor
    <3> HIDE DEF t
    <3> QED
      BY <1>5, LenProperties
  <2>3. ASSUME NEW p \in 1..(Size + 1) - cursor
        PROVE  Columns[t[p]] = 1
    <3>1. cursor + p \in 1..Size + 1
      BY <1>1
    <3>2. t[p] = command'[cursor + p]
      BY <1>5
    <3> HIDE DEF t
    <3> QED
      BY <1>plain, <3>1, <3>2
  <2>4. Odd(command') = {}
    BY <1>plain, <2>1 DEF Odd
  <2>5. Odd(t) = {}
    <3> HIDE DEF t
    <3> QED
      BY <2>2, <2>3 DEF Odd
  <2>6. Cells(t) = t
    <3> HIDE DEF t
    <3> QED
      BY <1>5, <2>5, CellsAreText
  <2> QED
    BY <2>4, <2>6
<1>6. Prompt \in Seq(W) /\ command \in Seq(W) /\ command' \in Seq(W)
  <2>1. Prompt \in Seq(STRING)
    BY EditorAssumption DEF EditorAssumption
  <2> QED
    BY <1>1, <1>4, <2>1, SeqMonotonic
<1> HIDE DEF W
<1>7. /\ old \in Seq(W) /\ Len(old) = P + Size
      /\ \A i \in 1..P + Size : old[i] = IF i <= P THEN Prompt[i] ELSE command[i - P]
  BY <1>1, <1>6, ConcatProperties
<1>8. /\ new \in Seq(W) /\ Len(new) = P + (Size + 1)
      /\ \A i \in 1..P + (Size + 1) : new[i] = IF i <= P THEN Prompt[i] ELSE command'[i - P]
  <2> DEFINE s == command'
  <2>1. Prompt \in Seq(W) /\ s \in Seq(W) /\ Len(s) = Size + 1
    BY <1>4, <1>6
  <2> HIDE DEF s
  <2>2. /\ Prompt \o s \in Seq(W) /\ Len(Prompt \o s) = Len(Prompt) + Len(s)
        /\ \A i \in 1..Len(Prompt) + Len(s) :
             (Prompt \o s)[i] = IF i <= Len(Prompt) THEN Prompt[i] ELSE s[i - Len(Prompt)]
    BY <2>1, ConcatProperties
  <2> QED
    BY <2>1, <2>2 DEF s
<1>9. row = old /\ column = P + cursor
  BY DEF InStep
<1> HIDE DEF t, old, new, P
<1>10. Max({P + Size, (P + cursor) + ((Size + 1) - cursor)}) = P + (Size + 1)
  <2>1. (P + cursor) + ((Size + 1) - cursor) = P + (Size + 1)
    BY <1>1
  <2>2. \A x \in {P + Size, P + (Size + 1)} :
          (\A y \in {P + Size, P + (Size + 1)} : x >= y) <=> x = P + (Size + 1)
    BY <1>1
  <2> QED
    BY <2>1, <2>2 DEF Max
<1>11. Written(t) = new
  <2>1. Written(t) = [i \in 1..P + (Size + 1) |->
           IF i \in (P + cursor) + 1 .. (P + cursor) + ((Size + 1) - cursor)
           THEN t[i - (P + cursor)]
           ELSE IF i <= P + Size THEN old[i] ELSE Space]
    BY <1>5, <1>7, <1>9, <1>10 DEF Written
  <2>2. ASSUME NEW i \in 1..P + (Size + 1)
        PROVE  new[i] = IF i \in (P + cursor) + 1 .. (P + cursor) + ((Size + 1) - cursor)
                        THEN t[i - (P + cursor)]
                        ELSE IF i <= P + Size THEN old[i] ELSE Space
    <3>1. CASE i > P + cursor
      <4>1. /\ i \in (P + cursor) + 1 .. (P + cursor) + ((Size + 1) - cursor)
            /\ i - (P + cursor) \in 1..(Size + 1) - cursor
            /\ cursor + (i - (P + cursor)) = i - P /\ ~(i <= P)
        BY <1>1, <3>1
      <4>2. t[i - (P + cursor)] = command'[cursor + (i - (P + cursor))]
        BY <1>5, <4>1
      <4> QED
        BY <1>8, <4>1, <4>2
    <3>2. CASE ~(i > P + cursor)
      <4>1. /\ i \notin (P + cursor) + 1 .. (P + cursor) + ((Size + 1) - cursor)
            /\ i <= P + Size /\ i \in 1..P + Size
        BY <1>1, <3>2
      <4>2. ~(i <= P) => i - P \in 1..cursor
        BY <1>1, <3>2
      <4>3. new[i] = old[i]
        <5>1. ~(i <= P) => command'[i - P] = command[i - P]
          BY <1>4, <4>2
        <5> QED
          BY <1>7, <1>8, <4>1, <5>1
      <4> QED
        BY <4>1, <4>3
    <3> QED
      BY <3>1, <3>2
  <2>3. new = [i \in 1..P + (Size + 1) |-> new[i]]
    BY <1>8, LenProperties
  <2> QED
    BY <2>1, <2>2, <2>3
<1>12. row' = new /\ column' = P + cursor'
  <2>1. row' = Written(t) /\ column' = Clip(column + 1)
    <3>1. row' = Written(t) /\ column' = Clip(column + Len(t) - (Size - cursor))
      BY <1>2, <1>shown DEF Console
    <3>2. column + Len(t) - (Size - cursor) = column + 1
      BY <1>1, <1>5, <1>9
    <3> QED
      BY <3>1, <3>2
  <2>2. Clip((P + cursor) + 1) = P + (cursor + 1)
    <3>1. (P + cursor) + 1 \in Nat /\ (P + cursor) + 1 = P + (cursor + 1)
      BY <1>1
    <3> QED
      BY <3>1, ClipNat
  <2> QED
    BY <1>4, <1>9, <1>11, <2>1, <2>2
<1> QED
  BY <1>12, <1>shown DEF InStep, Odd, new, P

EditorInv == EditorTypes /\ (astray = {} => InStep)

\* The console after each key.
LEMMA ConsoleStep ==
  ASSUME EditorInv, [Next]_vars
  PROVE  (astray = {} => InStep)'
<1> SUFFICES ASSUME astray' = {}
             PROVE  InStep'
  OBVIOUS
<1>1. /\ EditorTypes /\ cursor \in Nat /\ cursor <= Size /\ Size \in Nat
      /\ Len(Prompt) \in Nat /\ Len(Prompt) > 0
      /\ astray = {} => InStep
  BY SizeNat, PromptNat DEF EditorInv
<1>text. command' \in Seq(Chars)
  BY <1>1, TypesStep DEF EditorTypes
<1>2. CASE UNCHANGED vars
  BY <1>1, <1>2 DEF vars, InStep, Odd
<1>3. CASE PutChar
  <2>1. astray = {}
    BY <1>3 DEF PutChar
  <2> QED
    BY <1>1, <1>3, <2>1, PutCharShows
<1>4. CASE PopChar
  <2>1. UpdateLine(command', cursor, 0) /\ cursor' = cursor - 1 /\ cursor > 0
    BY <1>4 DEF PopChar
  <2>2. cursor' = cursor + 0 - 1 /\ cursor' \in Nat /\ cursor \in Int
    BY <1>1, <2>1
  <2> QED
    BY <1>text, <2>1, <2>2, UpdateLineShows
<1>5. CASE PopWord
  <2>1. UpdateLine(command', cursor', 1)
    BY <1>5 DEF PopWord
  <2>2. cursor' \in Nat
    BY <1>1, <1>5, PopWordText, BecomesHalves
  <2>3. cursor' = cursor' + 1 - 1 /\ cursor' \in Int
    <3>1. \A n \in Nat : n = n + 1 - 1 /\ n \in Int
      OBVIOUS
    <3> QED
      BY <2>2, <3>1
  <2> QED
    BY <1>text, <2>1, <2>2, <2>3, UpdateLineShows
<1>6. CASE PopCharRight \/ PopWordRight
  <2>1. UpdateLine(command', cursor, 1) /\ cursor' = cursor
    BY <1>6 DEF PopCharRight, PopWordRight
  <2>2. cursor' = cursor + 1 - 1 /\ cursor' \in Nat /\ cursor \in Int
    BY <1>1, <2>1
  <2> QED
    BY <1>text, <2>1, <2>2, UpdateLineShows
<1>7. CASE ArrowLeft
  <2>1. PICK place \in 0..cursor - 1 : Move(place, column - (cursor - place))
    BY <1>1, <1>7, ArrowLeftPlace
  <2>2. astray = {}
    BY <1>1, <1>7, ArrowLeftPlace
  <2>3. place \in Nat /\ column - (cursor - place) = Len(Prompt) + place
    BY <1>1, <2>2 DEF InStep
  <2> QED
    BY <1>1, <2>1, <2>2, <2>3, MoveShows
<1>8. CASE ArrowRight
  <2>1. PICK place \in cursor + 1..Size : Move(place, column + (place - cursor))
    BY <1>1, <1>8, ArrowRightPlace
  <2>2. astray = {}
    BY <1>1, <1>8, ArrowRightPlace
  <2>3. place \in Nat /\ column + (place - cursor) = Len(Prompt) + place
    BY <1>1, <2>2 DEF InStep
  <2> QED
    BY <1>1, <2>1, <2>2, <2>3, MoveShows
<1>9. CASE Home
  <2>1. Move(0, SetCursorPosition(1)) /\ astray = {}
    BY <1>9 DEF Home
  <2>2. SetCursorPosition(1) = Len(Prompt) + 0 /\ 0 \in Nat
    BY <1>1 DEF SetCursorPosition
  <2> QED
    BY <1>1, <2>1, <2>2, MoveShows
<1>10. CASE End
  BY <1>10 DEF End
<1>11. CASE ArrowUp
  <2>1. SetLine(history[Len(history) - index])
    BY <1>11 DEF ArrowUp
  <2>2. history[Len(history) - index] \in Seq(Chars)
    BY <1>1, <1>11, ArrowUpText DEF Becomes
  <2> QED
    BY <2>1, <2>2, SetLineShows
<1>12. CASE ArrowDown
  <2>1. CASE \E k \in 1..Len(history) : Becomes(history[k], <<>>) /\ SetLine(history[k])
    BY <2>1, SetLineShows DEF Becomes
  <2>2. CASE Becomes(saved, <<>>) /\ SetLine(saved)
    BY <2>2, SetLineShows DEF Becomes
  <2>3. CASE UNCHANGED <<command, cursor, row, column, astray>>
    BY <1>1, <2>3 DEF InStep, Odd
  <2> QED
    BY <1>1, <1>12, <2>1, <2>2, <2>3, ArrowDownText
<1>13. CASE Enter \/ NewSession
  BY <1>13, NextCommandShows DEF Enter, NewSession
<1> QED
  BY <1>2, <1>3, <1>4, <1>5, <1>6, <1>7, <1>8, <1>9, <1>10, <1>11, <1>12, <1>13 DEF Next

LEMMA EditorInvInit == ASSUME Init PROVE EditorInv
<1>1. Prompt \o <<>> = Prompt /\ Len(Prompt) + 0 = Len(Prompt)
  BY EditorAssumption, ConcatEmptySeq, PromptNat DEF EditorAssumption
<1>2. Odd(<<>>) = {}
  BY DEF Odd
<1> QED
  BY <1>1, <1>2, TypesInit DEF Init, EditorInv, InStep, Odd

LEMMA EditorInvStep == ASSUME EditorInv, [Next]_vars PROVE EditorInv'
  BY TypesStep, ConsoleStep DEF EditorInv

THEOREM EditorInvAlways == Spec => []EditorInv
  BY EditorInvInit, EditorInvStep, PTL DEF Spec

\* "display it correctly in the console": for every prompt, alphabet and history,
\* after any keys, unless End was pressed since the line was last written again or
\* it holds a character that does not take one column.
THEOREM ConsoleIsInStep == Spec => []ConsoleShowsCommand
<1>1. EditorInv => ConsoleShowsCommand
  BY DEF EditorInv, ConsoleShowsCommand, InStep
<1> QED
  BY <1>1, EditorInvAlways, PTL

-----------------------------------------------------------------------------
(* The editor implements a TextBuffer: each key's text, as above, is that of a   *)
(* step of the buffer.                                                           *)

\* A move of the cursor leaves the text.
LEMMA MoveCursorStep ==
  ASSUME EditorTypes, NEW place \in 0..Size, NEW at, Move(place, at)
  PROVE  Buffer!MoveCursor
<1>1. Buffer!Text = command /\ Size = Len(command)
  BY BeforeBehind, SizeNat DEF Buffer!Text, Before, Behind
<1>2. command' = command /\ cursor' = place /\ UNCHANGED <<history, saved>>
  BY DEF Move, KeepHistory
<1>3. /\ SubSeq(command', 1, cursor') = SubSeq(Buffer!Text, 1, place)
      /\ SubSeq(command', cursor' + 1, Size') = SubSeq(Buffer!Text, place + 1, Len(Buffer!Text))
  BY <1>1, <1>2 DEF Size
<1>4. place \in 0..Len(Buffer!Text)
  BY <1>1
<1> QED
  BY <1>2, <1>3, <1>4 DEF Buffer!MoveCursor

\* A text that is shown from its end.
LEMMA RecallStep ==
  ASSUME NEW text, Becomes(text, <<>>), history' = history,
         saved' \in {saved, Buffer!Text},
         text \in Range(history) \cup {saved'}
  PROVE  Buffer!Recall
<1>1. Before' = text /\ Behind' = <<>>
  BY BecomesHalves
<1> QED
  BY <1>1 DEF Buffer!Recall, Buffer!Range, Range, Before, Behind

LEMMA TextOfBuffer == ASSUME EditorTypes PROVE Buffer!Text = command
  BY BeforeBehind DEF Buffer!Text, Before, Behind

\* A full history gives up its oldest command.
LEMMA OldestLeaves ==
  ASSUME NEW S, NEW h \in Seq(S), NEW e \in S, h # <<>>
  PROVE  Append(Tail(h), e) = Tail(Append(h, e))
<1> DEFINE t == Tail(h)  a == Append(t, e)  b == Append(h, e)  u == Tail(b)
<1>1. Len(h) \in Nat
  BY LenProperties
<1>2. t \in Seq(S) /\ Len(t) = Len(h) - 1 /\ \A i \in 1..Len(t) : t[i] = h[i + 1]
  BY HeadTailProperties
<1>3. /\ b \in Seq(S) /\ Len(b) = Len(h) + 1
      /\ \A i \in 1..Len(h) : b[i] = h[i]
      /\ b[Len(h) + 1] = e
  BY <1>1, AppendProperties
<1> HIDE DEF t, b
<1>4. /\ a \in Seq(S) /\ Len(a) = Len(t) + 1
      /\ \A i \in 1..Len(t) : a[i] = t[i]
      /\ a[Len(t) + 1] = e
  BY <1>2, LenProperties, AppendProperties
<1>5. b # <<>>
  BY <1>1, <1>3, EmptySeq
<1>6. u \in Seq(S) /\ Len(u) = Len(b) - 1 /\ \A i \in 1..Len(u) : u[i] = b[i + 1]
  BY <1>3, <1>5, HeadTailProperties
<1> HIDE DEF a, u
<1>7. Len(a) = Len(h) /\ Len(u) = Len(h)
  BY <1>1, <1>2, <1>3, <1>4, <1>6
<1>8. ASSUME NEW i \in 1..Len(h)
      PROVE  a[i] = u[i]
  <2>1. CASE i = Len(h)
    <3>1. Len(t) + 1 = i /\ i \in 1..Len(u)
      BY <1>1, <1>2, <1>7, <2>1
    <3>2. a[i] = e
      BY <1>4, <3>1
    <3>3. u[i] = b[i + 1]
      BY <1>6, <3>1
    <3> QED
      BY <1>3, <2>1, <3>2, <3>3
  <2>2. CASE i # Len(h)
    <3>1. i \in 1..Len(t) /\ i \in 1..Len(u) /\ i + 1 \in 1..Len(h)
      BY <1>1, <1>2, <1>7, <2>2
    <3> QED
      BY <1>2, <1>3, <1>4, <1>6, <3>1
  <2> QED
    BY <2>1, <2>2
<1> QED
  BY <1>4, <1>6, <1>7, <1>8, SeqEqual DEF a, b, t, u

\* Enter submits the text: the history is the past the buffer keeps.
LEMMA EnterStep ==
  ASSUME EditorTypes, Enter
  PROVE  Buffer!Submit
<1>1. Buffer!Text = command
  BY TextOfBuffer
<1>2. Before' = <<>> /\ Behind' = <<>> /\ saved' = saved
  BY NextCommandText, BecomesHalves DEF Enter
<1>3. history \in Seq(Seq(Chars)) /\ command \in Seq(Chars) /\ Len(history) \in Nat
      /\ MaxHistorySize \in Nat /\ MaxHistorySize > 0
  BY EditorAssumption, LenProperties DEF EditorTypes, EditorAssumption
<1>4. Added <=> ~(command = <<>> \/ (history # <<>> /\ Last(history) = command))
  BY DEF Added
<1>5. Len(history) >= MaxHistorySize => Append(Tail(history), command) = Tail(Append(history, command))
  <2>1. Len(history) >= MaxHistorySize => history # <<>>
    BY <1>3, EmptySeq
  <2> QED
    BY <1>3, <2>1, OldestLeaves
<1>6. (Len(history) >= MaxHistorySize) <=> ~(Len(history) < MaxHistorySize)
  BY <1>3
<1>7. history' = IF command = <<>> \/ (history # <<>> /\ Last(history) = command) THEN history
                 ELSE IF Len(history) < MaxHistorySize THEN Append(history, command)
                 ELSE Tail(Append(history, command))
  BY <1>4, <1>5, <1>6 DEF Enter
<1> QED
  BY <1>1, <1>2, <1>7 DEF Buffer!Submit, Buffer!Last, Last, Before, Behind

LEMMA NewSessionStep ==
  ASSUME EditorTypes, NewSession
  PROVE  Buffer!Reload \/ Split
<1> SUFFICES ASSUME ~Split
             PROVE  Buffer!Reload
  OBVIOUS
<1>1. Before' = <<>> /\ Behind' = <<>>
  BY NextCommandText, BecomesHalves DEF NewSession
<1>2. \A i \in DOMAIN history : Newline \notin Range(history[i])
  BY DEF Split
<1>3. history' = history /\ saved' = <<>>
  BY <1>2, SavedAsItIs DEF NewSession
<1> QED
  BY <1>1, <1>3 DEF Buffer!Reload, Before, Behind

\* The loop of popWord stops where the buffer's last blank is, one character too late.
LEMMA PopWordStep ==
  ASSUME EditorTypes, PopWord
  PROVE  OneTooMany
<1> DEFINE m == Max(Spaces(cursor))
           places == {i \in 0..Len(Before) : i = 0 \/ Before[i] = Space}
           kept == SubSeq(Before, 1, Max(places))
<1>1. /\ Before \in Seq(Chars) /\ Len(Before) = cursor /\ cursor \in Nat /\ cursor > 0
      /\ \A p \in 1..cursor : Before[p] = command[p]
  BY BeforeBehind, SizeNat DEF PopWord
<1>2. Before # <<>>
  BY <1>1, EmptySeq
<1>3. m \in 0..cursor
  BY <1>1, LastSpaceOf
<1>4. places = Spaces(cursor)
  <2>1. \A i \in 0..cursor : i = 0 \/ Before[i] = command[i]
    BY <1>1
  <2> QED
    BY <1>1, <2>1 DEF Spaces
<1>5. kept = SubSeq(Before, 1, m)
  BY <1>4
<1>6. UNCHANGED <<history, saved>>
  BY DEF PopWord, KeepHistory
<1>7. IF m = 0 THEN Becomes(<<>>, Rest(Behind))
      ELSE Becomes(SubSeq(Before, 1, m - 1), <<Space>> \o Rest(Behind))
  BY PopWordText
<1> HIDE DEF m
<1>8. \/ Before' = kept /\ Behind' = Rest(Behind)
      \/ kept # <<>> /\ Before' = Front(kept) /\ Behind' = <<Space>> \o Rest(Behind)
  <2>1. CASE m = 0
    <3>1. kept = <<>>
      <4>1. SubSeq(Before, 1, 0) = <<>>
        BY SubSeqEmpty
      <4> HIDE DEF kept
      <4> QED
        BY <1>5, <2>1, <4>1
    <3> QED
      BY <1>7, <2>1, <3>1, BecomesHalves
  <2>2. CASE m # 0
    <3> DEFINE w == SubSeq(Before, 1, m)
    <3>1. w \in Seq(Chars) /\ Len(w) = m /\ \A p \in 1..m : w[p] = Before[p]
      BY <1>1, <1>3, Halves
    <3>2. w # <<>>
      <4> HIDE DEF w
      <4> QED
        BY <2>2, <3>1, EmptySeq
    <3>3. Front(w) = SubSeq(Before, 1, m - 1)
      <4>1. m - 1 \in 0..Len(w) /\ m - 1 \in 0..Len(Before) /\ m - 1 \in Nat
            /\ m - 1 <= Len(w) /\ m - 1 <= Len(Before)
        BY <1>1, <1>3, <2>2, <3>1
      <4>2. \A p \in 1..m - 1 : w[p] = Before[p]
        BY <1>3, <3>1
      <4> HIDE DEF w
      <4>3. SubSeq(w, 1, m - 1) = SubSeq(Before, 1, m - 1)
        BY <1>1, <3>1, <4>1, <4>2, SubSeqSame
      <4> QED
        BY <3>1, <4>3 DEF Front
    <3> QED
      BY <1>5, <1>7, <2>2, <3>2, <3>3, BecomesHalves
  <2> QED
    BY <2>1, <2>2
<1> QED
  BY <1>2, <1>6, <1>8
  DEF OneTooMany, Buffer!EraseWord, Buffer!Max, Max, Buffer!Front, Front, Before, Behind

LEMMA BufferStep ==
  ASSUME EditorTypes, [Next]_vars
  PROVE  [Buffer!Next \/ OneTooMany \/ Split]_(Buffer!bufferVars)
<1>1. CASE UNCHANGED vars
  BY <1>1 DEF vars, Buffer!bufferVars, Size
<1>2. CASE PutChar
  <2>1. PICK c \in Chars : Becomes(Append(Before, c), Behind)
    BY <1>2, PutCharText
  <2>2. Before' = Append(Before, c) /\ Behind' = Behind
    BY <2>1, BecomesHalves
  <2>3. UNCHANGED <<history, saved>>
    BY <1>2 DEF PutChar, KeepHistory
  <2>4. Buffer!Type
    BY <2>2, <2>3 DEF Buffer!Type, Before, Behind
  <2> QED
    BY <2>4 DEF Buffer!Next
<1>3. CASE PopChar
  <2>1. Before # <<>> /\ Before' = Front(Before) /\ Behind' = Behind
    BY <1>3, PopCharText, BecomesHalves
  <2>2. UNCHANGED <<history, saved>>
    BY <1>3 DEF PopChar, KeepHistory
  <2>3. Buffer!EraseLeft
    BY <2>1, <2>2 DEF Buffer!EraseLeft, Buffer!Front, Front, Before, Behind
  <2> QED
    BY <2>3 DEF Buffer!Next
<1>4. CASE PopWord
  BY <1>4, PopWordStep
<1>5. CASE PopCharRight
  <2>1. Behind # <<>> /\ Before' = Before /\ Behind' = Tail(Behind)
    BY <1>5, PopCharRightText, BecomesHalves
  <2>2. UNCHANGED <<history, saved>>
    BY <1>5 DEF PopCharRight, KeepHistory
  <2>3. Buffer!EraseRight
    BY <2>1, <2>2 DEF Buffer!EraseRight, Before, Behind
  <2> QED
    BY <2>3 DEF Buffer!Next
<1>6. CASE PopWordRight
  <2> DEFINE blanks == {i \in 2..Len(Behind) : Behind[i] = Space}
             rest == IF blanks = {} THEN <<>> ELSE SubSeq(Behind, Min(blanks), Len(Behind))
  <2>1. Behind # <<>> /\ Becomes(Before, rest)
    BY <1>6, PopWordRightText
  <2> HIDE DEF rest
  <2>2. Before' = Before /\ Behind' = rest
    BY <2>1, BecomesHalves
  <2>3. UNCHANGED <<history, saved>>
    BY <1>6 DEF PopWordRight, KeepHistory
  <2>4. Buffer!EraseWordRight
    BY <2>1, <2>2, <2>3 DEF rest, Buffer!EraseWordRight, Buffer!Min, Min, Before, Behind
  <2> QED
    BY <2>4 DEF Buffer!Next
<1>7. CASE ArrowLeft
  <2>1. PICK place \in 0..cursor - 1 : Move(place, column - (cursor - place))
    BY <1>7, ArrowLeftPlace
  <2>2. place \in 0..Size
    BY SizeNat
  <2> QED
    BY <2>1, <2>2, MoveCursorStep DEF Buffer!Next
<1>8. CASE ArrowRight
  <2>1. PICK place \in cursor + 1..Size : Move(place, column + (place - cursor))
    BY <1>8, ArrowRightPlace
  <2>2. place \in 0..Size
    BY SizeNat
  <2> QED
    BY <2>1, <2>2, MoveCursorStep DEF Buffer!Next
<1>9. CASE Home
  <2>1. Move(0, SetCursorPosition(1)) /\ 0 \in 0..Size
    BY <1>9, SizeNat DEF Home
  <2> QED
    BY <2>1, MoveCursorStep DEF Buffer!Next
<1>10. CASE End
  <2>1. Move(Size, SetCursorPosition(Size)) /\ Size \in 0..Size
    BY <1>10, SizeNat DEF End
  <2> QED
    BY <2>1, MoveCursorStep DEF Buffer!Next
<1>11. CASE ArrowUp
  <2> DEFINE k == Len(history) - index
  <2>1. Becomes(history[k], <<>>) /\ k \in 1..Len(history)
    BY <1>11, ArrowUpText
  <2>2. history' = history /\ saved' \in {saved, Buffer!Text}
    BY <1>11, TextOfBuffer DEF ArrowUp
  <2>3. history[k] \in Range(history)
    <3>1. DOMAIN history = 1..Len(history)
      BY LenProperties DEF EditorTypes
    <3> QED
      BY <2>1, <3>1 DEF Range
  <2> QED
    BY <2>1, <2>2, <2>3, RecallStep DEF Buffer!Next
<1>12. CASE ArrowDown
  <2>1. UNCHANGED <<history, saved>>
    BY <1>12, ArrowDownText
  <2>2. CASE \E k \in 1..Len(history) : Becomes(history[k], <<>>)
    <3>1. PICK k \in 1..Len(history) : Becomes(history[k], <<>>)
      BY <2>2
    <3>2. DOMAIN history = 1..Len(history)
      BY LenProperties DEF EditorTypes
    <3>3. history[k] \in Range(history)
      BY <3>1, <3>2 DEF Range
    <3> QED
      BY <2>1, <3>1, <3>3, RecallStep DEF Buffer!Next
  <2>3. CASE Becomes(saved, <<>>)
    BY <2>1, <2>3, RecallStep DEF Buffer!Next
  <2>4. CASE UNCHANGED <<command, cursor>>
    BY <2>1, <2>4 DEF Buffer!bufferVars, Size
  <2> QED
    BY <1>12, <2>2, <2>3, <2>4, ArrowDownText
<1>13. CASE Enter
  BY <1>13, EnterStep DEF Buffer!Next
<1>14. CASE NewSession
  BY <1>14, NewSessionStep DEF Buffer!Next
<1> QED
  BY <1>1, <1>2, <1>3, <1>4, <1>5, <1>6, <1>7, <1>8, <1>9, <1>10, <1>11, <1>12, <1>13,
     <1>14 DEF Next

LEMMA BufferInit == ASSUME Init PROVE Buffer!Init
<1>1. command = <<>> /\ cursor = 0 /\ Size = 0
  BY EmptySeq DEF Init, Size
<1>2. SubSeq(command, 1, cursor) = <<>> /\ SubSeq(command, cursor + 1, Size) = <<>>
  BY <1>1, SubSeqEmpty
<1> QED
  BY <1>2 DEF Init, Buffer!Init

\* Whatever is typed, erased, recalled and entered, the command is the text of a
\* TextBuffer cut at the cursor: the loops of popWord and popWordRight erase the
\* word they should, popWord the character under the cursor as well, moves lose
\* nothing, and the history is the buffer's past, in the next session too unless a
\* command holds a line end.
THEOREM EditorImplementsTextBuffer == Spec => ImplementsTextBuffer
<1>1. EditorInv => EditorTypes
  BY DEF EditorInv
<1> QED
  BY <1>1, BufferInit, BufferStep, EditorInvAlways, PTL DEF Spec, ImplementsTextBuffer


-----------------------------------------------------------------------------
(* The terminal *)

\* As long as rawMode and normalMode come in pairs, the global of the module
\* holds the user's settings between the two, and outside of the two they are in
\* force or in getChar's hands.  After the end of the keys only a program that met the end
\* itself is still run.
TerminalInv ==
  /\ ~misused /\ ~shown => held = Cooked
  /\ ~misused => held \in {Zeroed, Cooked}
  /\ ~misused /\ shown =>
       /\ activity \in {"typing", "running"} => tty = Cooked
       /\ activity = "reading" => oldt = Cooked /\ tty.waits
  /\ activity \in {"typing", "reading", "running"}
  /\ atEnd => activity # "running" \/ metEnd
  /\ atEnd => ~shown \/ misused \/ metEnd
  /\ shown \in BOOLEAN /\ misused \in BOOLEAN /\ atEnd \in BOOLEAN /\ metEnd \in BOOLEAN

LEMMA TerminalStarts == TerminalInit => TerminalInv
  BY DEF TerminalInit, TerminalInv, Cooked, Zeroed

LEMMA TerminalStep == TerminalInv /\ [TerminalNext]_terminalVars => TerminalInv'
<1> SUFFICES ASSUME TerminalInv, [TerminalNext]_terminalVars
             PROVE  TerminalInv'
  OBVIOUS
<1> USE DEF TerminalInv
<1>1. CASE RawMode
  BY <1>1 DEF RawMode
<1>2. CASE NormalMode
  BY <1>2 DEF NormalMode, Cooked, Zeroed
<1>3. CASE StartRead
  BY <1>3 DEF StartRead, Cooked
<1>4. CASE KeyRead
  BY <1>4 DEF KeyRead, EndRead
<1>5. CASE NothingRead
  BY <1>5 DEF NothingRead, EndRead
<1>6. CASE CommandDone
  BY <1>6 DEF CommandDone
<1>7. CASE ProgramMeetsEnd
  BY <1>7 DEF ProgramMeetsEnd
<1>8. CASE UNCHANGED terminalVars
  BY <1>8 DEF terminalVars
<1> QED
  BY <1>1, <1>2, <1>3, <1>4, <1>5, <1>6, <1>7, <1>8 DEF TerminalNext

\* A program that brackets what it does by one rawMode and one normalMode finds
\* the terminal as it was, and the shell is deaf only if it read keys between the
\* two, if they do not pair, or if the program's own read met the end (rawMode,
\* normalMode, :getChr, :input, Shell::getChar).
THEOREM TerminalComesBack == TerminalSpec => []TerminalRestored
<1>1. TerminalInv => TerminalRestored
  BY DEF TerminalInv, TerminalRestored
<1> QED
  BY <1>1, TerminalStarts, TerminalStep, PTL DEF TerminalSpec

-----------------------------------------------------------------------------
(* The session *)

\* The values behind the names, none of them gone.
Alive == names \in [SessionNames -> NameStates \ {"destroyed"}]

\* What a variable holds after a command is its own: copyTokenValues runs before
\* the tokens go, whatever the command did.
THEOREM NamesStay == SessionSpec => []NamesOutliveTheirCommand
<1>1. SessionInit => Alive
  BY DEF SessionInit, Alive, NameStates
<1>2. Alive /\ [SessionNext]_sessionVars => Alive'
  <2> SUFFICES ASSUME Alive, [SessionNext]_sessionVars
               PROVE  Alive'
    OBVIOUS
  <2>1. CASE Bind
    BY <2>1 DEF Bind, Alive, NameStates
  <2>2. CASE Change
    BY <2>2 DEF Change, Alive, NameStates
  <2>3. CASE Display
    BY <2>3 DEF Display, Finish, Copied, Destroyed, Alive, NameStates
  <2>4. CASE UNCHANGED names
    BY <2>4 DEF Alive
  <2>5. \/ UserTypes \/ Tokenize \/ LexFails \/ LexThrows \/ LexSucceeds
        \/ EndLine \/ Fail \/ EndRun \/ UNCHANGED sessionVars
        => UNCHANGED names
    BY DEF UserTypes, ReadCommand, ReadLine, TakeLine, Tokenize, LexFails, LexFailsTo,
           LexThrows, LexSucceeds, EndLine, Fail, EndRun, sessionVars, valueVars
  <2> QED
    BY <2>1, <2>2, <2>3, <2>4, <2>5 DEF SessionNext, ShellWorks, Run
<1>3. Alive => NamesOutliveTheirCommand
  BY DEF Alive, NamesOutliveTheirCommand
<1> QED
  BY <1>1, <1>2, <1>3, PTL DEF SessionSpec

\* The lapses that let the line number outgrow the history, and those that leave
\* a last value that is no more, or one that may be.
Overlooked == {"empty command", "repeated", "full"}
Stale  == {"literal", "part", "by a block"}
Causes == Stale \cup {"entangled"}

\* Without a lapse the history is as long as the line number, from the first
\* command on that is not empty, since each line that is counted is added to it;
\* an empty command has no errors and asks for no lines.
HistoryKeepsUp ==
  /\ lineNumber \in Nat
  /\ entered.size \in 0..HistoryCap
  /\ lapses \cap Overlooked = {} =>
       lineNumber <= entered.size + (IF instruction = Nothing THEN 1 ELSE 0)
  /\ errorLine # 0 => instruction # Nothing /\ phase = "display"
  /\ phase \in {"first line", "line"} => instruction # Nothing

\* What the values and the texts are explains itself by a lapse.
Explained ==
  /\ names \in [SessionNames -> NameStates]
  /\ lastValue \in {"literal", "part"} => lastValue \in lapses
  /\ lastValue = "destroyed" => lapses \cap Stale # {}
  /\ Doubtful # {} => "entangled" \in lapses
  /\ unfit \/ instruction = Unfit => "unfit" \in lapses

SessionInv == HistoryKeepsUp /\ Explained /\ SessionSurvives

LEMMA Cap == HistoryCap \in Nat /\ LoadedLines \subseteq 0..HistoryCap
  BY SessionAssumption

LEMMA CapNat == HistoryCap \in Nat
  BY Cap

LEMMA SessionStarts == SessionInit => SessionInv
<1> SUFFICES ASSUME SessionInit PROVE SessionInv
  OBVIOUS
<1>1. /\ entered.size \in LoadedLines /\ lineNumber = 1
      /\ phase = "first read" /\ instruction = Nothing /\ errorLine = 0
  BY DEF SessionInit
<1>2. entered.size \in 0..HistoryCap
  BY <1>1, Cap
<1>3. HistoryKeepsUp
  <2>0. lineNumber = 1
    BY <1>1
  <2>1. lineNumber \in Nat /\ lineNumber <= entered.size + 1
    BY <2>0, <1>2, CapNat
  <2> QED
    BY <1>1, <1>2, <2>1 DEF HistoryKeepsUp
<1>4. Explained
  BY DEF SessionInit, Explained, NameStates, Doubtful, Nothing, Unfit
<1>5. SessionSurvives
  BY DEF SessionInit, SessionSurvives, OutOfRange, ReadDestroyed, LexThrew
<1> QED
  BY <1>3, <1>4, <1>5 DEF SessionInv

\* A line is added to the history unless it is empty, repeated or one too many.
LEMMA LineAdded ==
  ASSUME NEW text, entered.size \in 0..HistoryCap, AddToHistory(text)
  PROVE  /\ entered'.size \in 0..HistoryCap
         /\ entered'.size >= entered.size
         /\ text # Nothing /\ ~Repeated(text) /\ entered.size # HistoryCap
              => entered'.size = entered.size + 1
<1>1. CASE text = Nothing \/ Repeated(text)
  BY <1>1 DEF AddToHistory
<1>2. CASE ~(text = Nothing \/ Repeated(text))
  <2>1. entered'.size = IF entered.size < HistoryCap THEN entered.size + 1 ELSE HistoryCap
    BY <1>2 DEF AddToHistory
  <2> QED
    BY <1>2, <2>1, CapNat
<1> QED
  BY <1>1, <1>2

\* What may be gone has its cause.
LEMMA GoneExplained ==
  ASSUME Explained
  PROVE  /\ MayBeGone(lastValue) => lapses \cap Causes # {}
         /\ Doubtful # {} => lapses \cap Causes # {}
  BY DEF Explained, MayBeGone, Doubtful, Causes, Stale

\* What a step keeps that reads a line and adds it to the history.
LEMMA Carried ==
  ASSUME Explained', phase' \in {"over", "tokenize", "lex", "line", ReadDestroyed},
         phase' = ReadDestroyed => lapses' \cap Causes # {},
         lineNumber' \in Nat, entered'.size \in 0..HistoryCap,
         lapses' \cap Overlooked = {} =>
           lineNumber' <= entered'.size + (IF instruction' = Nothing THEN 1 ELSE 0),
         errorLine' = 0, phase' = "line" => instruction' # Nothing
  PROVE  SessionInv'
<1>1. SessionSurvives'
  BY DEF SessionSurvives, OutOfRange, ReadDestroyed, LexThrew, Causes, Stale
<1>2. HistoryKeepsUp'
  BY DEF HistoryKeepsUp, ReadDestroyed
<1> QED
  BY <1>1, <1>2 DEF SessionInv

\* What a step keeps that reads no line.
LEMMA Unmoved ==
  ASSUME HistoryKeepsUp, UNCHANGED <<lineNumber, entered, instruction>>,
         errorLine' # 0 => instruction # Nothing /\ phase' = "display",
         phase' = "first line" => instruction # Nothing,
         lapses' \cap Overlooked = lapses \cap Overlooked,
         phase' \in {"tokenize", "first line", "lex", "read", "run", "display",
                     ReadDestroyed, LexThrew},
         phase' = ReadDestroyed => lapses' \cap Causes # {},
         phase' = LexThrew => "unfit" \in lapses',
         Explained'
  PROVE  SessionInv'
<1>1. phase' \notin {"line", OutOfRange}
  BY DEF ReadDestroyed, OutOfRange, LexThrew
<1>2. HistoryKeepsUp'
  BY <1>1 DEF HistoryKeepsUp
<1>3. SessionSurvives'
  BY <1>1 DEF SessionSurvives, Causes, Stale
<1> QED
  BY <1>2, <1>3 DEF SessionInv

\* The parts of the invariant for the values keep when the values do.
LEMMA ExplainedKept ==
  ASSUME Explained, UNCHANGED <<names, lastValue>>, lapses \subseteq lapses',
         unfit' \/ instruction' = Unfit => "unfit" \in lapses'
  PROVE  Explained'
<1>1. Doubtful' = Doubtful
  BY DEF Doubtful
<1> QED
  BY <1>1 DEF Explained, Stale

\* What a binding leaves of the last value.
LEMMA HeldExplained ==
  ASSUME Explained, NEW n \in SessionNames, NEW by \in {"assignment", "block"},
         NEW value \in Held(n, by)
  PROVE  /\ value \in {"null", "destroyed", "part", lastValue}
         /\ value = "destroyed" => lapses \cap Stale # {} \/ (lastValue = n /\ by = "block")
<1>1. CASE lastValue # n
  BY <1>1 DEF Held, Remains, Explained, Stale
<1>2. CASE lastValue = n
  BY <1>2 DEF Held
<1> QED
  BY <1>1, <1>2

LEMMA BindExplained ==
  ASSUME Explained, Bind
  PROVE  /\ Explained'
         /\ phase' = ReadDestroyed => lapses' \cap Causes # {}
         /\ lapses' \cap Overlooked = lapses \cap Overlooked
<1>1. PICK n \in SessionNames, state \in {"literal", "own", "entangled"},
           by \in {"assignment", "block"} :
        /\ names' = [names EXCEPT ![n] = state]
        /\ lastValue' \in Held(n, by)
        /\ Goes("run", n \in Doubtful)
        /\ lapses' = lapses \cup (IF state = "entangled" THEN {"entangled"} ELSE {})
                            \cup (IF lastValue' = "part" THEN {"part"} ELSE {})
                            \cup (IF lastValue = n /\ by = "block" THEN {"by a block"} ELSE {})
  BY DEF Bind
<1>2. lapses \subseteq lapses' /\ lapses' \cap Overlooked = lapses \cap Overlooked
  BY <1>1 DEF Overlooked
<1>3. UNCHANGED <<instruction, unfit>>
  BY DEF Bind, RunKeeps, tokenVars
<1>4. names' \in [SessionNames -> NameStates]
  BY <1>1 DEF Explained, NameStates
<1>5. Doubtful' # {} => "entangled" \in lapses'
  BY <1>1, <1>2 DEF Doubtful, Explained
<1>6. lastValue' \in {"literal", "part"} => lastValue' \in lapses'
  BY <1>1, <1>2, HeldExplained DEF Explained
<1>7. lastValue' = "destroyed" => lapses' \cap Stale # {}
  BY <1>1, <1>2, HeldExplained DEF Stale
<1>8. Explained'
  BY <1>2, <1>3, <1>4, <1>5, <1>6, <1>7 DEF Explained
<1>9. phase' = ReadDestroyed => Doubtful # {}
  BY <1>1 DEF Goes, ReadDestroyed
<1> QED
  BY <1>2, <1>8, <1>9, GoneExplained DEF Causes, Stale

LEMMA ChangeExplained ==
  ASSUME Explained, Change
  PROVE  /\ Explained'
         /\ phase' = ReadDestroyed => lapses' \cap Causes # {}
         /\ lapses' \cap Overlooked = lapses \cap Overlooked
<1>1. PICK shared \in SUBSET {n \in SessionNames : names[n] = "own"} :
        /\ names' = [n \in SessionNames |-> IF n \in shared THEN "entangled" ELSE names[n]]
        /\ lapses' = lapses \cup (IF shared # {} THEN {"entangled"} ELSE {})
  BY DEF Change
<1>2. lapses \subseteq lapses' /\ lapses' \cap Overlooked = lapses \cap Overlooked
  BY <1>1 DEF Overlooked
<1>3. UNCHANGED <<instruction, unfit>> /\ lastValue' \in Remains(lastValue)
  BY DEF Change, RunKeeps, tokenVars
<1>4. names' \in [SessionNames -> NameStates]
  BY <1>1 DEF Explained, NameStates
<1>5. Doubtful' # {} => "entangled" \in lapses'
  BY <1>1, <1>2 DEF Doubtful, Explained
<1>6. /\ lastValue' \in {"literal", "part"} => lastValue' \in lapses'
      /\ lastValue' = "destroyed" => lapses' \cap Stale # {}
  BY <1>2, <1>3 DEF Explained, Remains, Stale
<1>7. Explained'
  BY <1>2, <1>3, <1>4, <1>5, <1>6 DEF Explained
<1>8. phase' = ReadDestroyed => Doubtful # {}
  BY DEF Change, Goes, ReadDestroyed
<1> QED
  BY <1>2, <1>7, <1>8, GoneExplained DEF Causes, Stale

LEMMA EndLineExplained ==
  ASSUME Explained, EndLine
  PROVE  /\ Explained'
         /\ phase' = ReadDestroyed => lapses' \cap Causes # {}
         /\ lapses' \cap Overlooked = lapses \cap Overlooked
<1>1. lapses' = lapses \cup ({lastValue'} \cap {"literal", "part"})
  BY DEF EndLine
<1>2. lapses \subseteq lapses' /\ lapses' \cap Overlooked = lapses \cap Overlooked
  BY <1>1 DEF Overlooked
<1>3. UNCHANGED <<instruction, unfit, names>>
  BY DEF EndLine, RunKeeps, tokenVars
<1>4. lastValue' # "destroyed"
  BY SessionAssumption DEF EndLine, LineResults
<1>5. Doubtful' = Doubtful
  BY <1>3 DEF Doubtful
<1>6. lastValue' \in {"literal", "part"} => lastValue' \in lapses'
  BY <1>1
<1>7. Explained'
  BY <1>2, <1>3, <1>4, <1>5, <1>6 DEF Explained
<1>8. phase' = ReadDestroyed => MayBeGone(lastValue)
  BY DEF EndLine, Goes, ReadDestroyed
<1> QED
  BY <1>2, <1>7, <1>8, GoneExplained DEF Causes, Stale

LEMMA RunStays == ASSUME SessionInv, Run PROVE SessionInv'
<1>1. HistoryKeepsUp /\ Explained
  BY DEF SessionInv
<1>2. CASE Bind
  <2>1. /\ UNCHANGED <<lineNumber, entered, instruction, errorLine>>
        /\ phase = "run" /\ phase' \in {"run", ReadDestroyed}
    BY <1>2 DEF Bind, RunStep, RunKeeps, Goes
  <2>2. errorLine' = 0
    BY <1>1, <2>1 DEF HistoryKeepsUp
  <2> QED
    BY <1>1, <1>2, <2>1, <2>2, BindExplained, Unmoved DEF ReadDestroyed, LexThrew
<1>3. CASE Change
  <2>1. /\ UNCHANGED <<lineNumber, entered, instruction, errorLine>>
        /\ phase = "run" /\ phase' \in {"run", ReadDestroyed}
    BY <1>3 DEF Change, RunStep, RunKeeps, Goes
  <2>2. errorLine' = 0
    BY <1>1, <2>1 DEF HistoryKeepsUp
  <2> QED
    BY <1>1, <1>3, <2>1, <2>2, ChangeExplained, Unmoved DEF ReadDestroyed, LexThrew
<1>4. CASE EndLine
  <2>1. /\ UNCHANGED <<lineNumber, entered, instruction, errorLine>>
        /\ phase = "run" /\ phase' \in {"run", ReadDestroyed}
    BY <1>4 DEF EndLine, RunStep, RunKeeps, Goes
  <2>2. errorLine' = 0
    BY <1>1, <2>1 DEF HistoryKeepsUp
  <2> QED
    BY <1>1, <1>4, <2>1, <2>2, EndLineExplained, Unmoved DEF ReadDestroyed, LexThrew
<1>5. CASE Fail \/ EndRun
  <2>1. /\ phase = "run" /\ phase' = "display"
        /\ UNCHANGED <<lineNumber, entered, names, lastValue, instruction, unfit, lapses>>
    BY <1>5 DEF Fail, EndRun, RunStep, RunKeeps, tokenVars, valueVars
  <2>2. Explained'
    BY <1>1, <2>1, ExplainedKept DEF Explained
  <2>3. errorLine' # 0 => instruction # Nothing
    BY <1>1, <1>5 DEF Fail, EndRun, RunStep, HistoryKeepsUp
  <2> QED
    BY <1>1, <2>1, <2>2, <2>3, Unmoved DEF ReadDestroyed, LexThrew
<1> QED
  BY <1>2, <1>3, <1>4, <1>5 DEF Run

LEMMA DisplayStays == ASSUME SessionInv, Display PROVE SessionInv'
<1>1. HistoryKeepsUp /\ Explained
  BY DEF SessionInv
<1>2. /\ phase = "display" /\ phase' \in Shown
      /\ UNCHANGED <<lineNumber, entered, lapses, instruction>> /\ unfit' = FALSE
      /\ errorLine' = 0
  BY DEF Display, Finish, NoTokens
<1>3. phase' = OutOfRange => lineNumber > entered.size /\ errorLine # 0
  BY <1>2 DEF Shown, OutOfRange, ReadDestroyed
<1>4. phase' = OutOfRange => lapses \cap Overlooked # {}
  <2>1. lapses \cap Overlooked = {} /\ errorLine # 0 => lineNumber <= entered.size + 0
    BY <1>1, <1>2 DEF HistoryKeepsUp
  <2>2. ~(lineNumber > entered.size /\ lineNumber <= entered.size + 0)
    <3>1. lineNumber \in Nat /\ entered.size \in 0..HistoryCap
      BY <1>1 DEF HistoryKeepsUp
    <3> QED
      BY <3>1, CapNat
  <2> QED
    BY <1>3, <2>1, <2>2
<1>5. phase' = ReadDestroyed => MayBeGone(lastValue) \/ Doubtful # {}
  BY <1>2 DEF Shown, OutOfRange, ReadDestroyed
<1>6. phase' \notin {"first line", "line", LexThrew}
  BY <1>2 DEF Shown, OutOfRange, ReadDestroyed, LexThrew
<1>7. HistoryKeepsUp'
  BY <1>1, <1>2, <1>6 DEF HistoryKeepsUp
<1>8. names' = [n \in SessionNames |-> Destroyed(Copied[n])]
  BY DEF Display, Finish
<1>9. names' \in [SessionNames -> NameStates]
  BY <1>1, <1>8 DEF Copied, Destroyed, Explained, NameStates
<1>10. Doubtful' \subseteq Doubtful
  BY <1>8 DEF Copied, Destroyed, Doubtful
<1>11. lastValue' = IF lastValue = "result" THEN "null" ELSE Destroyed(lastValue)
  BY DEF Display, Finish
<1>12. /\ lastValue' \in {"literal", "part"} => lastValue' \in lapses'
       /\ lastValue' = "destroyed" => lapses' \cap Stale # {}
  BY <1>1, <1>2, <1>11 DEF Destroyed, Explained, Stale
<1>13. Explained'
  BY <1>1, <1>2, <1>9, <1>10, <1>12 DEF Explained
<1>14. SessionSurvives'
  BY <1>1, <1>2, <1>4, <1>5, <1>6, GoneExplained
  DEF SessionSurvives, Overlooked, Causes, Stale
<1> QED
  BY <1>7, <1>13, <1>14 DEF SessionInv

LEMMA SessionStep == SessionInv /\ [SessionNext]_sessionVars => SessionInv'
<1> SUFFICES ASSUME SessionInv, [SessionNext]_sessionVars
             PROVE  SessionInv'
  OBVIOUS
<1>a. HistoryKeepsUp /\ Explained /\ SessionSurvives
  BY DEF SessionInv
<1>b. lineNumber \in Nat /\ entered.size \in 0..HistoryCap
  BY <1>a DEF HistoryKeepsUp
<1>1. ASSUME NEW text \in Texts, ReadCommand(text)
      PROVE  SessionInv'
  <2>1. entered'.size \in 0..HistoryCap /\ entered'.size >= entered.size
    BY <1>1, <1>b, LineAdded DEF ReadCommand
  <2>2. lapses \subseteq lapses' /\ UNCHANGED <<names, lastValue, unfit>>
    BY <1>1 DEF ReadCommand, Lapse, valueVars, tokenVars
  <2>3. lineNumber' = lineNumber \/ (lineNumber' = lineNumber + 1 /\ text = Nothing)
    BY <1>1 DEF ReadCommand
  <2>4. ASSUME lapses' \cap Overlooked = {}
        PROVE  lineNumber' <= entered'.size + (IF text = Nothing THEN 1 ELSE 0)
    <3>1. ~Repeated(text) /\ entered.size # HistoryCap
      BY <1>1, <2>4 DEF ReadCommand, Lapse, Overlooked
    <3>2. phase = "first read" \/ text # Nothing
      BY <1>1, <2>4 DEF ReadCommand, Lapse, Overlooked
    <3>3. lineNumber' = lineNumber
      BY <1>1, <3>2 DEF ReadCommand
    <3>4. \E k \in {0, 1} : lineNumber <= entered.size + k
      BY <1>a, <2>2, <2>4 DEF HistoryKeepsUp
    <3>5. text # Nothing => entered'.size = entered.size + 1
      BY <1>1, <1>b, <3>1, LineAdded DEF ReadCommand
    <3> HIDE <1>1
    <3> QED
      BY <1>b, <2>1, <3>3, <3>4, <3>5, CapNat
  <2>5. lineNumber' \in Nat
    BY <1>b, <2>3
  <2>6. instruction' = Unfit => "unfit" \in lapses'
    BY <1>1 DEF ReadCommand, Lapse
  <2>7. Explained'
    BY <1>a, <2>2, <2>6, ExplainedKept DEF Explained
  <2>8. /\ phase' \in {"over", "tokenize", ReadDestroyed}
        /\ phase' = ReadDestroyed => MayBeGone(lastValue) \/ Doubtful # {}
    BY <1>1 DEF ReadCommand, Goes, ReadDestroyed
  <2>9. phase' = ReadDestroyed => lapses' \cap Causes # {}
    BY <1>a, <2>2, <2>8, GoneExplained
  <2>10. instruction' = text /\ errorLine' = 0
    BY <1>1, <1>a DEF ReadCommand, HistoryKeepsUp
  <2> HIDE <1>1
  <2> QED
    BY <2>1, <2>4, <2>5, <2>7, <2>8, <2>9, <2>10, Carried DEF ReadDestroyed
<1>2. ASSUME NEW text \in Texts, ReadLine(text)
      PROVE  SessionInv'
  <2> DEFINE count == IF text = Nothing THEN 0 ELSE 1
  <2>1. entered'.size \in 0..HistoryCap /\ entered'.size >= entered.size
    BY <1>2, <1>b, LineAdded DEF ReadLine, TakeLine
  <2>2. /\ lapses \subseteq lapses' /\ phase' \in {"tokenize", "lex", "line"}
        /\ UNCHANGED <<names, lastValue, instruction>>
    BY <1>2 DEF ReadLine, TakeLine, Lapse, valueVars
  <2>3. lineNumber' = lineNumber + count
    BY <1>2 DEF ReadLine, TakeLine
  <2>4. ASSUME lapses' \cap Overlooked = {}
        PROVE  lineNumber' <= entered'.size
    <3>1. ~Repeated(text) /\ entered.size # HistoryCap
      BY <1>2, <2>4 DEF ReadLine, TakeLine, Lapse, Overlooked
    <3>2. instruction # Nothing
      BY <1>2, <1>a DEF ReadLine, HistoryKeepsUp
    <3>3. lineNumber <= entered.size
      <4>1. lineNumber <= entered.size + 0
        BY <1>a, <2>2, <2>4, <3>2 DEF HistoryKeepsUp
      <4> QED
        BY <1>b, <4>1, CapNat
    <3>4. text # Nothing => entered'.size = entered.size + 1
      BY <1>2, <1>b, <3>1, LineAdded DEF ReadLine, TakeLine
    <3> HIDE <1>2
    <3> QED
      BY <1>b, <2>1, <2>3, <3>3, <3>4, CapNat
  <2>5. lineNumber' \in Nat
    BY <1>b, <2>3
  <2>6. unfit' \/ instruction' = Unfit => "unfit" \in lapses'
    BY <1>2, <1>a DEF ReadLine, TakeLine, Lapse, Explained
  <2>7. Explained'
    BY <1>a, <2>2, <2>6, ExplainedKept
  <2>8. instruction # Nothing /\ errorLine' = 0
    BY <1>2, <1>a DEF ReadLine, TakeLine, HistoryKeepsUp
  <2>9. lapses' \cap Overlooked = {} => lineNumber' <= entered'.size + 0
    BY <2>1, <2>4, <2>5, CapNat
  <2> HIDE <1>2
  <2> QED
    BY <2>1, <2>2, <2>5, <2>7, <2>8, <2>9, Carried DEF ReadDestroyed
<1>3. CASE Tokenize \/ LexFails \/ LexThrows \/ LexSucceeds
  <2>1. /\ phase # "display"
        /\ UNCHANGED <<lineNumber, entered, names, lastValue, instruction, lapses, errorLine>>
        /\ unfit' \in {unfit, FALSE, unfit \/ instruction = Unfit}
    BY <1>3 DEF Tokenize, LexFails, LexFailsTo, LexThrows, LexSucceeds, NoTokens, valueVars,
               tokenVars
  <2>2. /\ phase' \in {"tokenize", "first line", "lex", "read", "run", ReadDestroyed, LexThrew}
        /\ phase' = ReadDestroyed => MayBeGone(lastValue)
        /\ phase' = LexThrew => unfit
        /\ phase' = "first line" => instruction # Nothing
    BY <1>3 DEF Tokenize, LexFails, LexFailsTo, LexThrows, LexSucceeds, Goes, ReadDestroyed,
               LexThrew, Opens, Nothing
  <2>3. Explained'
    BY <1>a, <2>1, ExplainedKept DEF Explained
  <2>4. phase' = ReadDestroyed => lapses' \cap Causes # {}
    BY <1>a, <2>1, <2>2, GoneExplained
  <2>5. phase' = LexThrew => "unfit" \in lapses'
    BY <1>a, <2>1, <2>2 DEF Explained
  <2>6. errorLine' = 0
    BY <1>a, <2>1 DEF HistoryKeepsUp
  <2> HIDE <1>3
  <2> QED
    BY <1>a, <2>1, <2>2, <2>3, <2>4, <2>5, <2>6, Unmoved
<1>4. CASE Run
  BY <1>4, RunStays
<1>5. CASE Display
  BY <1>5, DisplayStays
<1>6. CASE UNCHANGED sessionVars
  <2>1. Doubtful' = Doubtful
    BY <1>6 DEF sessionVars, valueVars, Doubtful
  <2> QED
    BY <1>6, <1>a, <2>1
    DEF sessionVars, valueVars, tokenVars, SessionInv, HistoryKeepsUp, Explained,
        SessionSurvives
<1> QED
  BY <1>1, <1>2, <1>3, <1>4, <1>5, <1>6 DEF SessionNext, ShellWorks, UserTypes

\* The shell dies only as SessionSurvives says, whatever the texts, the cap of the
\* history and the number of lines (shellInput, displayInterpreterResult,
\* clearMemory, Lexer::lex).
THEOREM SessionStays == SessionSpec => []SessionSurvives
<1>1. SessionInv => SessionSurvives
  BY DEF SessionInv
<1> QED
  BY <1>1, SessionStarts, SessionStep, PTL DEF SessionSpec
=============================================================================
