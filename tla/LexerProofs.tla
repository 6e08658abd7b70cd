------------------------------ MODULE LexerProofs ------------------------------
(***************************************************************************)
(* Theorems about the lexer.  BlockLexer, in the documented layout, for    *)
(* every set of openers and words and every bound: each word stays in the  *)
(* block it was written in, closers chain what their keyword closed, every *)
(* closed block has one place, and a jump that is kept has its target.     *)
(* Tokenizer: the first expression that matches takes the most, and the    *)
(* numbers are those written.                                              *)
(* TokenLexer, for every program: one written as documented is taken, a    *)
(* call is made where its colon is, and what a line runs unseen is         *)
(* signatures.                                                             *)
(***************************************************************************)
EXTENDS BlockLexer, Tokenizer, TokenLexer, SequenceTheorems, NumbersAndSequences

-----------------------------------------------------------------------------
(* Chains of blocks *)

LEMMA ChainEndUnfolds ==
  ASSUME NEW nx, Forward(nx), NEW b \in 1..Len(nx)
  PROVE  ChainEnd(nx, b) = IF nx[b] = 0 THEN b ELSE ChainEnd(nx, nx[b])
<1> DEFINE Ends(f) == f = [c \in DOMAIN nx |-> IF nx[c] = 0 THEN c ELSE f[nx[c]]]
           end == CHOOSE g : Ends(g)
<1>1. DOMAIN nx = 1..Len(nx)
  BY LenProperties DEF Forward
<1>2. Ends(end)
  <2>1. \E f : Ends(f)
    BY ForwardRecursion
  <2> HIDE DEF Ends
  <2> QED
    BY <2>1
<1>3. ChainEnd(nx, b) = end[b] /\ (nx[b] # 0 => ChainEnd(nx, nx[b]) = end[nx[b]])
  BY DEF ChainEnd
<1>4. end[b] = IF nx[b] = 0 THEN b ELSE end[nx[b]]
  <2> HIDE DEF end
  <2> QED
    BY <1>1, <1>2
<1> QED
  BY <1>3, <1>4

LEMMA ChainEnds ==
  ASSUME NEW nx, Forward(nx)
  PROVE  \A b \in 1..Len(nx) : ChainEnd(nx, b) \in 1..Len(nx) /\ nx[ChainEnd(nx, b)] = 0
<1> DEFINE n == Len(nx)
           T == {b \in 1..n : ChainEnd(nx, b) \in 1..n /\ nx[ChainEnd(nx, b)] = 0}
<1>1. n \in Nat
  BY LenProperties DEF Forward
<1>2. ASSUME NEW c \in 1..n, \A d \in 1..n : d > c => d \in T
      PROVE  c \in T
  <2>1. ChainEnd(nx, c) = IF nx[c] = 0 THEN c ELSE ChainEnd(nx, nx[c])
    BY ChainEndUnfolds
  <2>2. CASE nx[c] = 0
    BY <2>1, <2>2
  <2>3. CASE nx[c] # 0
    <3>1. nx[c] \in 1..n /\ nx[c] > c
      BY <1>1, <2>3 DEF Forward
    <3> QED
      BY <1>2, <2>1, <2>3, <3>1
  <2> QED
    BY <2>2, <2>3
<1> HIDE DEF T
<1>3. \A c \in 1..n : c \in T
  BY <1>1, <1>2, FromTheTop
<1> QED
  BY <1>3 DEF T

\* A chain that ends elsewhere does not see that block d is continued.
LEMMA ChainKeeps ==
  ASSUME NEW nx, Forward(nx), NEW mx, Forward(mx), Len(nx) <= Len(mx),
         NEW d, \A c \in 1..Len(nx) : c # d => mx[c] = nx[c]
  PROVE  \A b \in 1..Len(nx) : ChainEnd(nx, b) # d /\ (d \in 1..Len(nx) => nx[d] = 0)
                                => ChainEnd(mx, b) = ChainEnd(nx, b)
<1> DEFINE n == Len(nx)
           T == {b \in 1..n : ChainEnd(nx, b) # d /\ (d \in 1..n => nx[d] = 0)
                                => ChainEnd(mx, b) = ChainEnd(nx, b)}
<1>1. n \in Nat /\ Len(mx) \in Nat /\ \A c \in 1..n : c \in 1..Len(mx)
  BY LenProperties DEF Forward
<1>2. ASSUME NEW c \in 1..n, \A e \in 1..n : e > c => e \in T
      PROVE  c \in T
  <2>1. SUFFICES ASSUME ChainEnd(nx, c) # d, d \in 1..n => nx[d] = 0
                 PROVE  ChainEnd(mx, c) = ChainEnd(nx, c)
    OBVIOUS
  <2>2. ChainEnd(nx, c) = IF nx[c] = 0 THEN c ELSE ChainEnd(nx, nx[c])
    BY ChainEndUnfolds
  <2>3. ChainEnd(mx, c) = IF mx[c] = 0 THEN c ELSE ChainEnd(mx, mx[c])
    BY <1>1, ChainEndUnfolds
  <2>4. c # d
    BY <2>1, <2>2
  <2>5. mx[c] = nx[c]
    BY <2>4
  <2>6. CASE nx[c] # 0
    <3>1. nx[c] \in 1..n /\ nx[c] > c
      BY <1>1, <2>6 DEF Forward
    <3>2. nx[c] \in T /\ ChainEnd(nx, nx[c]) # d
      BY <1>2, <2>1, <2>2, <2>6, <3>1
    <3> QED
      BY <2>1, <2>2, <2>3, <2>5, <2>6, <3>2
  <2> QED
    BY <2>2, <2>3, <2>5, <2>6
<1> HIDE DEF T
<1>3. \A c \in 1..n : c \in T
  BY <1>1, <1>2, FromTheTop
<1> QED
  BY <1>3 DEF T

\* A chain whose end is continued by a block that has no next ends there.
LEMMA ChainGrows ==
  ASSUME NEW nx, Forward(nx), NEW d \in 1..Len(nx), NEW e \in 1..Len(nx), e > d,
         nx[d] = 0, nx[e] = 0
  PROVE  /\ Forward([nx EXCEPT ![d] = e])
         /\ \A b \in 1..Len(nx) : ChainEnd(nx, b) = d => ChainEnd([nx EXCEPT ![d] = e], b) = e
<1> DEFINE n == Len(nx)
           mx == [nx EXCEPT ![d] = e]
           T == {b \in 1..n : ChainEnd(nx, b) = d => ChainEnd(mx, b) = e}
<1>1. n \in Nat /\ nx \in Seq(Nat)
  BY LenProperties DEF Forward
<1>2. mx \in Seq(Nat) /\ Len(mx) = n /\ mx[d] = e /\ \A c \in 1..n : c # d => mx[c] = nx[c]
  BY <1>1, ExceptSeq
<1> HIDE DEF mx
<1>3. Forward(mx)
  BY <1>1, <1>2 DEF Forward
<1>4. \A c \in 1..n : /\ ChainEnd(nx, c) = IF nx[c] = 0 THEN c ELSE ChainEnd(nx, nx[c])
                      /\ ChainEnd(mx, c) = IF mx[c] = 0 THEN c ELSE ChainEnd(mx, mx[c])
  BY <1>2, <1>3, ChainEndUnfolds
<1>5. ChainEnd(mx, e) = e /\ ChainEnd(mx, d) = e
  BY <1>1, <1>2, <1>4
<1>6. ASSUME NEW c \in 1..n, \A x \in 1..n : x > c => x \in T
      PROVE  c \in T
  <2>1. SUFFICES ASSUME ChainEnd(nx, c) = d
                 PROVE  ChainEnd(mx, c) = e
    OBVIOUS
  <2>2. CASE c = d
    BY <1>5, <2>2
  <2>3. CASE c # d
    <3>1. nx[c] # 0 /\ ChainEnd(nx, nx[c]) = d
      BY <1>4, <2>1, <2>3
    <3>2. nx[c] \in 1..n /\ nx[c] > c
      BY <1>1, <3>1 DEF Forward
    <3>3. ChainEnd(mx, nx[c]) = e
      BY <1>6, <3>1, <3>2
    <3> QED
      BY <1>2, <1>4, <2>3, <3>1, <3>3
  <2> QED
    BY <2>2, <2>3
<1>7. \A c \in 1..n : c \in T
  <2> HIDE DEF T
  <2> QED
    BY <1>1, <1>6, FromTheTop
<1> QED
  BY <1>3, <1>7 DEF mx

-----------------------------------------------------------------------------
(* The invariant of BlockLexer, of the words, the blocks, the line, the open *)
(* blocks, the queues and the two ways a block is continued.                 *)

\* What is in a queue.
ItemRec == [type : {"line", "code", "function"}, words : Seq(Nat), block : Nat]
WordRec == [kind : Words, home : Nat]
BlockRec == [keyword : DOMAIN BlockOpeners, home : Nat]

Typed(wd, blk, ln, s, q, nx, hr) ==
  /\ wd \in Seq(WordRec) /\ Len(wd) <= MaxWords
  /\ blk \in Seq(BlockRec) /\ Len(blk) <= MaxBlocks
  /\ ln \in Seq(Nat) /\ s \in Seq(Nat)
  /\ q \in Seq(Seq(ItemRec)) /\ Len(q) = Len(blk) + 1
  /\ nx \in Seq(Nat) /\ Len(nx) = Len(blk)
  /\ hr \in Seq(Nat) /\ Len(hr) = Len(blk)

\* The block below the one at place i of a stack.
Below(s, i) == IF i = 1 THEN 0 ELSE s[i - 1]

\* The open blocks, from the outermost in, are each written in the one below; a
\* function is written in no block.
Nested(blk, s) ==
  /\ \A b \in 1..Len(blk) : blk[b].home < b /\ (blk[b].keyword = "fun" => blk[b].home = 0)
  /\ \A i \in 1..Len(s) : s[i] \in 1..Len(blk) /\ blk[s[i]].home = Below(s, i)
  /\ \A i, j \in 1..Len(s) : i < j => s[i] < s[j]

\* A word is in the block it was written in.
AtHome(wd, ws, b) == \A k \in 1..Len(ws) : ws[k] \in 1..Len(wd) /\ wd[ws[k]].home = b

Homely(wd, blk, ln, s, q) ==
  /\ \A b \in 0..Len(blk) : \A i \in 1..Len(q[b + 1]) : AtHome(wd, q[b + 1][i].words, b)
  /\ AtHome(wd, ln, InnerOf(s))

\* The blocks that were closed, and those that continue none.
OpenOf(s) == {s[i] : i \in 1..Len(s)}
Closed(blk, s) == (1..Len(blk)) \ OpenOf(s)
Rooted(blk, b) == blk[b].keyword \notin BlockClosers

\* An item that is a block is one that was closed and continues none, no other
\* item is, and each such block is one.
Fits(blk, s, item) ==
  \/ item.type = "line" /\ item.block = 0
  \/ /\ item.type # "line" /\ item.words = <<>>
     /\ item.block \in Closed(blk, s) /\ Rooted(blk, item.block)
ItemsFit(blk, s, q) == \A b \in 0..Len(blk) : \A i \in 1..Len(q[b + 1]) : Fits(blk, s, q[b + 1][i])
ItemsApart(blk, q) ==
  \A b, c \in 0..Len(blk) : \A i \in 1..Len(q[b + 1]), j \in 1..Len(q[c + 1]) :
    q[b + 1][i].block = q[c + 1][j].block /\ q[b + 1][i].block # 0 => b = c /\ i = j
Has(blk, q, x) == \E b \in 0..Len(blk) : \E i \in 1..Len(q[b + 1]) : q[b + 1][i].block = x
BlocksThere(blk, s, q) == \A x \in Closed(blk, s) : Rooted(blk, x) => Has(blk, q, x)
ItemsFew(wd, blk, ln, s, q) ==
  \A b \in 0..Len(blk) : Len(q[b + 1]) <= (Len(wd) - Len(ln)) + (Len(blk) - Len(s))

Placed(wd, blk, ln, s, q) ==
  ItemsFit(blk, s, q) /\ ItemsApart(blk, q) /\ BlocksThere(blk, s, q) /\ ItemsFew(wd, blk, ln, s, q)

\* A block has the one that continues it as its next as soon as that is closed.
Continued(blk, s, nx, hr) ==
  /\ \A b \in 1..Len(blk) :
       /\ nx[b] = IF hr[b] \in OpenOf(s) THEN 0 ELSE hr[b]
       /\ hr[b] # 0 => /\ hr[b] > b /\ hr[b] <= Len(blk) /\ b \notin OpenOf(s)
                       /\ ~Rooted(blk, hr[b])
  /\ \A b, c \in 1..Len(blk) : hr[b] = hr[c] /\ hr[b] # 0 => b = c
  /\ \A c \in 1..Len(blk) : ~Rooted(blk, c) => \E b \in 1..Len(blk) : hr[b] = c

\* The last item of a queue is the chain that block c will go on, or the line of
\* the signature of a function.
GoesOn(items, nx, hr, c) ==
  /\ items # <<>> /\ items[Len(items)].type = "code"
  /\ hr[ChainEnd(nx, items[Len(items)].block)] = c
Signed(wd, items) ==
  /\ items # <<>> /\ items[Len(items)].type = "line"
  /\ items[Len(items)].words # <<>> /\ wd[items[Len(items)].words[1]].kind = "signature"

Awaited(wd, blk, s, q, nx, hr) ==
  \A i \in 1..Len(s) :
    /\ ~Rooted(blk, s[i]) => GoesOn(q[Below(s, i) + 1], nx, hr, s[i])
    /\ blk[s[i]].keyword = "fun" => Signed(wd, q[Below(s, i) + 1])

Shape(wd, blk, ln, s, q, nx, hr) ==
  /\ Typed(wd, blk, ln, s, q, nx, hr) /\ Nested(blk, s)
  /\ Homely(wd, blk, ln, s, q) /\ Placed(wd, blk, ln, s, q)
  /\ Continued(blk, s, nx, hr) /\ Awaited(wd, blk, s, q, nx, hr)

-----------------------------------------------------------------------------

LEMMA StackFacts ==
  ASSUME NEW blk \in Seq(BlockRec), NEW s \in Seq(Nat), Nested(blk, s)
  PROVE  /\ Len(blk) \in Nat /\ Len(s) \in Nat
         /\ InnerOf(s) = (IF s = <<>> THEN 0 ELSE s[Len(s)]) /\ InnerOf(s) \in 0..Len(blk)
         /\ s # <<>> => Len(s) >= 1
         /\ \A i \in 1..Len(s) :
              Below(s, i) \in 0..Len(blk) /\ Below(s, i) < s[i] /\ Below(s, i) < InnerOf(s)
         /\ \A i, j \in 1..Len(s) : s[i] = s[j] => i = j
<1>1. Len(blk) \in Nat /\ Len(s) \in Nat /\ (s # <<>> => Len(s) >= 1)
  BY EmptySeq
<1>2. InnerOf(s) = IF s = <<>> THEN 0 ELSE s[Len(s)]
  BY DEF InnerOf, Last
<1>3. InnerOf(s) \in 0..Len(blk)
  BY <1>1, <1>2 DEF Nested
<1>4. ASSUME NEW i \in 1..Len(s)
      PROVE  Below(s, i) \in 0..Len(blk) /\ Below(s, i) < s[i] /\ Below(s, i) < InnerOf(s)
  <2>1. s # <<>> /\ Len(s) \in 1..Len(s) /\ InnerOf(s) = s[Len(s)] /\ s[i] \in 1..Len(blk)
    BY <1>1, <1>2 DEF Nested
  <2>2. s[i] <= InnerOf(s)
    BY <1>1, <2>1 DEF Nested
  <2>3. i # 1 => i - 1 \in 1..Len(s) /\ s[i - 1] < s[i] /\ s[i - 1] \in 1..Len(blk)
    BY <1>1 DEF Nested
  <2>4. Below(s, i) \in 0..Len(blk) /\ Below(s, i) < s[i]
    BY <2>1, <2>3 DEF Below
  <2> QED
    BY <1>1, <1>3, <2>1, <2>2, <2>4
<1>5. ASSUME NEW i \in 1..Len(s), NEW j \in 1..Len(s), s[i] = s[j]
      PROVE  i = j
  <2>1. i < j => s[i] < s[j]
    BY DEF Nested
  <2>2. j < i => s[j] < s[i]
    BY DEF Nested
  <2> QED
    BY <1>5, <2>1, <2>2
<1> QED
  BY <1>1, <1>2, <1>3, <1>4, <1>5

\* Of the queues 0 to l, q2 has one item e more than q, at the end of queue m.
Grown(l, q, m, e, q2) ==
  /\ q2 \in Seq(Seq(ItemRec)) /\ Len(q2) = l + 1 /\ Len(q[m + 1]) \in Nat
  /\ \A b \in 0..l : b # m => q2[b + 1] = q[b + 1]
  /\ Len(q2[m + 1]) = Len(q[m + 1]) + 1 /\ q2[m + 1][Len(q[m + 1]) + 1] = e
  /\ \A b \in 0..l :
       /\ Len(q[b + 1]) \in Nat /\ Len(q2[b + 1]) \in {Len(q[b + 1]), Len(q[b + 1]) + 1}
       /\ \A i \in 1..Len(q2[b + 1]) :
            \/ i \in 1..Len(q[b + 1]) /\ q2[b + 1][i] = q[b + 1][i]
            \/ b = m /\ i = Len(q[m + 1]) + 1 /\ q2[b + 1][i] = e
       /\ \A i \in 1..Len(q[b + 1]) : i \in 1..Len(q2[b + 1]) /\ q2[b + 1][i] = q[b + 1][i]

LEMMA ItemPushed ==
  ASSUME NEW l \in Nat, NEW q \in Seq(Seq(ItemRec)), Len(q) = l + 1,
         NEW m \in 0..l, NEW e \in ItemRec
  PROVE  Grown(l, q, m, e, [q EXCEPT ![m + 1] = Append(@, e)])
<1> DEFINE q2 == [q EXCEPT ![m + 1] = Append(@, e)]
           n == Len(q[m + 1])
<1>1. /\ q2 \in Seq(Seq(ItemRec)) /\ Len(q2) = l + 1
      /\ \A b \in 0..l : b # m => q2[b + 1] = q[b + 1]
      /\ n \in Nat /\ Len(q2[m + 1]) = n + 1
      /\ \A i \in 1..n : q2[m + 1][i] = q[m + 1][i]
      /\ q2[m + 1][n + 1] = e
  <2>1. m \in 0..Len(q) - 1 /\ 0..Len(q) - 1 = 0..l
    OBVIOUS
  <2> QED
    BY <2>1, Pushed
<1> HIDE DEF q2
<1>2. ASSUME NEW b \in 0..l, NEW i \in 1..Len(q2[b + 1])
      PROVE  \/ i \in 1..Len(q[b + 1]) /\ q2[b + 1][i] = q[b + 1][i]
             \/ b = m /\ i = n + 1 /\ q2[b + 1][i] = e
  <2>1. CASE b = m
    <3>1. i \in 1..n + 1
      BY <1>1, <1>2, <2>1
    <3>2. CASE i = n + 1
      BY <1>1, <2>1, <3>2
    <3>3. CASE i # n + 1
      <4>1. i \in 1..n
        BY <1>1, <3>1, <3>3
      <4> QED
        BY <1>1, <2>1, <4>1
    <3> QED
      BY <3>2, <3>3
  <2>2. CASE b # m
    BY <1>1, <2>2
  <2> QED
    BY <2>1, <2>2
<1>3. ASSUME NEW b \in 0..l, NEW i \in 1..Len(q[b + 1])
      PROVE  i \in 1..Len(q2[b + 1]) /\ q2[b + 1][i] = q[b + 1][i]
  <2>1. CASE b = m
    <3>1. i \in 1..n /\ i \in 1..n + 1
      BY <1>1, <1>3, <2>1
    <3> QED
      BY <1>1, <2>1, <3>1
  <2>2. CASE b # m
    BY <1>1, <2>2
  <2> QED
    BY <2>1, <2>2
<1>4. ASSUME NEW b \in 0..l
      PROVE  Len(q[b + 1]) \in Nat /\ Len(q2[b + 1]) \in {Len(q[b + 1]), Len(q[b + 1]) + 1}
  <2>1. Len(q[b + 1]) \in Nat
    OBVIOUS
  <2>2. CASE b = m
    BY <1>1, <2>1, <2>2
  <2>3. CASE b # m
    BY <1>1, <2>1, <2>3
  <2> QED
    BY <2>2, <2>3
<1> QED
  BY <1>1, <1>2, <1>3, <1>4 DEF q2, Grown

\* The line goes to the innermost block.
LEMMA LineKeeps ==
  ASSUME NEW wd, NEW blk, NEW ln, NEW s, NEW q, NEW nx, NEW hr,
         Shape(wd, blk, ln, s, q, nx, hr), ln # <<>>
  PROVE  Shape(wd, blk, <<>>, s, [q EXCEPT ![InnerOf(s) + 1] = Append(@, Line(ln))], nx, hr)
<1> DEFINE m == InnerOf(s)  e == Line(ln)
           q2 == [q EXCEPT ![m + 1] = Append(@, e)]
           n == Len(q[m + 1])
<1>1. /\ Typed(wd, blk, ln, s, q, nx, hr) /\ Nested(blk, s)
      /\ blk \in Seq(BlockRec) /\ s \in Seq(Nat) /\ q \in Seq(Seq(ItemRec))
      /\ Len(q) = Len(blk) + 1 /\ ln \in Seq(Nat) /\ wd \in Seq(WordRec)
  BY DEF Shape, Typed
<1>2. /\ Len(blk) \in Nat /\ Len(s) \in Nat /\ m \in 0..Len(blk)
      /\ \A i \in 1..Len(s) : Below(s, i) \in 0..Len(blk) /\ Below(s, i) # m
  BY <1>1, StackFacts
<1>3. e \in ItemRec /\ e.type = "line" /\ e.block = 0 /\ e.words = ln
  BY <1>1 DEF Line, ItemRec
<1>4. Len(ln) \in Nat /\ Len(ln) >= 1 /\ Len(wd) \in Nat
  BY <1>1, EmptySeq
<1> HIDE DEF m, e
<1>5. Grown(Len(blk), q, m, e, q2)
  <2>1. /\ Len(blk) \in Nat /\ m \in 0..Len(blk) /\ e \in ItemRec
        /\ q \in Seq(Seq(ItemRec)) /\ Len(q) = Len(blk) + 1
    BY <1>1, <1>2, <1>3
  <2> QED
    BY <2>1, ItemPushed
<1> HIDE DEF q2
<1>6. ASSUME NEW b \in 0..Len(blk), NEW i \in 1..Len(q2[b + 1])
      PROVE  \/ i \in 1..Len(q[b + 1]) /\ q2[b + 1][i] = q[b + 1][i]
             \/ b = m /\ i = n + 1 /\ q2[b + 1][i] = e
  BY <1>5 DEF Grown
<1>7. ASSUME NEW b \in 0..Len(blk), NEW i \in 1..Len(q[b + 1])
      PROVE  i \in 1..Len(q2[b + 1]) /\ q2[b + 1][i] = q[b + 1][i]
  BY <1>5 DEF Grown
<1>8. Typed(wd, blk, <<>>, s, q2, nx, hr)
  BY <1>1, <1>5 DEF Typed, Grown
<1>9. Homely(wd, blk, <<>>, s, q2)
  <2>1. AtHome(wd, e.words, m)
    BY <1>3 DEF Shape, Homely, m
  <2>2. ASSUME NEW b \in 0..Len(blk), NEW i \in 1..Len(q2[b + 1])
        PROVE  AtHome(wd, q2[b + 1][i].words, b)
    BY <1>6, <2>1, <2>2 DEF Shape, Homely
  <2>3. AtHome(wd, <<>>, InnerOf(s))
    BY DEF AtHome
  <2> QED
    BY <2>2, <2>3 DEF Homely
<1>10. Placed(wd, blk, <<>>, s, q2)
  <2>1. /\ ItemsFit(blk, s, q) /\ ItemsApart(blk, q) /\ BlocksThere(blk, s, q)
        /\ ItemsFew(wd, blk, ln, s, q)
    BY DEF Shape, Placed
  <2>2. ASSUME NEW b \in 0..Len(blk), NEW i \in 1..Len(q2[b + 1])
        PROVE  Fits(blk, s, q2[b + 1][i])
    <3>1. CASE i \in 1..Len(q[b + 1]) /\ q2[b + 1][i] = q[b + 1][i]
      BY <2>1, <3>1 DEF ItemsFit
    <3>2. CASE q2[b + 1][i] = e
      BY <1>3, <3>2 DEF Fits
    <3> QED
      BY <1>6, <3>1, <3>2
  <2>3. ASSUME NEW b \in 0..Len(blk), NEW c \in 0..Len(blk),
               NEW i \in 1..Len(q2[b + 1]), NEW j \in 1..Len(q2[c + 1]),
               q2[b + 1][i].block = q2[c + 1][j].block, q2[b + 1][i].block # 0
        PROVE  b = c /\ i = j
    <3>1. i \in 1..Len(q[b + 1]) /\ q2[b + 1][i] = q[b + 1][i]
      BY <1>3, <1>6, <2>3
    <3>2. j \in 1..Len(q[c + 1]) /\ q2[c + 1][j] = q[c + 1][j]
      BY <1>3, <1>6, <2>3
    <3> QED
      BY <2>1, <2>3, <3>1, <3>2 DEF ItemsApart
  <2>4. ASSUME NEW x \in Closed(blk, s), Rooted(blk, x)
        PROVE  Has(blk, q2, x)
    <3>1. PICK b \in 0..Len(blk) : \E i \in 1..Len(q[b + 1]) : q[b + 1][i].block = x
      BY <2>1, <2>4 DEF BlocksThere, Has
    <3>2. PICK i \in 1..Len(q[b + 1]) : q[b + 1][i].block = x
      BY <3>1
    <3> QED
      BY <1>7, <3>2 DEF Has
  <2>5. ASSUME NEW b \in 0..Len(blk)
        PROVE  Len(q2[b + 1]) <= (Len(wd) - Len(<<>>)) + (Len(blk) - Len(s))
    <3>1. Len(q[b + 1]) <= (Len(wd) - Len(ln)) + (Len(blk) - Len(s)) /\ Len(q[b + 1]) \in Nat
      BY <1>1, <2>1 DEF ItemsFew
    <3>2. Len(q2[b + 1]) \in {Len(q[b + 1]), Len(q[b + 1]) + 1}
      BY <1>5 DEF Grown
    <3>3. Len(<<>>) = 0
      OBVIOUS
    <3> QED
      BY <1>2, <1>4, <3>1, <3>2, <3>3
  <2> QED
    BY <2>2, <2>3, <2>4, <2>5 DEF Placed, ItemsFit, ItemsApart, BlocksThere, ItemsFew
<1>11. Awaited(wd, blk, s, q2, nx, hr)
  BY <1>2, <1>5 DEF Shape, Awaited, Grown
<1> QED
  BY <1>1, <1>8, <1>9, <1>10, <1>11 DEF Shape, q2, m, e

\* A word more on the line.
LEMMA WordKeeps ==
  ASSUME NEW wd, NEW blk, NEW ln, NEW s, NEW q, NEW nx, NEW hr,
         Shape(wd, blk, ln, s, q, nx, hr), Len(wd) < MaxWords, NEW k \in Words
  PROVE  Shape(Append(wd, [kind |-> k, home |-> InnerOf(s)]), blk, Append(ln, Len(wd) + 1),
               s, q, nx, hr)
<1> DEFINE w == [kind |-> k, home |-> InnerOf(s)]
           wd2 == Append(wd, w)  ln2 == Append(ln, Len(wd) + 1)
<1>1. /\ Typed(wd, blk, ln, s, q, nx, hr) /\ Nested(blk, s)
      /\ blk \in Seq(BlockRec) /\ s \in Seq(Nat) /\ q \in Seq(Seq(ItemRec))
      /\ Len(q) = Len(blk) + 1 /\ ln \in Seq(Nat) /\ wd \in Seq(WordRec)
  BY DEF Shape, Typed
<1>2. Len(blk) \in Nat /\ InnerOf(s) \in 0..Len(blk) /\ Len(wd) \in Nat /\ Len(ln) \in Nat
      /\ Len(s) \in Nat
  BY <1>1, StackFacts
<1>3. /\ w \in WordRec /\ w.home = InnerOf(s)
  BY <1>2 DEF WordRec
<1>4. /\ wd2 \in Seq(WordRec) /\ Len(wd2) = Len(wd) + 1 /\ wd2[Len(wd) + 1] = w
      /\ \A i \in 1..Len(wd) : wd2[i] = wd[i]
  BY <1>1, <1>3, Appended
<1>5. /\ ln2 \in Seq(Nat) /\ Len(ln2) = Len(ln) + 1 /\ ln2[Len(ln) + 1] = Len(wd) + 1
      /\ \A i \in 1..Len(ln) : ln2[i] = ln[i]
  BY <1>1, <1>2, Appended
<1> HIDE DEF w, wd2, ln2
<1>6. ASSUME NEW ws, NEW b, AtHome(wd, ws, b)
      PROVE  AtHome(wd2, ws, b)
  BY <1>2, <1>4, <1>6 DEF AtHome
<1>7. Typed(wd2, blk, ln2, s, q, nx, hr)
  <2>1. Len(wd2) <= MaxWords
    BY <1>2, <1>4, LexerAssumption
  <2> QED
    BY <1>1, <1>4, <1>5, <2>1 DEF Typed
<1>8. Homely(wd2, blk, ln2, s, q)
  <2>1. AtHome(wd2, ln2, InnerOf(s))
    <3>1. AtHome(wd2, ln, InnerOf(s))
      BY <1>6 DEF Shape, Homely
    <3> SUFFICES ASSUME NEW i \in 1..Len(ln2)
                 PROVE  ln2[i] \in 1..Len(wd2) /\ wd2[ln2[i]].home = InnerOf(s)
      BY DEF AtHome
    <3>2. CASE i \in 1..Len(ln)
      BY <1>5, <3>1, <3>2 DEF AtHome
    <3>3. CASE i = Len(ln) + 1
      BY <1>2, <1>3, <1>4, <1>5, <3>3
    <3> QED
      BY <1>2, <1>5, <3>2, <3>3
  <2>2. \A b \in 0..Len(blk) : \A i \in 1..Len(q[b + 1]) : AtHome(wd2, q[b + 1][i].words, b)
    BY <1>6 DEF Shape, Homely
  <2> QED
    BY <2>1, <2>2 DEF Homely
<1>9. Placed(wd2, blk, ln2, s, q)
  <2>1. Len(wd2) - Len(ln2) = Len(wd) - Len(ln)
    BY <1>2, <1>4, <1>5
  <2> QED
    BY <2>1 DEF Shape, Placed, ItemsFew
<1>10. Awaited(wd2, blk, s, q, nx, hr)
  <2> SUFFICES ASSUME NEW i \in 1..Len(s)
               PROVE  /\ ~Rooted(blk, s[i]) => GoesOn(q[Below(s, i) + 1], nx, hr, s[i])
                      /\ blk[s[i]].keyword = "fun" => Signed(wd2, q[Below(s, i) + 1])
    BY DEF Awaited
  <2> DEFINE items == q[Below(s, i) + 1]
  <2>1. Below(s, i) \in 0..Len(blk)
    BY <1>1, StackFacts
  <2>2. items \in Seq(ItemRec)
    BY <1>1, <2>1
  <2>3. /\ ~Rooted(blk, s[i]) => GoesOn(items, nx, hr, s[i])
        /\ blk[s[i]].keyword = "fun" => Signed(wd, items)
    BY DEF Shape, Awaited
  <2>4. ASSUME Signed(wd, items)
        PROVE  Signed(wd2, items)
    <3>1. Len(items) \in 1..Len(items) /\ items[Len(items)] \in ItemRec
      BY <2>2, <2>4, EmptySeq DEF Signed
    <3> DEFINE ws == items[Len(items)].words
    <3>2. AtHome(wd, ws, Below(s, i))
      BY <2>1, <3>1 DEF Shape, Homely
    <3>3. ws \in Seq(Nat) /\ ws # <<>>
      BY <2>4, <3>1 DEF ItemRec, Signed
    <3>4. 1 \in 1..Len(ws)
      BY <3>3, EmptySeq
    <3>5. wd2[ws[1]] = wd[ws[1]]
      BY <1>4, <3>2, <3>4 DEF AtHome
    <3> QED
      BY <2>4, <3>5 DEF Signed
  <2> QED
    BY <2>3, <2>4
<1> QED
  BY <1>1, <1>7, <1>8, <1>9, <1>10 DEF Shape, wd2, ln2, w

-----------------------------------------------------------------------------
(* A closer *)

\* What closing the innermost block does to the stack.
LEMMA BlockLeft ==
  ASSUME NEW blk \in Seq(BlockRec), NEW s \in Seq(Nat), Nested(blk, s), s # <<>>
  PROVE  LET n == Len(s)  b == s[n]  s2 == Front(s)
         IN /\ n \in Nat /\ n >= 1 /\ Last(s) = b /\ b \in 1..Len(blk) /\ b \in OpenOf(s)
            /\ s2 \in Seq(Nat) /\ Len(s2) = n - 1 /\ Nested(blk, s2)
            /\ InnerOf(s2) = Below(s, n) /\ InnerOf(s2) \in 0..Len(blk)
            /\ \A i \in 1..n - 1 : /\ s2[i] = s[i] /\ Below(s2, i) = Below(s, i)
                                   /\ Below(s2, i) # InnerOf(s2)
            /\ OpenOf(s2) = OpenOf(s) \ {b} /\ Closed(blk, s2) = Closed(blk, s) \cup {b}
<1> DEFINE n == Len(s)  b == s[n]  s2 == Front(s)
<1>1. /\ n \in Nat /\ n >= 1 /\ Last(s) = b /\ s2 \in Seq(Nat) /\ Len(s2) = n - 1
      /\ \A i \in 1..n - 1 : s2[i] = s[i]
  BY Shortened
<1> HIDE DEF s2
<1>2. n \in 1..n /\ b \in 1..Len(blk) /\ b \in OpenOf(s) /\ Len(blk) \in Nat
  BY <1>1 DEF Nested, OpenOf
<1>3. \A i \in 1..n - 1 : i \in 1..n /\ Below(s2, i) = Below(s, i)
  BY <1>1 DEF Below
<1>4. Nested(blk, s2)
  BY <1>1, <1>3 DEF Nested
<1>5. InnerOf(s2) = Below(s, n)
  <2>1. InnerOf(s2) = IF s2 = <<>> THEN 0 ELSE s2[Len(s2)]
    BY <1>1, <1>4, StackFacts
  <2>2. s2 = <<>> <=> n = 1
    BY <1>1, EmptySeq
  <2>3. n # 1 => n - 1 \in 1..n - 1
    BY <1>1
  <2> QED
    BY <1>1, <2>1, <2>2, <2>3 DEF Below
<1>6. InnerOf(s2) \in 0..Len(blk) /\ \A i \in 1..n - 1 : Below(s2, i) # InnerOf(s2)
  <2>1. /\ InnerOf(s2) \in 0..Len(blk)
        /\ \A i \in 1..Len(s2) : Below(s2, i) \in 0..Len(blk) /\ Below(s2, i) < InnerOf(s2)
    BY <1>1, <1>4, StackFacts
  <2> QED
    BY <1>1, <1>2, <2>1
<1>7. OpenOf(s2) = OpenOf(s) \ {b}
  <2>1. \A i \in 1..n : i = n \/ (i \in 1..n - 1 /\ s[i] < s[n])
    BY <1>1, <1>2 DEF Nested
  <2>2. ASSUME NEW i \in 1..n - 1
        PROVE  s[i] # b /\ s[i] = s2[i]
    <3>1. i \in 1..n /\ n \in 1..n /\ i < n
      BY <1>1
    <3>2. s[i] \in Nat /\ b \in Nat /\ s[i] < b
      BY <3>1 DEF Nested
    <3> QED
      BY <1>1, <3>2
  <2> QED
    BY <1>1, <1>3, <2>1, <2>2 DEF OpenOf
<1>8. Closed(blk, s2) = Closed(blk, s) \cup {b}
  BY <1>2, <1>7 DEF Closed
<1> QED
  BY <1>1, <1>2, <1>3, <1>4, <1>5, <1>6, <1>7, <1>8 DEF s2

LEMMA GoesForward ==
  ASSUME NEW blk \in Seq(BlockRec), NEW s, NEW nx \in Seq(Nat), NEW hr \in Seq(Nat),
         Len(nx) = Len(blk), Len(hr) = Len(blk), Continued(blk, s, nx, hr)
  PROVE  /\ Forward(nx)
         /\ \A b \in 1..Len(blk) : b \in OpenOf(s) => hr[b] = 0 /\ nx[b] = 0
<1>1. \A b \in 1..Len(blk) : /\ nx[b] = IF hr[b] \in OpenOf(s) THEN 0 ELSE hr[b]
                             /\ hr[b] # 0 => hr[b] > b /\ hr[b] <= Len(blk) /\ b \notin OpenOf(s)
  BY DEF Continued
<1> QED
  BY <1>1 DEF Forward

\* Behind the items of the innermost block comes what goes on with block b.
Ready(s, q, nx, hr, b) ==
  LET items == q[InnerOf(s) + 1]
  IN /\ hr[b] = 0 /\ items # <<>> /\ items[Len(items)].type = "code"
     /\ ChainEnd(nx, items[Len(items)].block) = b

\* A block that continues none is put into the block around it.
LEMMA AttachKeeps ==
  ASSUME NEW wd, NEW blk, NEW s, NEW q, NEW nx, NEW hr,
         Shape(wd, blk, <<>>, s, q, nx, hr), s # <<>>,
         Rooted(blk, s[Len(s)])
  PROVE  LET b == s[Len(s)]  s2 == Front(s)
             q2 == [q EXCEPT ![InnerOf(s2) + 1] = Append(@, Item("code", b))]
         IN Shape(wd, blk, <<>>, s2, q2, nx, hr) /\ Ready(s2, q2, nx, hr, b)
<1> DEFINE n == Len(s)  b == s[n]  s2 == Front(s)  m == InnerOf(s2)  e == Item("code", b)
           q2 == [q EXCEPT ![m + 1] = Append(@, e)]
<1>1. /\ Typed(wd, blk, <<>>, s, q, nx, hr) /\ Nested(blk, s) /\ Continued(blk, s, nx, hr)
      /\ blk \in Seq(BlockRec) /\ s \in Seq(Nat) /\ q \in Seq(Seq(ItemRec))
      /\ Len(q) = Len(blk) + 1 /\ wd \in Seq(WordRec) /\ Len(blk) \in Nat /\ Len(wd) \in Nat
      /\ nx \in Seq(Nat) /\ hr \in Seq(Nat) /\ Len(nx) = Len(blk) /\ Len(hr) = Len(blk)
  BY DEF Shape, Typed
<1>2. /\ n \in Nat /\ n >= 1 /\ b \in 1..Len(blk) /\ b \in OpenOf(s)
      /\ s2 \in Seq(Nat) /\ Len(s2) = n - 1 /\ Nested(blk, s2) /\ m \in 0..Len(blk)
      /\ \A i \in 1..n - 1 : s2[i] = s[i] /\ Below(s2, i) = Below(s, i) /\ Below(s2, i) # m
      /\ OpenOf(s2) = OpenOf(s) \ {b} /\ Closed(blk, s2) = Closed(blk, s) \cup {b}
  BY <1>1, BlockLeft
<1>3. e \in ItemRec /\ e.type = "code" /\ e.block = b /\ e.words = <<>>
  BY <1>2 DEF Item, ItemRec
<1> HIDE DEF n, b, s2, m, e
<1>4. Grown(Len(blk), q, m, e, q2)
  BY <1>1, <1>2, <1>3, ItemPushed
<1> HIDE DEF q2
<1>5. Typed(wd, blk, <<>>, s2, q2, nx, hr)
  BY <1>1, <1>2, <1>4 DEF Typed, Grown
<1>6. Homely(wd, blk, <<>>, s2, q2)
  <2>1. \A c : AtHome(wd, <<>>, c)
    BY DEF AtHome
  <2>2. ASSUME NEW c \in 0..Len(blk), NEW i \in 1..Len(q2[c + 1])
        PROVE  AtHome(wd, q2[c + 1][i].words, c)
    <3>1. CASE i \in 1..Len(q[c + 1]) /\ q2[c + 1][i] = q[c + 1][i]
      BY <3>1 DEF Shape, Homely
    <3>2. CASE q2[c + 1][i] = e
      BY <1>3, <2>1, <3>2
    <3> QED
      BY <1>4, <3>1, <3>2 DEF Grown
  <2> QED
    BY <2>1, <2>2 DEF Homely
<1>7. Placed(wd, blk, <<>>, s2, q2)
  <2>1. /\ ItemsFit(blk, s, q) /\ ItemsApart(blk, q) /\ BlocksThere(blk, s, q)
        /\ ItemsFew(wd, blk, <<>>, s, q)
    BY DEF Shape, Placed
  <2>2. \A item : Fits(blk, s, item) => Fits(blk, s2, item) /\ item.block # b
    BY <1>2 DEF Fits, Closed
  <2>3. ASSUME NEW c \in 0..Len(blk), NEW i \in 1..Len(q2[c + 1])
        PROVE  \/ i \in 1..Len(q[c + 1]) /\ q2[c + 1][i] = q[c + 1][i] /\ Fits(blk, s, q[c + 1][i])
               \/ c = m /\ i = Len(q[m + 1]) + 1 /\ q2[c + 1][i] = e
    BY <1>4, <2>1 DEF Grown, ItemsFit
  <2>4. Fits(blk, s2, e)
    BY <1>2, <1>3 DEF Fits, b, n
  <2>5. ItemsFit(blk, s2, q2)
    BY <2>2, <2>3, <2>4 DEF ItemsFit
  <2>6. ItemsApart(blk, q2)
    <3> SUFFICES ASSUME NEW c \in 0..Len(blk), NEW d \in 0..Len(blk),
                        NEW i \in 1..Len(q2[c + 1]), NEW j \in 1..Len(q2[d + 1]),
                        q2[c + 1][i].block = q2[d + 1][j].block, q2[c + 1][i].block # 0
                 PROVE  c = d /\ i = j
      BY DEF ItemsApart
    <3>1. CASE i \in 1..Len(q[c + 1]) /\ q2[c + 1][i] = q[c + 1][i] /\ Fits(blk, s, q[c + 1][i])
      <4>1. q2[d + 1][j].block # b
        BY <2>2, <3>1
      <4>2. j \in 1..Len(q[d + 1]) /\ q2[d + 1][j] = q[d + 1][j]
        BY <1>3, <2>3, <4>1
      <4> QED
        BY <2>1, <3>1, <4>2 DEF ItemsApart
    <3>2. CASE c = m /\ i = Len(q[m + 1]) + 1 /\ q2[c + 1][i] = e
      <4>1. q2[d + 1][j].block = b
        BY <1>3, <3>2
      <4>2. d = m /\ j = Len(q[m + 1]) + 1
        BY <2>2, <2>3, <4>1
      <4> QED
        BY <3>2, <4>2
    <3> QED
      BY <2>3, <3>1, <3>2
  <2>7. BlocksThere(blk, s2, q2)
    <3>1. ASSUME NEW x \in Closed(blk, s), Rooted(blk, x)
          PROVE  Has(blk, q2, x)
      <4>1. PICK c \in 0..Len(blk) : \E i \in 1..Len(q[c + 1]) : q[c + 1][i].block = x
        BY <2>1, <3>1 DEF BlocksThere, Has
      <4>2. PICK i \in 1..Len(q[c + 1]) : q[c + 1][i].block = x
        BY <4>1
      <4>3. i \in 1..Len(q2[c + 1]) /\ q2[c + 1][i] = q[c + 1][i]
        BY <1>4 DEF Grown
      <4> QED
        BY <4>2, <4>3 DEF Has
    <3>2. Has(blk, q2, b)
      <4>1. Len(q[m + 1]) + 1 \in 1..Len(q2[m + 1]) /\ q2[m + 1][Len(q[m + 1]) + 1] = e
        BY <1>4 DEF Grown
      <4> QED
        BY <1>2, <1>3, <4>1 DEF Has
    <3> QED
      BY <1>2, <3>1, <3>2 DEF BlocksThere
  <2>8. ItemsFew(wd, blk, <<>>, s2, q2)
    <3> SUFFICES ASSUME NEW c \in 0..Len(blk)
                 PROVE  Len(q2[c + 1]) <= (Len(wd) - Len(<<>>)) + (Len(blk) - Len(s2))
      BY DEF ItemsFew
    <3>1. Len(q[c + 1]) <= (Len(wd) - Len(<<>>)) + (Len(blk) - n) /\ Len(q[c + 1]) \in Nat
          /\ Len(q2[c + 1]) \in {Len(q[c + 1]), Len(q[c + 1]) + 1}
      BY <1>4, <2>1 DEF ItemsFew, Grown, n
    <3>2. PICK k \in Nat : k = Len(<<>>)
      OBVIOUS
    <3>3. Len(q[c + 1]) <= (Len(wd) - k) + (Len(blk) - n)
      BY <3>1, <3>2
    <3>4. Len(q2[c + 1]) <= (Len(wd) - k) + (Len(blk) - Len(s2))
      <4>1. Len(wd) \in Nat /\ Len(blk) \in Nat /\ n \in Nat /\ Len(s2) = n - 1
        BY <1>1, <1>2
      <4>2. Len(q2[c + 1]) <= Len(q[c + 1]) + 1 /\ Len(q[c + 1]) \in Nat
            /\ Len(q2[c + 1]) \in Nat
        BY <3>1
      <4> QED
        BY <3>3, <4>1, <4>2
    <3> QED
      BY <3>2, <3>4
  <2> QED
    BY <2>5, <2>6, <2>7, <2>8 DEF Placed
<1>8. Forward(nx) /\ hr[b] = 0 /\ nx[b] = 0
  BY <1>1, <1>2, GoesForward
<1>9. Continued(blk, s2, nx, hr)
  <2>1. \A c \in 1..Len(blk) : hr[c] # b
    <3> SUFFICES ASSUME NEW c \in 1..Len(blk), hr[c] = b PROVE FALSE
      OBVIOUS
    <3>1. ~Rooted(blk, hr[c])
      <4>1. hr[c] # 0
        BY <1>2
      <4> QED
        BY <1>1, <4>1 DEF Continued
    <3> QED
      BY <3>1 DEF b, n
  <2>2. \A c \in 1..Len(blk) : hr[c] \in OpenOf(s2) <=> hr[c] \in OpenOf(s)
    BY <1>2, <2>1
  <2> QED
    BY <1>1, <1>2, <2>2 DEF Continued
<1>10. Awaited(wd, blk, s2, q2, nx, hr)
  <2>1. ASSUME NEW i \in 1..Len(s2)
        PROVE  i \in 1..n /\ s2[i] = s[i] /\ q2[Below(s2, i) + 1] = q[Below(s, i) + 1]
    <3>1. i \in 1..n - 1 /\ i \in 1..n
      BY <1>2
    <3>2. Below(s2, i) \in 0..Len(blk)
      BY <1>1, <1>2, StackFacts
    <3>3. \A c \in 0..Len(blk) : c # m => q2[c + 1] = q[c + 1]
      BY <1>4 DEF Grown
    <3>4. Below(s2, i) # m /\ Below(s2, i) = Below(s, i) /\ s2[i] = s[i]
      BY <1>2, <3>1
    <3> QED
      BY <3>1, <3>2, <3>3, <3>4
  <2>2. Awaited(wd, blk, s, q, nx, hr)
    BY DEF Shape
  <2> QED
    BY <2>1, <2>2 DEF Awaited, n
<1>11. Ready(s2, q2, nx, hr, b)
  <2>1. /\ Len(q2[m + 1]) = Len(q[m + 1]) + 1 /\ q2[m + 1][Len(q2[m + 1])] = e
        /\ Len(q[m + 1]) \in Nat
    BY <1>4 DEF Grown
  <2>2. q2[m + 1] # <<>>
    BY <2>1
  <2>3. ChainEnd(nx, b) = b
    BY <1>1, <1>2, <1>8, ChainEndUnfolds
  <2> QED
    BY <1>3, <1>8, <2>1, <2>2, <2>3 DEF Ready, m
<1> QED
  BY <1>2, <1>5, <1>6, <1>7, <1>9, <1>10, <1>11 DEF Shape, q2, e, m, s2, b, n

\* A block that continues one is chained to it.
LEMMA ContinueKeeps ==
  ASSUME NEW wd, NEW blk, NEW s, NEW q, NEW nx, NEW hr,
         Shape(wd, blk, <<>>, s, q, nx, hr), s # <<>>, ~Rooted(blk, s[Len(s)])
  PROVE  LET b == s[Len(s)]  s2 == Front(s)
             items == q[InnerOf(s2) + 1]
             nx2 == [nx EXCEPT ![ChainEnd(nx, items[Len(items)].block)] = b]
         IN /\ items # <<>> /\ items[Len(items)].type = "code"
            /\ Shape(wd, blk, <<>>, s2, q, nx2, hr) /\ Ready(s2, q, nx2, hr, b)
<1> DEFINE n == Len(s)  b == s[n]  s2 == Front(s)  m == InnerOf(s2)
           items == q[m + 1]  root == items[Len(items)].block  d == ChainEnd(nx, root)
           nx2 == [nx EXCEPT ![d] = b]
<1>1. /\ Typed(wd, blk, <<>>, s, q, nx, hr) /\ Nested(blk, s) /\ Continued(blk, s, nx, hr)
      /\ blk \in Seq(BlockRec) /\ s \in Seq(Nat) /\ q \in Seq(Seq(ItemRec))
      /\ Len(q) = Len(blk) + 1 /\ wd \in Seq(WordRec) /\ Len(blk) \in Nat /\ Len(wd) \in Nat
      /\ nx \in Seq(Nat) /\ hr \in Seq(Nat) /\ Len(nx) = Len(blk) /\ Len(hr) = Len(blk)
  BY DEF Shape, Typed
<1>2. /\ n \in Nat /\ n >= 1 /\ b \in 1..Len(blk) /\ b \in OpenOf(s)
      /\ s2 \in Seq(Nat) /\ Len(s2) = n - 1 /\ Nested(blk, s2) /\ m \in 0..Len(blk)
      /\ \A i \in 1..n - 1 : s2[i] = s[i] /\ Below(s2, i) = Below(s, i) /\ Below(s2, i) # m
      /\ OpenOf(s2) = OpenOf(s) \ {b} /\ Closed(blk, s2) = Closed(blk, s) \cup {b}
      /\ m = Below(s, n)
  BY <1>1, BlockLeft
<1>3. Forward(nx) /\ hr[b] = 0 /\ nx[b] = 0
  BY <1>1, <1>2, GoesForward, SMTT(30)
\* What the last item of a queue is chained to is a block.
<1>4. ASSUME NEW i \in 1..n, ~Rooted(blk, s[i])
      PROVE  LET its == q[Below(s, i) + 1]
             IN /\ its # <<>> /\ its[Len(its)].type = "code"
                /\ its[Len(its)].block \in 1..Len(blk)
                /\ ChainEnd(nx, its[Len(its)].block) \in 1..Len(blk)
                /\ nx[ChainEnd(nx, its[Len(its)].block)] = 0
                /\ hr[ChainEnd(nx, its[Len(its)].block)] = s[i]
  <2> DEFINE its == q[Below(s, i) + 1]  r == its[Len(its)].block
  <2>1. GoesOn(its, nx, hr, s[i])
    BY <1>4 DEF Shape, Awaited
  <2>2. Below(s, i) \in 0..Len(blk)
    <3>1. i \in 1..Len(s)
      OBVIOUS
    <3> QED
      BY <1>1, <3>1, StackFacts
  <2>9. its \in Seq(ItemRec)
    <3>1. \A c \in 0..Len(blk) : q[c + 1] \in Seq(ItemRec)
      BY <1>1
    <3> QED
      BY <2>2, <3>1
  <2>3. Len(its) \in 1..Len(its) /\ its # <<>> /\ its[Len(its)].type = "code"
    BY <2>1, <2>9, EmptySeq DEF GoesOn
  <2>4. Fits(blk, s, its[Len(its)])
    BY <2>2, <2>3 DEF Shape, Placed, ItemsFit
  <2>5. r \in 1..Len(blk)
    BY <2>3, <2>4 DEF Fits, Closed
  <2>6. ChainEnd(nx, r) \in 1..Len(blk) /\ nx[ChainEnd(nx, r)] = 0
    BY <1>1, <1>3, <2>5, ChainEnds
  <2> QED
    BY <2>1, <2>3, <2>5, <2>6 DEF GoesOn
<1>5. /\ items # <<>> /\ items[Len(items)].type = "code" /\ root \in 1..Len(blk)
      /\ d \in 1..Len(blk) /\ nx[d] = 0 /\ hr[d] = b
  <2>1. n \in 1..n
    BY <1>2
  <2> QED
    BY <1>2, <1>4, <2>1
<1> HIDE DEF n, b, s2, m, items, root, d
<1>6. d < b
  <2>1. hr[d] # 0
    BY <1>2, <1>5
  <2> QED
    BY <1>1, <1>2, <1>5, <2>1 DEF Continued
<1>7. /\ nx2 \in Seq(Nat) /\ Len(nx2) = Len(blk) /\ nx2[d] = b
      /\ \A c \in 1..Len(blk) : c # d => nx2[c] = nx[c]
  <2>1. d \in 1..Len(nx) /\ b \in Nat /\ nx \in Seq(Nat) /\ Len(nx) = Len(blk)
    BY <1>1, <1>2, <1>5
  <2> QED
    BY <2>1, ExceptSeq
<1>8. /\ Forward(nx2)
      /\ \A c \in 1..Len(blk) : ChainEnd(nx, c) = d => ChainEnd(nx2, c) = b
  <2>1. /\ d \in 1..Len(nx) /\ b \in 1..Len(nx) /\ b > d /\ Forward(nx)
        /\ nx[d] = 0 /\ nx[b] = 0 /\ Len(nx) = Len(blk)
    BY <1>1, <1>2, <1>3, <1>5, <1>6
  <2>2. /\ Forward(nx2)
        /\ \A c \in 1..Len(nx) : ChainEnd(nx, c) = d => ChainEnd(nx2, c) = b
    BY <2>1, ChainGrows
  <2> QED
    BY <2>1, <2>2
<1> HIDE DEF nx2
<1>9. Typed(wd, blk, <<>>, s2, q, nx2, hr)
  BY <1>1, <1>2, <1>7 DEF Typed
<1>10. Homely(wd, blk, <<>>, s2, q)
  <2>1. AtHome(wd, <<>>, InnerOf(s2))
    BY DEF AtHome
  <2> QED
    BY <2>1 DEF Shape, Homely
<1>11. Placed(wd, blk, <<>>, s2, q)
  <2>1. /\ ItemsFit(blk, s, q) /\ ItemsApart(blk, q) /\ BlocksThere(blk, s, q)
        /\ ItemsFew(wd, blk, <<>>, s, q)
    BY DEF Shape, Placed
  <2>2. ItemsFit(blk, s2, q)
    BY <1>2, <2>1 DEF ItemsFit, Fits
  <2>3. BlocksThere(blk, s2, q)
    <3>1. ~Rooted(blk, b)
      BY DEF b, n
    <3> QED
      BY <1>2, <2>1, <3>1 DEF BlocksThere
  <2>4. ItemsFew(wd, blk, <<>>, s2, q)
    <3> SUFFICES ASSUME NEW c \in 0..Len(blk)
                 PROVE  Len(q[c + 1]) <= (Len(wd) - Len(<<>>)) + (Len(blk) - Len(s2))
      BY DEF ItemsFew
    <3>1. PICK k \in Nat : k = Len(<<>>)
      OBVIOUS
    <3>2. Len(q[c + 1]) <= (Len(wd) - k) + (Len(blk) - n)
      BY <2>1, <3>1 DEF ItemsFew, n
    <3>3. Len(q[c + 1]) \in Nat
      BY <1>1
    <3>4. Len(q[c + 1]) <= (Len(wd) - k) + (Len(blk) - Len(s2))
      <4>1. Len(wd) \in Nat /\ Len(blk) \in Nat /\ n \in Nat /\ Len(s2) = n - 1
        BY <1>1, <1>2
      <4> QED
        BY <3>2, <3>3, <4>1
    <3> QED
      BY <3>1, <3>4
  <2> QED
    BY <2>1, <2>2, <2>3, <2>4 DEF Placed
<1>12. Continued(blk, s2, nx2, hr)
  <2>1. \A x, y \in 1..Len(blk) : hr[x] = hr[y] /\ hr[x] # 0 => x = y
    BY <1>1 DEF Continued
  <2>2. ASSUME NEW x \in 1..Len(blk)
        PROVE  nx2[x] = IF hr[x] \in OpenOf(s2) THEN 0 ELSE hr[x]
    <3>1. CASE x = d
      BY <1>2, <1>5, <1>7, <3>1
    <3>2. CASE x # d
      <4>1. hr[x] # b
        BY <1>2, <1>5, <2>1, <3>2
      <4>2. nx[x] = IF hr[x] \in OpenOf(s) THEN 0 ELSE hr[x]
        BY <1>1 DEF Continued
      <4> QED
        BY <1>2, <1>7, <3>2, <4>1, <4>2
    <3> QED
      BY <3>1, <3>2
  <2>3. \A x \in 1..Len(blk) : hr[x] # 0 => /\ hr[x] > x /\ hr[x] <= Len(blk) /\ x \notin OpenOf(s2)
                                            /\ ~Rooted(blk, hr[x])
    BY <1>1, <1>2 DEF Continued
  <2>4. \A c \in 1..Len(blk) : ~Rooted(blk, c) => \E x \in 1..Len(blk) : hr[x] = c
    BY <1>1 DEF Continued
  <2> QED
    BY <2>1, <2>2, <2>3, <2>4 DEF Continued
<1>13. Awaited(wd, blk, s2, q, nx2, hr)
  <2> SUFFICES ASSUME NEW i \in 1..Len(s2)
               PROVE  /\ ~Rooted(blk, s2[i]) => GoesOn(q[Below(s2, i) + 1], nx2, hr, s2[i])
                      /\ blk[s2[i]].keyword = "fun" => Signed(wd, q[Below(s2, i) + 1])
    BY DEF Awaited
  <2>1. i \in 1..n /\ s2[i] = s[i] /\ Below(s2, i) = Below(s, i) /\ s[i] # b
    <3>1. i \in 1..n - 1 /\ i \in 1..n
      BY <1>2
    <3>2. s2[i] \in OpenOf(s2)
      BY DEF OpenOf
    <3> QED
      BY <1>2, <3>1, <3>2
  <2>2. blk[s[i]].keyword = "fun" => Signed(wd, q[Below(s, i) + 1])
    BY <2>1 DEF Shape, Awaited, n
  <2>3. ASSUME ~Rooted(blk, s[i])
        PROVE  GoesOn(q[Below(s, i) + 1], nx2, hr, s[i])
    <3> DEFINE its == q[Below(s, i) + 1]  r == its[Len(its)].block
    <3>1. /\ its # <<>> /\ its[Len(its)].type = "code" /\ r \in 1..Len(blk)
          /\ ChainEnd(nx, r) \in 1..Len(blk) /\ hr[ChainEnd(nx, r)] = s[i]
      BY <1>4, <2>1, <2>3
    <3>2. ChainEnd(nx, r) # d
      BY <1>5, <2>1, <3>1
    <3> HIDE DEF its, r
    <3>3. ChainEnd(nx2, r) = ChainEnd(nx, r)
      <4>1. /\ Forward(nx) /\ Forward(nx2) /\ Len(nx) <= Len(nx2) /\ r \in 1..Len(nx)
            /\ \A c \in 1..Len(nx) : c # d => nx2[c] = nx[c]
            /\ nx[d] = 0 /\ ChainEnd(nx, r) # d
        BY <1>1, <1>3, <1>5, <1>7, <1>8, <3>1, <3>2
      <4> QED
        BY <4>1, ChainKeeps
    <3> QED
      BY <3>1, <3>3 DEF GoesOn, its, r
  <2> QED
    BY <2>1, <2>2, <2>3
<1>14. Ready(s2, q, nx2, hr, b)
  <2>1. ChainEnd(nx2, root) = b
    BY <1>5, <1>8 DEF d
  <2> QED
    BY <1>3, <1>5, <2>1 DEF Ready, items, root, m
<1> QED
  BY <1>2, <1>5, <1>9, <1>10, <1>11, <1>12, <1>13, <1>14
     DEF Shape, nx2, d, root, items, m, s2, b, n

\* A function takes the place of the line of its signature.
LEMMA FunctionKeeps ==
  ASSUME NEW wd, NEW blk, NEW s, NEW q, NEW nx, NEW hr,
         Shape(wd, blk, <<>>, s, q, nx, hr), s # <<>>, blk[s[Len(s)]].keyword = "fun"
  PROVE  LET b == s[Len(s)]  s2 == Front(s)
             q1 == [q EXCEPT ![1] = Front(@)]
             q2 == [q1 EXCEPT ![InnerOf(s2) + 1] = Append(@, Item("function", b))]
         IN Signed(wd, q[1]) /\ Shape(wd, blk, <<>>, s2, q2, nx, hr)
<1> DEFINE n == Len(s)  b == s[n]  s2 == Front(s)  e == Item("function", b)
           q1 == [q EXCEPT ![1] = Front(@)]
           q2 == [q1 EXCEPT ![InnerOf(s2) + 1] = Append(@, e)]
           l == Len(q[1])
<1>1. /\ Typed(wd, blk, <<>>, s, q, nx, hr) /\ Nested(blk, s) /\ Continued(blk, s, nx, hr)
      /\ blk \in Seq(BlockRec) /\ s \in Seq(Nat) /\ q \in Seq(Seq(ItemRec))
      /\ Len(q) = Len(blk) + 1 /\ wd \in Seq(WordRec) /\ Len(blk) \in Nat /\ Len(wd) \in Nat
      /\ nx \in Seq(Nat) /\ hr \in Seq(Nat) /\ Len(nx) = Len(blk) /\ Len(hr) = Len(blk)
  BY DEF Shape, Typed
<1>2. /\ n \in Nat /\ n >= 1 /\ b \in 1..Len(blk) /\ b \in OpenOf(s)
      /\ s2 \in Seq(Nat) /\ Len(s2) = n - 1 /\ Nested(blk, s2)
      /\ \A i \in 1..n - 1 : /\ s2[i] = s[i] /\ Below(s2, i) = Below(s, i)
                             /\ Below(s2, i) # InnerOf(s2)
      /\ OpenOf(s2) = OpenOf(s) \ {b} /\ Closed(blk, s2) = Closed(blk, s) \cup {b}
      /\ InnerOf(s2) = Below(s, n)
  BY <1>1, BlockLeft
<1>3. e \in ItemRec /\ e.type = "function" /\ e.block = b /\ e.words = <<>>
  BY <1>2 DEF Item, ItemRec
<1>4. InnerOf(s2) = 0 /\ Signed(wd, q[1])
  <2>1. n \in 1..Len(s) /\ blk[b].keyword = "fun"
    BY <1>2
  <2>2. blk[b].home = 0 /\ blk[b].home = Below(s, n)
    BY <1>1, <1>2, <2>1 DEF Nested
  <2>3. Signed(wd, q[Below(s, n) + 1])
    BY <2>1 DEF Shape, Awaited
  <2> QED
    BY <1>2, <2>2, <2>3
<1>5. Rooted(blk, b)
  BY DEF Rooted, BlockClosers, BlockOpeners
<1>6. 1 \in 1..Len(q) /\ q[1] \in Seq(ItemRec)
  <2>1. 1 \in 1..Len(q)
    BY <1>1
  <2> QED
    BY <1>1, <2>1
<1>7. /\ l \in Nat /\ l >= 1 /\ Front(q[1]) \in Seq(ItemRec) /\ Len(Front(q[1])) = l - 1
      /\ \A i \in 1..l - 1 : Front(q[1])[i] = q[1][i]
  <2>1. q[1] # <<>>
    BY <1>4 DEF Signed
  <2> QED
    BY <1>6, <2>1, Shortened
<1> HIDE DEF n, b, s2, e, l
<1>8. /\ Append(Front(q[1]), e) \in Seq(ItemRec) /\ Len(Append(Front(q[1]), e)) = l
      /\ Append(Front(q[1]), e)[l] = e
      /\ \A i \in 1..l - 1 : Append(Front(q[1]), e)[i] = q[1][i]
  <2>1. /\ Append(Front(q[1]), e) \in Seq(ItemRec)
        /\ Len(Append(Front(q[1]), e)) = (l - 1) + 1
        /\ \A i \in 1..l - 1 : Append(Front(q[1]), e)[i] = Front(q[1])[i]
        /\ Append(Front(q[1]), e)[(l - 1) + 1] = e
    BY <1>3, <1>7, Appended
  <2>2. (l - 1) + 1 = l
    BY <1>7
  <2> QED
    BY <1>7, <2>1, <2>2
<1>9. /\ q2 \in Seq(Seq(ItemRec)) /\ Len(q2) = Len(q) /\ q2[1] = Append(Front(q[1]), e)
      /\ \A c \in 1..Len(q) : c # 1 => q2[c] = q[c]
  <2>1. q1 \in Seq(Seq(ItemRec)) /\ Len(q1) = Len(q) /\ q1[1] = Front(q[1])
        /\ \A c \in 1..Len(q) : c # 1 => q1[c] = q[c]
    <3>1. q \in Seq(Seq(ItemRec)) /\ 1 \in 1..Len(q) /\ Front(q[1]) \in Seq(ItemRec)
      BY <1>1, <1>6, <1>7
    <3> QED
      BY <3>1, ExceptSeq
  <2>2. q2 = [q1 EXCEPT ![1] = Append(@, e)]
    BY <1>4
  <2> HIDE DEF q1, q2
  <2>3. q2 = [q1 EXCEPT ![1] = Append(Front(q[1]), e)]
    BY <2>1, <2>2
  <2>4. /\ [q1 EXCEPT ![1] = Append(Front(q[1]), e)] \in Seq(Seq(ItemRec))
        /\ Len([q1 EXCEPT ![1] = Append(Front(q[1]), e)]) = Len(q1)
        /\ [q1 EXCEPT ![1] = Append(Front(q[1]), e)][1] = Append(Front(q[1]), e)
        /\ \A c \in 1..Len(q1) : c # 1 => [q1 EXCEPT ![1] = Append(Front(q[1]), e)][c] = q1[c]
    <3>1. 1 \in 1..Len(q1)
      BY <1>6, <2>1
    <3> QED
      BY <1>8, <2>1, <3>1, ExceptSeq
  <2> QED
    BY <2>1, <2>3, <2>4
<1> HIDE DEF q1, q2
<1>10. ASSUME NEW c \in 0..Len(blk)
       PROVE  /\ c # 0 => q2[c + 1] = q[c + 1]
              /\ Len(q2[c + 1]) = Len(q[c + 1]) /\ Len(q[c + 1]) \in Nat
              /\ \A i \in 1..Len(q[c + 1]) :
                   \/ i \in 1..Len(q2[c + 1]) /\ q2[c + 1][i] = q[c + 1][i]
                   \/ c = 0 /\ i = l /\ q2[c + 1][i] = e
  <2>1. c + 1 \in 1..Len(q)
    BY <1>1
  <2>2. Len(q[c + 1]) \in Nat
    BY <1>1, <2>1
  <2>3. CASE c = 0
    <3>1. Len(q[c + 1]) = l /\ q2[c + 1] = Append(Front(q[1]), e)
      BY <1>9, <2>3 DEF l
    <3>2. \A i \in 1..l : i = l \/ i \in 1..l - 1
      BY <1>7
    <3> QED
      BY <1>7, <1>8, <2>2, <2>3, <3>1, <3>2
  <2>4. CASE c # 0
    <3>1. c + 1 # 1
      BY <2>4
    <3>2. q2[c + 1] = q[c + 1]
      BY <1>9, <2>1, <3>1
    <3> QED
      BY <2>2, <2>4, <3>2
  <2> QED
    BY <2>3, <2>4
<1>11. Typed(wd, blk, <<>>, s2, q2, nx, hr)
  BY <1>1, <1>2, <1>9 DEF Typed
<1>12. Homely(wd, blk, <<>>, s2, q2)
  <2>1. \A c : AtHome(wd, <<>>, c)
    BY DEF AtHome
  <2>2. ASSUME NEW c \in 0..Len(blk), NEW i \in 1..Len(q2[c + 1])
        PROVE  AtHome(wd, q2[c + 1][i].words, c)
    <3>1. i \in 1..Len(q[c + 1])
      BY <1>10, <2>2
    <3>2. CASE q2[c + 1][i] = q[c + 1][i]
      BY <3>1, <3>2 DEF Shape, Homely
    <3>3. CASE q2[c + 1][i] = e
      BY <1>3, <2>1, <3>3
    <3> QED
      BY <1>10, <3>1, <3>2, <3>3
  <2> QED
    BY <2>1, <2>2 DEF Homely
<1>13. Placed(wd, blk, <<>>, s2, q2)
  <2>1. /\ ItemsFit(blk, s, q) /\ ItemsApart(blk, q) /\ BlocksThere(blk, s, q)
        /\ ItemsFew(wd, blk, <<>>, s, q)
    BY DEF Shape, Placed
  <2>2. \A item : Fits(blk, s, item) => Fits(blk, s2, item) /\ item.block # b
    BY <1>2 DEF Fits, Closed
  <2>3. ASSUME NEW c \in 0..Len(blk), NEW i \in 1..Len(q2[c + 1])
        PROVE  \/ i \in 1..Len(q[c + 1]) /\ q2[c + 1][i] = q[c + 1][i] /\ Fits(blk, s, q[c + 1][i])
               \/ c = 0 /\ i = l /\ q2[c + 1][i] = e
    <3>1. i \in 1..Len(q[c + 1])
      BY <1>10, <2>3
    <3>2. Fits(blk, s, q[c + 1][i])
      BY <2>1, <3>1 DEF ItemsFit
    <3> QED
      BY <1>10, <3>1, <3>2
  <2>4. Fits(blk, s2, e)
    BY <1>2, <1>3, <1>5 DEF Fits
  <2>5. ItemsFit(blk, s2, q2)
    BY <2>2, <2>3, <2>4 DEF ItemsFit
  <2>6. ItemsApart(blk, q2)
    <3> SUFFICES ASSUME NEW c \in 0..Len(blk), NEW d \in 0..Len(blk),
                        NEW i \in 1..Len(q2[c + 1]), NEW j \in 1..Len(q2[d + 1]),
                        q2[c + 1][i].block = q2[d + 1][j].block, q2[c + 1][i].block # 0
                 PROVE  c = d /\ i = j
      BY SMTT(30) DEF ItemsApart
    <3>1. CASE i \in 1..Len(q[c + 1]) /\ q2[c + 1][i] = q[c + 1][i] /\ Fits(blk, s, q[c + 1][i])
      <4>1. q2[d + 1][j].block # b
        BY <2>2, <3>1
      <4>2. j \in 1..Len(q[d + 1]) /\ q2[d + 1][j] = q[d + 1][j]
        BY <1>3, <2>3, <4>1
      <4> QED
        BY <2>1, <3>1, <4>2 DEF ItemsApart
    <3>2. CASE c = 0 /\ i = l /\ q2[c + 1][i] = e
      <4>1. q2[d + 1][j].block = b
        BY <1>3, <3>2
      <4>2. d = 0 /\ j = l
        BY <2>2, <2>3, <4>1
      <4> QED
        BY <3>2, <4>2
    <3> QED
      BY <2>3, <3>1, <3>2
  <2>7. BlocksThere(blk, s2, q2)
    <3>1. ASSUME NEW x \in Closed(blk, s), Rooted(blk, x)
          PROVE  Has(blk, q2, x)
      <4>1. PICK c \in 0..Len(blk) : \E i \in 1..Len(q[c + 1]) : q[c + 1][i].block = x
        BY <2>1, <3>1 DEF BlocksThere, Has
      <4>2. PICK i \in 1..Len(q[c + 1]) : q[c + 1][i].block = x
        BY <4>1
      <4>3. ~(c = 0 /\ i = l)
        <5> SUFFICES ASSUME c = 0, i = l PROVE FALSE
          OBVIOUS
        <5>1. q[c + 1][i].type = "line" /\ q[c + 1][i].words # <<>>
          BY <1>4 DEF Signed, l
        <5>2. q[c + 1][i].block = 0
          <6>1. Fits(blk, s, q[c + 1][i])
            BY <2>1, <4>2 DEF ItemsFit
          <6> QED
            BY <5>1, <6>1 DEF Fits
        <5>3. x # 0
          BY <1>1 DEF Closed
        <5> QED
          BY <4>2, <5>2, <5>3
      <4>4. i \in 1..Len(q2[c + 1]) /\ q2[c + 1][i] = q[c + 1][i]
        BY <1>10, <4>3
      <4> QED
        BY <4>2, <4>4 DEF Has
    <3>2. Has(blk, q2, b)
      <4>1. 0 \in 0..Len(blk) /\ 0 + 1 = 1
        BY <1>1
      <4>2. l \in 1..Len(q2[1]) /\ q2[1][l] = e
        BY <1>7, <1>8, <1>9
      <4> QED
        BY <1>3, <4>1, <4>2 DEF Has
    <3> QED
      BY <1>2, <3>1, <3>2 DEF BlocksThere
  <2>8. ItemsFew(wd, blk, <<>>, s2, q2)
    <3> SUFFICES ASSUME NEW c \in 0..Len(blk)
                 PROVE  Len(q2[c + 1]) <= (Len(wd) - Len(<<>>)) + (Len(blk) - Len(s2))
      BY DEF ItemsFew
    <3>1. PICK k \in Nat : k = Len(<<>>)
      OBVIOUS
    <3>2. Len(q[c + 1]) <= (Len(wd) - k) + (Len(blk) - n) /\ Len(q2[c + 1]) = Len(q[c + 1])
      BY <1>10, <2>1, <3>1 DEF ItemsFew, n
    <3>3. Len(q2[c + 1]) <= (Len(wd) - k) + (Len(blk) - Len(s2))
      <4>1. Len(wd) \in Nat /\ Len(blk) \in Nat /\ n \in Nat /\ Len(s2) = n - 1
        BY <1>1, <1>2
      <4>2. Len(q[c + 1]) \in Nat
        BY <1>10
      <4> QED
        BY <3>2, <4>1, <4>2
    <3> QED
      BY <3>1, <3>3
  <2> QED
    BY <2>5, <2>6, <2>7, <2>8 DEF Placed
<1>14. Continued(blk, s2, nx, hr)
  <2>1. \A c \in 1..Len(blk) : hr[c] # b
    <3> SUFFICES ASSUME NEW c \in 1..Len(blk), hr[c] = b PROVE FALSE
      OBVIOUS
    <3>1. hr[c] # 0
      BY <1>2
    <3>2. ~Rooted(blk, hr[c])
      BY <1>1, <3>1 DEF Continued
    <3> QED
      BY <1>5, <3>2
  <2>2. \A c \in 1..Len(blk) : hr[c] \in OpenOf(s2) <=> hr[c] \in OpenOf(s)
    BY <1>2, <2>1
  <2> QED
    BY <1>1, <1>2, <2>2 DEF Continued
<1>15. Awaited(wd, blk, s2, q2, nx, hr)
  <2>1. ASSUME NEW i \in 1..Len(s2)
        PROVE  i \in 1..n /\ s2[i] = s[i] /\ q2[Below(s2, i) + 1] = q[Below(s, i) + 1]
    <3>1. i \in 1..n - 1 /\ i \in 1..n
      BY <1>2
    <3>2. Below(s2, i) \in 0..Len(blk)
      BY <1>1, <1>2, StackFacts
    <3>3. Below(s2, i) # 0 /\ Below(s2, i) = Below(s, i) /\ s2[i] = s[i]
      BY <1>2, <1>4, <3>1
    <3> QED
      BY <1>10, <3>1, <3>2, <3>3
  <2>2. Awaited(wd, blk, s, q, nx, hr)
    BY DEF Shape
  <2> QED
    BY <2>1, <2>2 DEF Awaited, n
<1> QED
  BY <1>2, <1>4, <1>11, <1>12, <1>13, <1>14, <1>15 DEF Shape, q2, q1, e, s2, b, n

-----------------------------------------------------------------------------
(* An opener *)

\* A queue that ends with a code block ends with a chain of blocks.
LEMMA ChainBehind ==
  ASSUME NEW wd, NEW blk, NEW ln, NEW s, NEW q, NEW nx, NEW hr,
         Shape(wd, blk, ln, s, q, nx, hr), NEW c \in 0..Len(blk),
         q[c + 1] # <<>>, q[c + 1][Len(q[c + 1])].type = "code"
  PROVE  LET r == q[c + 1][Len(q[c + 1])].block
         IN r \in 1..Len(blk) /\ ChainEnd(nx, r) \in 1..Len(blk) /\ nx[ChainEnd(nx, r)] = 0
<1> DEFINE items == q[c + 1]  r == items[Len(items)].block
<1>1. /\ Typed(wd, blk, ln, s, q, nx, hr) /\ Continued(blk, s, nx, hr)
      /\ blk \in Seq(BlockRec) /\ q \in Seq(Seq(ItemRec)) /\ Len(q) = Len(blk) + 1
      /\ nx \in Seq(Nat) /\ hr \in Seq(Nat) /\ Len(nx) = Len(blk) /\ Len(hr) = Len(blk)
      /\ Len(blk) \in Nat
  BY DEF Shape, Typed
<1>2. items \in Seq(ItemRec)
  <2>1. c + 1 \in 1..Len(q)
    BY <1>1
  <2> QED
    BY <1>1, <2>1
<1>3. Len(items) \in 1..Len(items)
  BY <1>2, EmptySeq
<1>4. Fits(blk, s, items[Len(items)])
  BY <1>3 DEF Shape, Placed, ItemsFit
<1>5. r \in 1..Len(blk)
  BY <1>4 DEF Fits, Closed
<1>6. Forward(nx)
  BY <1>1, GoesForward
<1>7. ChainEnd(nx, r) \in 1..Len(blk) /\ nx[ChainEnd(nx, r)] = 0
  BY <1>1, <1>5, <1>6, ChainEnds
<1> QED
  BY <1>5, <1>7

\* The new block is the innermost one.
LEMMA BlockEntered ==
  ASSUME NEW blk \in Seq(BlockRec), NEW s \in Seq(Nat), Nested(blk, s),
         NEW k \in DOMAIN BlockOpeners, k = "fun" => s = <<>>
  PROVE  LET nb == Len(blk) + 1
             blk2 == Append(blk, [keyword |-> k, home |-> InnerOf(s)])
             s2 == Append(s, nb)
         IN /\ blk2 \in Seq(BlockRec) /\ Len(blk2) = nb /\ Len(blk) \in Nat
            /\ blk2[nb] = [keyword |-> k, home |-> InnerOf(s)]
            /\ \A b \in 1..Len(blk) : blk2[b] = blk[b]
            /\ s2 \in Seq(Nat) /\ Len(s2) = Len(s) + 1 /\ Len(s) \in Nat /\ s2[Len(s) + 1] = nb
            /\ Below(s2, Len(s) + 1) = InnerOf(s) /\ InnerOf(s) \in 0..Len(blk)
            /\ InnerOf(s2) = nb
            /\ \A i \in 1..Len(s) : s2[i] = s[i] /\ Below(s2, i) = Below(s, i)
            /\ Nested(blk2, s2)
            /\ OpenOf(s2) = OpenOf(s) \cup {nb} /\ Closed(blk2, s2) = Closed(blk, s)
<1> DEFINE nb == Len(blk) + 1  w == [keyword |-> k, home |-> InnerOf(s)]
           blk2 == Append(blk, w)  s2 == Append(s, nb)  n == Len(s)
<1>1. /\ Len(blk) \in Nat /\ n \in Nat /\ InnerOf(s) = (IF s = <<>> THEN 0 ELSE s[n])
      /\ InnerOf(s) \in 0..Len(blk) /\ (s # <<>> => n >= 1)
  BY StackFacts
<1>2. w \in BlockRec /\ w.keyword = k /\ w.home = InnerOf(s)
  BY <1>1 DEF BlockRec
<1>3. nb \in Nat /\ \A b \in 1..nb : b \in 1..Len(blk) \/ b = nb
  BY <1>1
<1> HIDE DEF w, nb
<1>4. /\ blk2 \in Seq(BlockRec) /\ Len(blk2) = nb /\ blk2[nb] = w
      /\ \A b \in 1..Len(blk) : blk2[b] = blk[b]
  BY <1>2, Appended DEF nb
<1>5. /\ s2 \in Seq(Nat) /\ Len(s2) = n + 1 /\ s2[n + 1] = nb
      /\ \A i \in 1..n : s2[i] = s[i]
  BY <1>3, Appended
<1> HIDE DEF blk2, s2, n
<1>6. ASSUME NEW i \in 1..n + 1
      PROVE  i = n + 1 \/ i \in 1..n
  BY <1>1
<1>7. Below(s2, n + 1) = InnerOf(s)
  <2>1. CASE s = <<>>
    <3>1. n = 0
      BY <2>1 DEF n
    <3> QED
      BY <1>1, <2>1, <3>1 DEF Below
  <2>2. CASE s # <<>>
    <3>1. n + 1 # 1 /\ (n + 1) - 1 = n /\ n \in 1..n
      BY <1>1, <2>2
    <3> QED
      BY <1>1, <1>5, <2>2, <3>1 DEF Below
  <2> QED
    BY <2>1, <2>2
<1>8. ASSUME NEW i \in 1..n
      PROVE  s2[i] = s[i] /\ Below(s2, i) = Below(s, i)
  <2>1. i # 1 => i - 1 \in 1..n
    BY <1>1
  <2> QED
    BY <1>5, <2>1 DEF Below
<1>9. InnerOf(s2) = nb
  <2>1. s2 # <<>>
    BY <1>1, <1>5
  <2> QED
    BY <1>5, <2>1 DEF InnerOf, Last
<1>10. \A i \in 1..n : s[i] \in 1..Len(blk) /\ s[i] < nb /\ blk[s[i]].home = Below(s, i)
  BY <1>1 DEF Nested, nb, n
<1>11. Nested(blk2, s2)
  <2>1. ASSUME NEW b \in 1..nb
        PROVE  blk2[b].home < b /\ (blk2[b].keyword = "fun" => blk2[b].home = 0)
    <3>1. CASE b = nb
      BY <1>1, <1>2, <1>4, <3>1 DEF nb
    <3>2. CASE b \in 1..Len(blk)
      BY <1>4, <3>2 DEF Nested
    <3> QED
      BY <1>3, <3>1, <3>2
  <2>2. ASSUME NEW i \in 1..n + 1
        PROVE  s2[i] \in 1..nb /\ blk2[s2[i]].home = Below(s2, i)
    <3>1. CASE i = n + 1
      BY <1>1, <1>2, <1>4, <1>5, <1>7, <3>1 DEF nb
    <3>2. CASE i \in 1..n
      <4>1. s[i] \in 1..Len(blk) /\ s[i] \in 1..nb
        BY <1>1, <1>10, <3>2 DEF nb
      <4> QED
        BY <1>4, <1>8, <1>10, <3>2, <4>1
    <3> QED
      BY <1>6, <3>1, <3>2
  <2>3. ASSUME NEW i \in 1..n + 1, NEW j \in 1..n + 1, i < j
        PROVE  s2[i] < s2[j]
    <3>1. i \in 1..n
      BY <1>1, <2>3
    <3>2. CASE j = n + 1
      BY <1>5, <1>10, <3>1, <3>2
    <3>3. CASE j \in 1..n
      BY <1>5, <2>3, <3>1, <3>3 DEF Nested, n
    <3> QED
      BY <1>6, <3>2, <3>3
  <2> QED
    BY <1>4, <1>5, <2>1, <2>2, <2>3 DEF Nested
<1>12. OpenOf(s2) = OpenOf(s) \cup {nb}
  <2>1. n + 1 \in 1..n + 1 /\ \A i \in 1..n : i \in 1..n + 1
    BY <1>1
  <2> QED
    BY <1>5, <1>6, <2>1 DEF OpenOf, n
<1>13. Closed(blk2, s2) = Closed(blk, s)
  <2>1. 1..nb = (1..Len(blk)) \cup {nb} /\ nb \notin 1..Len(blk)
    BY <1>1 DEF nb
  <2> QED
    BY <1>4, <1>12, <2>1 DEF Closed
<1> QED
  BY <1>1, <1>4, <1>5, <1>7, <1>8, <1>9, <1>11, <1>12, <1>13 DEF blk2, s2, nb, n, w

\* A block is opened, on its own or as what continues block b.
LEMMA OpenKeeps ==
  ASSUME NEW wd, NEW blk, NEW s, NEW q, NEW nx, NEW hr,
         Shape(wd, blk, <<>>, s, q, nx, hr), Len(blk) < MaxBlocks,
         NEW k \in DOMAIN BlockOpeners, k = "fun" => s = <<>> /\ Signed(wd, q[1]),
         NEW hr1 \in Seq(Nat), Len(hr1) = Len(hr),
         \/ k \notin BlockClosers /\ hr1 = hr
         \/ /\ k \in BlockClosers
            /\ \E b \in Closed(blk, s) : /\ Ready(s, q, nx, hr, b)
                                         /\ hr1 = [hr EXCEPT ![b] = Len(blk) + 1]
  PROVE  Shape(wd, Append(blk, [keyword |-> k, home |-> InnerOf(s)]), <<>>,
               Append(s, Len(blk) + 1), Append(q, <<>>), Append(nx, 0), Append(hr1, 0))
<1> DEFINE nb == Len(blk) + 1  n == Len(s)
           blk2 == Append(blk, [keyword |-> k, home |-> InnerOf(s)])
           s2 == Append(s, nb)  q2 == Append(q, <<>>)
           nx2 == Append(nx, 0)  hr2 == Append(hr1, 0)
<1>1. /\ Typed(wd, blk, <<>>, s, q, nx, hr) /\ Nested(blk, s) /\ Continued(blk, s, nx, hr)
      /\ blk \in Seq(BlockRec) /\ s \in Seq(Nat) /\ q \in Seq(Seq(ItemRec))
      /\ Len(q) = Len(blk) + 1 /\ wd \in Seq(WordRec) /\ Len(blk) \in Nat /\ Len(wd) \in Nat
      /\ nx \in Seq(Nat) /\ hr \in Seq(Nat) /\ Len(nx) = Len(blk) /\ Len(hr) = Len(blk)
  BY DEF Shape, Typed
<1>2. /\ blk2 \in Seq(BlockRec) /\ Len(blk2) = nb
      /\ blk2[nb].keyword = k /\ blk2[nb].home = InnerOf(s)
      /\ \A b \in 1..Len(blk) : blk2[b] = blk[b]
      /\ s2 \in Seq(Nat) /\ Len(s2) = n + 1 /\ n \in Nat /\ s2[n + 1] = nb
      /\ Below(s2, n + 1) = InnerOf(s) /\ InnerOf(s) \in 0..Len(blk)
      /\ \A i \in 1..n : s2[i] = s[i] /\ Below(s2, i) = Below(s, i)
      /\ Nested(blk2, s2)
      /\ OpenOf(s2) = OpenOf(s) \cup {nb} /\ Closed(blk2, s2) = Closed(blk, s)
  BY <1>1, BlockEntered
<1>3. nb \in Nat /\ nb >= 1 /\ \A b \in 1..nb : b \in 1..Len(blk) \/ b = nb
  <2>1. Len(blk) \in Nat
    BY <1>1
  <2> QED
    BY <2>1
<1>4. \A b \in 1..Len(blk) : b < nb /\ b \in 1..nb /\ b # nb
  <2>1. Len(blk) \in Nat
    BY <1>1
  <2> QED
    BY <2>1
<1>5. \A b \in 0..nb : b \in 0..Len(blk) \/ b = nb
  <2>1. Len(blk) \in Nat
    BY <1>1
  <2> QED
    BY <2>1
<1> HIDE DEF blk2, s2
<1>6. /\ q2 \in Seq(Seq(ItemRec)) /\ Len(q2) = nb + 1
      /\ \A b \in 0..Len(blk) : q2[b + 1] = q[b + 1]
      /\ q2[nb + 1] = <<>>
  <2>1. <<>> \in Seq(ItemRec)
    OBVIOUS
  <2>2. /\ q2 \in Seq(Seq(ItemRec)) /\ Len(q2) = Len(q) + 1
        /\ \A i \in 1..Len(q) : q2[i] = q[i]
        /\ q2[Len(q) + 1] = <<>>
    BY <1>1, <2>1, Appended
  <2>3. \A b \in 0..Len(blk) : b + 1 \in 1..Len(q)
    BY <1>1
  <2> QED
    BY <1>1, <2>2, <2>3
<1>7. nx2 \in Seq(Nat) /\ Len(nx2) = nb /\ nx2[nb] = 0 /\ \A b \in 1..Len(blk) : nx2[b] = nx[b]
  BY <1>1, Appended
<1>8. hr2 \in Seq(Nat) /\ Len(hr2) = nb /\ hr2[nb] = 0 /\ \A b \in 1..Len(blk) : hr2[b] = hr1[b]
  BY <1>1, Appended
<1> HIDE DEF nb, n, q2, nx2, hr2
\* Only the block that goes on has a new heir.
<1>9. ASSUME NEW b \in 1..Len(blk)
      PROVE  \/ hr2[b] = hr[b] /\ hr2[b] # nb
             \/ /\ k \in BlockClosers /\ Ready(s, q, nx, hr, b) /\ b \in Closed(blk, s)
                /\ hr2[b] = nb
  <2>1. hr[b] # nb
    <3>1. hr[b] # 0 => hr[b] <= Len(blk)
      BY <1>1 DEF Continued
    <3>2. nb = Len(blk) + 1 /\ Len(blk) \in Nat
      BY <1>1 DEF nb
    <3> QED
      BY <3>1, <3>2
  <2>2. CASE k \notin BlockClosers
    BY <1>8, <2>1, <2>2
  <2>3. CASE k \in BlockClosers
    <3>1. PICK x \in Closed(blk, s) : /\ Ready(s, q, nx, hr, x) /\ hr1 = [hr EXCEPT ![x] = nb]
      BY <2>3 DEF nb
    <3>2. x \in 1..Len(hr)
      BY <1>1 DEF Closed
    <3>3. hr1[x] = nb /\ \A y \in 1..Len(hr) : y # x => hr1[y] = hr[y]
      BY <1>1, <1>3, <3>1, <3>2, ExceptSeq
    <3> QED
      BY <1>1, <1>8, <2>1, <2>3, <3>1, <3>3
  <2> QED
    BY <2>2, <2>3
<1>10. Typed(wd, blk2, <<>>, s2, q2, nx2, hr2)
  <2>1. Len(blk2) <= MaxBlocks
    BY <1>1, <1>2, LexerAssumption DEF nb
  <2> QED
    BY <1>1, <1>2, <1>6, <1>7, <1>8, <2>1 DEF Typed
<1>11. Homely(wd, blk2, <<>>, s2, q2)
  <2>1. AtHome(wd, <<>>, InnerOf(s2))
    BY DEF AtHome
  <2>2. ASSUME NEW b \in 0..nb, NEW i \in 1..Len(q2[b + 1])
        PROVE  AtHome(wd, q2[b + 1][i].words, b)
    <3>1. b \in 0..Len(blk)
      BY <1>5, <1>6
    <3> QED
      BY <1>6, <3>1 DEF Shape, Homely
  <2> QED
    BY <1>2, <2>1, <2>2 DEF Homely
<1>12. \A b \in 1..Len(blk) : Rooted(blk2, b) <=> Rooted(blk, b)
  BY <1>2 DEF Rooted
<1>13. Placed(wd, blk2, <<>>, s2, q2)
  <2>1. /\ ItemsFit(blk, s, q) /\ ItemsApart(blk, q) /\ BlocksThere(blk, s, q)
        /\ ItemsFew(wd, blk, <<>>, s, q)
    BY DEF Shape, Placed
  <2>2. ASSUME NEW b \in 0..nb, NEW i \in 1..Len(q2[b + 1])
        PROVE  b \in 0..Len(blk) /\ i \in 1..Len(q[b + 1]) /\ q2[b + 1][i] = q[b + 1][i]
    <3>1. b \in 0..Len(blk)
      BY <1>5, <1>6
    <3> QED
      BY <1>6, <3>1
  <2>3. ASSUME NEW item, Fits(blk, s, item)
        PROVE  Fits(blk2, s2, item)
    <3>1. item.block \in Closed(blk, s) => item.block \in 1..Len(blk)
      BY DEF Closed
    <3> QED
      BY <1>2, <1>12, <2>3, <3>1 DEF Fits
  <2>4. ItemsFit(blk2, s2, q2)
    BY <1>2, <2>1, <2>2, <2>3 DEF ItemsFit
  <2>5. ItemsApart(blk2, q2)
    <3> SUFFICES ASSUME NEW c \in 0..nb, NEW d \in 0..nb,
                        NEW i \in 1..Len(q2[c + 1]), NEW j \in 1..Len(q2[d + 1]),
                        q2[c + 1][i].block = q2[d + 1][j].block, q2[c + 1][i].block # 0
                 PROVE  c = d /\ i = j
      BY <1>2 DEF ItemsApart
    <3>1. /\ c \in 0..Len(blk) /\ i \in 1..Len(q[c + 1]) /\ q2[c + 1][i] = q[c + 1][i]
          /\ d \in 0..Len(blk) /\ j \in 1..Len(q[d + 1]) /\ q2[d + 1][j] = q[d + 1][j]
      BY <2>2
    <3>2. q[c + 1][i].block = q[d + 1][j].block /\ q[c + 1][i].block # 0
      BY <3>1
    <3> HIDE DEF ItemsApart
    <3> QED
      BY <2>1, <3>1, <3>2 DEF ItemsApart
  <2>6. BlocksThere(blk2, s2, q2)
    <3> SUFFICES ASSUME NEW x \in Closed(blk, s), Rooted(blk2, x)
                 PROVE  Has(blk2, q2, x)
      BY <1>2 DEF BlocksThere
    <3>1. Rooted(blk, x)
      BY <1>12 DEF Closed
    <3>2. PICK c \in 0..Len(blk) : \E i \in 1..Len(q[c + 1]) : q[c + 1][i].block = x
      BY <2>1, <3>1 DEF BlocksThere, Has
    <3>3. c \in 0..nb
      <4>1. nb = Len(blk) + 1 /\ Len(blk) \in Nat
        BY <1>1 DEF nb
      <4> QED
        BY <4>1
    <3>4. q2[c + 1] = q[c + 1]
      BY <1>6
    <3> QED
      BY <1>2, <3>2, <3>3, <3>4 DEF Has
  <2>7. ItemsFew(wd, blk2, <<>>, s2, q2)
    <3>1. PICK j \in Nat : j = Len(<<>>)
      OBVIOUS
    <3>2. PICK top \in Int : top = (Len(wd) - j) + (Len(blk) - n)
      <4>1. Len(wd) \in Nat /\ Len(blk) \in Nat /\ n \in Nat /\ j \in Nat
        BY <1>1, <1>2
      <4>2. (Len(wd) - j) \in Int /\ (Len(blk) - n) \in Int
        BY <4>1
      <4>3. (Len(wd) - j) + (Len(blk) - n) \in Int
        BY <4>2
      <4> QED
        BY <4>3
    <3>3. top = (Len(wd) - j) + (Len(blk2) - Len(s2))
      BY <1>1, <1>2, <3>2 DEF nb
    <3>4. \A c \in 0..Len(blk) : Len(q[c + 1]) <= top
      BY <2>1, <3>1, <3>2 DEF ItemsFew, n
    <3>5. Len(q[1]) \in Nat /\ 0 \in 0..Len(blk) /\ 0 + 1 = 1
      <4>1. 1 \in 1..Len(q)
        BY <1>1
      <4> QED
        BY <1>1, <4>1
    <3>6. 0 <= top
      BY <3>2, <3>4, <3>5
    <3>7. \A c \in 0..nb : Len(q2[c + 1]) <= top
      <4>1. Len(<<>>) = 0
        OBVIOUS
      <4> QED
        BY <1>5, <1>6, <3>4, <3>6, <4>1
    <3> QED
      BY <1>2, <3>1, <3>3, <3>7 DEF ItemsFew
  <2> QED
    BY <2>4, <2>5, <2>6, <2>7 DEF Placed
<1>14. Continued(blk2, s2, nx2, hr2)
  <2>1. ASSUME NEW b \in 1..Len(blk), hr2[b] = nb
        PROVE  b \notin OpenOf(s2) /\ nx2[b] = 0 /\ ~Rooted(blk2, nb)
    <3>1. k \in BlockClosers /\ hr[b] = 0 /\ b \in Closed(blk, s)
      BY <1>9, <2>1 DEF Ready
    <3>2. nx[b] = 0
      BY <1>1, <3>1 DEF Continued
    <3> QED
      BY <1>2, <1>4, <1>7, <3>1, <3>2 DEF Closed, Rooted
  <2>2. ASSUME NEW b \in 1..Len(blk), hr2[b] = hr[b], hr2[b] # nb
        PROVE  /\ nx2[b] = IF hr2[b] \in OpenOf(s2) THEN 0 ELSE hr2[b]
               /\ hr2[b] # 0 => /\ hr2[b] > b /\ hr2[b] <= nb /\ b \notin OpenOf(s2)
                                /\ ~Rooted(blk2, hr2[b])
    <3>1. /\ nx[b] = IF hr[b] \in OpenOf(s) THEN 0 ELSE hr[b]
          /\ hr[b] # 0 => /\ hr[b] > b /\ hr[b] <= Len(blk) /\ b \notin OpenOf(s)
                          /\ ~Rooted(blk, hr[b])
      BY <1>1 DEF Continued
    <3>2. hr[b] # 0 => hr[b] \in 1..Len(blk)
      <4>1. hr[b] \in Nat /\ Len(blk) \in Nat
        <5>1. hr \in Seq(Nat) /\ b \in 1..Len(hr) /\ Len(blk) \in Nat
          BY <1>1
        <5> QED
          BY <5>1
      <4> QED
        BY <3>1, <4>1
    <3>3. hr2[b] \in OpenOf(s2) <=> hr[b] \in OpenOf(s)
      BY <1>2, <2>2
    <3>4. hr[b] # 0 => hr[b] <= nb /\ ~Rooted(blk2, hr[b]) /\ b \notin OpenOf(s2)
      BY <1>2, <1>4, <1>12, <3>1, <3>2
    <3> QED
      BY <1>7, <2>2, <3>1, <3>3, <3>4
  <2>3. ASSUME NEW b \in 1..nb
        PROVE  /\ nx2[b] = IF hr2[b] \in OpenOf(s2) THEN 0 ELSE hr2[b]
               /\ hr2[b] # 0 => /\ hr2[b] > b /\ hr2[b] <= nb /\ b \notin OpenOf(s2)
                                /\ ~Rooted(blk2, hr2[b])
    <3>1. CASE b = nb
      BY <1>7, <1>8, <3>1
    <3>2. CASE b \in 1..Len(blk)
      <4>1. CASE hr2[b] = nb
        <5>1. nb \in OpenOf(s2) /\ nb > b /\ nb <= nb
          BY <1>2, <1>3, <1>4, <3>2
        <5> QED
          BY <2>1, <3>2, <4>1, <5>1
      <4>2. CASE hr2[b] # nb
        BY <1>9, <2>2, <3>2, <4>2
      <4> QED
        BY <4>1, <4>2
    <3> QED
      BY <1>3, <3>1, <3>2
  <2>4. ASSUME NEW b \in 1..nb, NEW c \in 1..nb, hr2[b] = hr2[c], hr2[b] # 0
        PROVE  b = c
    <3>1. b \in 1..Len(blk) /\ c \in 1..Len(blk)
      BY <1>3, <1>8, <2>4
    <3>2. CASE hr2[b] = nb
      <4>1. Ready(s, q, nx, hr, b) /\ Ready(s, q, nx, hr, c)
        BY <1>9, <2>4, <3>1, <3>2
      <4> QED
        BY <4>1 DEF Ready
    <3>3. CASE hr2[b] # nb
      <4>1. hr2[b] = hr[b] /\ hr2[c] = hr[c]
        BY <1>9, <2>4, <3>1, <3>3
      <4> QED
        BY <1>1, <2>4, <3>1, <4>1 DEF Continued
    <3> QED
      BY <3>2, <3>3
  <2>5. ASSUME NEW c \in 1..nb, ~Rooted(blk2, c)
        PROVE  \E b \in 1..nb : hr2[b] = c
    <3>1. CASE c = nb
      <4>1. k \in BlockClosers
        BY <1>2, <2>5, <3>1 DEF Rooted
      <4>2. PICK x \in Closed(blk, s) : hr1 = [hr EXCEPT ![x] = nb]
        BY <4>1 DEF nb
      <4>3. x \in 1..Len(hr) /\ x \in 1..Len(blk)
        BY <1>1 DEF Closed
      <4>4. hr1[x] = nb
        BY <1>1, <4>2, <4>3
      <4> QED
        BY <1>4, <1>8, <3>1, <4>3, <4>4
    <3>2. CASE c \in 1..Len(blk)
      <4>1. PICK b \in 1..Len(blk) : hr[b] = c
        BY <1>1, <1>12, <2>5, <3>2 DEF Continued
      <4>2. hr[b] # 0
        BY <3>2, <4>1
      <4>3. hr2[b] = hr[b]
        BY <1>9, <4>2 DEF Ready
      <4> QED
        BY <1>4, <4>1, <4>3
    <3> QED
      BY <1>3, <3>1, <3>2
  <2> QED
    BY <1>2, <2>3, <2>4, <2>5 DEF Continued
<1>15. Awaited(wd, blk2, s2, q2, nx2, hr2)
  <2>1. Forward(nx) /\ Forward(nx2)
    <3>1. Continued(blk2, s2, nx2, hr2)
      BY <1>14
    <3> QED
      BY <1>1, <1>2, <1>7, <1>8, <3>1, GoesForward
  <2>2. ASSUME NEW r \in 1..Len(blk)
        PROVE  ChainEnd(nx2, r) = ChainEnd(nx, r)
    <3>1. /\ Len(nx) <= Len(nx2) /\ r \in 1..Len(nx)
          /\ \A c \in 1..Len(nx) : c # 0 => nx2[c] = nx[c]
          /\ 0 \notin 1..Len(nx)
      <4>1. Len(nx) = Len(blk) /\ Len(nx2) = Len(blk) + 1 /\ Len(blk) \in Nat
        BY <1>1, <1>7 DEF nb
      <4> QED
        BY <1>7, <4>1
    <3>2. ChainEnd(nx, r) # 0
      BY <2>1, <3>1, ChainEnds
    <3> QED
      BY <2>1, <3>1, <3>2, ChainKeeps
  <2>3. ASSUME NEW c \in 0..Len(blk), NEW x, x # 0, x # nb, GoesOn(q[c + 1], nx, hr, x)
        PROVE  GoesOn(q2[c + 1], nx2, hr2, x)
    <3> DEFINE its == q[c + 1]  r == its[Len(its)].block
    <3>1. its # <<>> /\ its[Len(its)].type = "code" /\ hr[ChainEnd(nx, r)] = x
      BY <2>3 DEF GoesOn
    <3>2. r \in 1..Len(blk) /\ ChainEnd(nx, r) \in 1..Len(blk)
      BY <3>1, ChainBehind
    <3> HIDE DEF its, r
    <3>3. hr2[ChainEnd(nx, r)] = x
      BY <1>9, <2>3, <3>1, <3>2 DEF Ready
    <3> QED
      BY <1>6, <2>2, <3>1, <3>2, <3>3 DEF GoesOn, its, r
  <2>4. ASSUME NEW i \in 1..n
        PROVE  /\ ~Rooted(blk2, s2[i]) => GoesOn(q2[Below(s2, i) + 1], nx2, hr2, s2[i])
               /\ blk2[s2[i]].keyword = "fun" => Signed(wd, q2[Below(s2, i) + 1])
    <3>1. Below(s, i) \in 0..Len(blk) /\ s[i] \in 1..Len(blk)
      <4>1. i \in 1..Len(s)
        BY DEF n
      <4> QED
        BY <1>1, <4>1, StackFacts DEF Nested
    <3>2. s2[i] = s[i] /\ Below(s2, i) = Below(s, i)
      BY <1>2
    <3>3. /\ ~Rooted(blk, s[i]) => GoesOn(q[Below(s, i) + 1], nx, hr, s[i])
          /\ blk[s[i]].keyword = "fun" => Signed(wd, q[Below(s, i) + 1])
      BY DEF Shape, Awaited, n
    <3>4. s[i] # 0 /\ s[i] # nb
      BY <1>4, <3>1
    <3>5. ~Rooted(blk2, s[i]) => GoesOn(q2[Below(s, i) + 1], nx2, hr2, s[i])
      BY <1>12, <2>3, <3>1, <3>3, <3>4
    <3>6. blk2[s[i]].keyword = "fun" => Signed(wd, q2[Below(s, i) + 1])
      BY <1>2, <1>6, <3>1, <3>3
    <3> QED
      BY <3>2, <3>5, <3>6
  <2>5. ~Rooted(blk2, nb) => GoesOn(q2[InnerOf(s) + 1], nx2, hr2, nb)
    <3> SUFFICES ASSUME k \in BlockClosers
                 PROVE  GoesOn(q2[InnerOf(s) + 1], nx2, hr2, nb)
      BY <1>2 DEF Rooted
    <3> DEFINE its == q[InnerOf(s) + 1]  r == its[Len(its)].block
    <3>1. PICK x \in Closed(blk, s) : /\ Ready(s, q, nx, hr, x) /\ hr1 = [hr EXCEPT ![x] = nb]
      BY DEF nb
    <3>2. x \in 1..Len(hr) /\ x \in 1..Len(blk)
      BY <1>1 DEF Closed
    <3>3. hr1[x] = nb
      BY <1>1, <3>1, <3>2
    <3>4. its # <<>> /\ its[Len(its)].type = "code" /\ ChainEnd(nx, r) = x
      BY <3>1 DEF Ready
    <3>5. r \in 1..Len(blk)
      BY <1>2, <3>4, ChainBehind
    <3> HIDE DEF its, r
    <3>6. q2[InnerOf(s) + 1] = its
      BY <1>2, <1>6 DEF its
    <3>7. hr2[ChainEnd(nx2, r)] = nb
      BY <1>8, <2>2, <3>2, <3>3, <3>4, <3>5
    <3> QED
      BY <3>4, <3>6, <3>7 DEF GoesOn, r
  <2>6. blk2[nb].keyword = "fun" => Signed(wd, q2[InnerOf(s) + 1])
    <3> SUFFICES ASSUME k = "fun"
                 PROVE  Signed(wd, q2[InnerOf(s) + 1])
      BY <1>2
    <3>1. InnerOf(s) = 0 /\ Signed(wd, q[1])
      BY DEF InnerOf
    <3>2. q2[0 + 1] = q[0 + 1] /\ 0 + 1 = 1
      BY <1>1, <1>6
    <3> QED
      BY <3>1, <3>2
  <2>7. \A i \in 1..n + 1 : i \in 1..n \/ i = n + 1
    BY <1>2
  <2> SUFFICES ASSUME NEW i \in 1..n + 1
               PROVE  /\ ~Rooted(blk2, s2[i]) => GoesOn(q2[Below(s2, i) + 1], nx2, hr2, s2[i])
                      /\ blk2[s2[i]].keyword = "fun" => Signed(wd, q2[Below(s2, i) + 1])
    BY <1>2 DEF Awaited
  <2>8. CASE i = n + 1
    BY <1>2, <2>5, <2>6, <2>8
  <2> QED
    BY <2>4, <2>7, <2>8
<1> QED
  BY <1>2, <1>10, <1>11, <1>13, <1>14, <1>15 DEF Shape, blk2, s2, q2, nx2, hr2, nb

-----------------------------------------------------------------------------
(* What is around a block *)

LEMMA BlockHome ==
  ASSUME NEW blk \in Seq(BlockRec), NEW b \in 1..Len(blk)
  PROVE  blk[b] \in BlockRec /\ blk[b].home \in Nat /\ blk[b].keyword \in DOMAIN BlockOpeners
<1>1. blk[b] \in BlockRec
  OBVIOUS
<1> QED
  BY <1>1 DEF BlockRec

\* The blocks with a block of kind T around them and none of kind F between.
Ringed(blk, T, F, P) ==
  \A b \in Nat : b \in P <=> /\ b \in 1..Len(blk)
                             /\ \/ blk[b].keyword \in T
                                \/ blk[b].keyword \notin F /\ blk[b].home \in P

LEMMA Around ==
  ASSUME NEW blk \in Seq(BlockRec), \A b \in 1..Len(blk) : blk[b].home < b, NEW T, NEW F
  PROVE  \E P \in SUBSET Nat : Ringed(blk, T, F, P)
<1> DEFINE In(b, P) == /\ b \in 1..Len(blk)
                       /\ \/ blk[b].keyword \in T
                          \/ blk[b].keyword \notin F /\ blk[b].home \in P
           Upto(m, P) == \A b \in Nat : b <= m => (b \in P <=> In(b, P))
           S == {m \in Nat : \E P \in SUBSET Nat : Upto(m, P)}
<1>1. Len(blk) \in Nat /\ \A b \in 1..Len(blk) : b \in Nat /\ blk[b].home \in Nat
  BY BlockHome
<1>2. 0 \in S
  <2>1. Upto(0, {}) /\ {} \in SUBSET Nat
    BY <1>1
  <2> HIDE DEF Upto
  <2> QED
    BY <2>1
<1>3. ASSUME NEW m \in S
      PROVE  m + 1 \in S
  <2>1. m \in Nat
    OBVIOUS
  <2>2. PICK P \in SUBSET Nat : Upto(m, P)
    OBVIOUS
  <2> DEFINE R == {b \in Nat : (b <= m /\ b \in P) \/ (b = m + 1 /\ In(b, P))}
  <2>3. ASSUME NEW b \in Nat, b <= m + 1
        PROVE  b \in R <=> In(b, R)
    <3>1. b \in 1..Len(blk) => blk[b].home \in Nat /\ blk[b].home <= m
      BY <1>1, <2>1, <2>3
    <3>2. b \in 1..Len(blk) => (blk[b].home \in R <=> blk[b].home \in P)
      <4>1. ASSUME NEW c \in Nat, c <= m
            PROVE  c \in R <=> c \in P
        BY <2>1, <4>1
      <4> HIDE DEF R
      <4> QED
        BY <3>1, <4>1
    <3>3. In(b, R) <=> In(b, P)
      BY <3>2
    <3>4. b \in R <=> In(b, P)
      <4>1. b <= m => (b \in P <=> In(b, P))
        BY <2>2
      <4>2. b <= m \/ b = m + 1
        BY <2>1, <2>3
      <4>3. b = m + 1 => ~(b <= m)
        BY <2>1
      <4> HIDE DEF In
      <4> QED
        BY <4>1, <4>2, <4>3
    <3> QED
      BY <3>3, <3>4
  <2>4. R \in SUBSET Nat
    OBVIOUS
  <2> HIDE DEF R, In
  <2> QED
    BY <2>1, <2>3, <2>4
<1>4. Len(blk) \in S
  <2>1. S \in SUBSET Nat
    OBVIOUS
  <2> HIDE DEF S
  <2>2. S = Nat
    BY <1>2, <1>3, <2>1, Induct
  <2> QED
    BY <1>1, <2>2
<1>5. PICK P \in SUBSET Nat : Upto(Len(blk), P)
  BY <1>4
<1> DEFINE R == {b \in P : b <= Len(blk)}
<1>6. ASSUME NEW b \in Nat
      PROVE  b \in R <=> In(b, R)
  <2>1. b \in 1..Len(blk) => (blk[b].home \in R <=> blk[b].home \in P)
    BY <1>1
  <2>2. In(b, R) <=> In(b, P)
    BY <2>1
  <2>3. In(b, P) => b <= Len(blk)
    OBVIOUS
  <2>4. b <= Len(blk) => (b \in P <=> In(b, P))
    BY <1>5
  <2>5. b \in R <=> b \in P /\ b <= Len(blk)
    OBVIOUS
  <2> HIDE DEF In, R
  <2> QED
    BY <2>2, <2>3, <2>4, <2>5
<1>7. R \in SUBSET Nat
  OBVIOUS
<1> HIDE DEF R
<1> QED
  BY <1>6, <1>7 DEF Ringed

\* InLoop and InFunction, of the blocks.
LoopAround(blk) == CHOOSE f : f = [b \in 0..MaxBlocks |->
  /\ b \in 1..Len(blk)
  /\ blk[b].keyword \in Loops \/ (blk[b].keyword # "fun" /\ f[blk[b].home])]
FunctionAround(blk) == CHOOSE f : f = [b \in 0..MaxBlocks |->
  b \in 1..Len(blk) /\ (blk[b].keyword = "fun" \/ f[blk[b].home])]

LEMMA LoopUnfolds ==
  ASSUME NEW blk \in Seq(BlockRec), Len(blk) <= MaxBlocks, \A b \in 1..Len(blk) : blk[b].home < b,
         NEW b \in 0..MaxBlocks
  PROVE  LoopAround(blk)[b] <=>
           /\ b \in 1..Len(blk)
           /\ blk[b].keyword \in Loops \/ (blk[b].keyword # "fun" /\ LoopAround(blk)[blk[b].home])
<1> DEFINE Is(f) == f = [c \in 0..MaxBlocks |->
             /\ c \in 1..Len(blk)
             /\ blk[c].keyword \in Loops \/ (blk[c].keyword # "fun" /\ f[blk[c].home])]
<1>1. PICK P \in SUBSET Nat : Ringed(blk, Loops, {"fun"}, P)
  BY Around
<1> DEFINE g == [c \in 0..MaxBlocks |-> c \in P]
<1>2. ASSUME NEW c \in 1..Len(blk)
      PROVE  blk[c].home \in 0..MaxBlocks
  <2>1. c \in Nat /\ blk[c].home \in Nat /\ MaxBlocks \in Nat /\ Len(blk) \in Nat
    BY BlockHome, LexerAssumption
  <2> QED
    BY <2>1
<1> DEFINE In(c) == /\ c \in 1..Len(blk)
                    /\ blk[c].keyword \in Loops \/ (blk[c].keyword # "fun" /\ g[blk[c].home])
<1>3. ASSUME NEW c \in 0..MaxBlocks
      PROVE  (c \in P) = In(c)
  <2>1. c \in 1..Len(blk) => g[blk[c].home] = (blk[c].home \in P)
    BY <1>2
  <2>2. c \in Nat
    BY LexerAssumption
  <2>3. (c \in P <=> In(c)) /\ In(c) \in BOOLEAN
    BY <1>1, <2>1, <2>2 DEF Ringed
  <2> HIDE DEF In, g
  <2> QED
    BY <2>3
<1>4. Is(g)
  BY <1>3
<1>5. Is(LoopAround(blk))
  <2>1. LoopAround(blk) = CHOOSE f : Is(f)
    BY DEF LoopAround
  <2> HIDE DEF Is
  <2> QED
    BY <1>4, <2>1
<1> QED
  BY <1>5

LEMMA FunctionUnfolds ==
  ASSUME NEW blk \in Seq(BlockRec), Len(blk) <= MaxBlocks, \A b \in 1..Len(blk) : blk[b].home < b,
         NEW b \in 0..MaxBlocks
  PROVE  FunctionAround(blk)[b] <=>
           b \in 1..Len(blk) /\ (blk[b].keyword = "fun" \/ FunctionAround(blk)[blk[b].home])
<1> DEFINE Is(f) == f = [c \in 0..MaxBlocks |->
             c \in 1..Len(blk) /\ (blk[c].keyword = "fun" \/ f[blk[c].home])]
<1>1. PICK P \in SUBSET Nat : Ringed(blk, {"fun"}, {}, P)
  BY Around
<1> DEFINE g == [c \in 0..MaxBlocks |-> c \in P]
<1>2. ASSUME NEW c \in 1..Len(blk)
      PROVE  blk[c].home \in 0..MaxBlocks
  <2>1. c \in Nat /\ blk[c].home \in Nat /\ MaxBlocks \in Nat /\ Len(blk) \in Nat
    BY BlockHome, LexerAssumption
  <2> QED
    BY <2>1
<1>3. ASSUME NEW c \in 0..MaxBlocks
      PROVE  (c \in P) = (c \in 1..Len(blk) /\ (blk[c].keyword = "fun" \/ g[blk[c].home]))
  <2>1. c \in 1..Len(blk) => g[blk[c].home] = (blk[c].home \in P)
    BY <1>2
  <2>2. c \in Nat
    BY LexerAssumption
  <2>3. c \in P <=> c \in 1..Len(blk) /\ (blk[c].keyword = "fun" \/ g[blk[c].home])
    BY <1>1, <2>1, <2>2 DEF Ringed
  <2> QED
    BY <2>3
<1>4. Is(g)
  BY <1>3
<1>5. Is(FunctionAround(blk))
  <2>1. FunctionAround(blk) = CHOOSE f : Is(f)
    BY DEF FunctionAround
  <2> HIDE DEF Is
  <2> QED
    BY <1>4, <2>1
<1> QED
  BY <1>5

\* A block does not change what is around those before it.
LEMMA AroundKeeps ==
  ASSUME NEW blk \in Seq(BlockRec), NEW blk2 \in Seq(BlockRec), Len(blk) <= Len(blk2),
         Len(blk2) <= MaxBlocks, \A b \in 1..Len(blk2) : blk2[b].home < b,
         \A b \in 1..Len(blk) : blk2[b] = blk[b]
  PROVE  \A b \in 0..Len(blk) : /\ LoopAround(blk2)[b] <=> LoopAround(blk)[b]
                                /\ FunctionAround(blk2)[b] <=> FunctionAround(blk)[b]
<1> DEFINE T == {b \in 0..Len(blk) : /\ LoopAround(blk2)[b] <=> LoopAround(blk)[b]
                                     /\ FunctionAround(blk2)[b] <=> FunctionAround(blk)[b]}
<1>1. Len(blk) \in Nat /\ Len(blk2) \in Nat /\ MaxBlocks \in Nat
  BY LexerAssumption
<1>2. Len(blk) <= MaxBlocks /\ \A b \in 1..Len(blk) : b \in 1..Len(blk2) /\ blk[b].home < b
  BY <1>1
<1>3. ASSUME NEW c \in 0..Len(blk), \A d \in 0..Len(blk) : d < c => d \in T
      PROVE  c \in T
  <2>1. c \in 0..MaxBlocks
    BY <1>1, <1>2
  <2>2. CASE c \notin 1..Len(blk)
    <3>1. c \notin 1..Len(blk2)
      BY <1>1, <2>2
    <3>2. ~LoopAround(blk)[c] /\ ~LoopAround(blk2)[c]
      BY <1>2, <2>1, <2>2, <3>1, LoopUnfolds
    <3>3. ~FunctionAround(blk)[c] /\ ~FunctionAround(blk2)[c]
      BY <1>2, <2>1, <2>2, <3>1, FunctionUnfolds
    <3> QED
      BY <3>2, <3>3
  <2>3. CASE c \in 1..Len(blk)
    <3>1. c \in 1..Len(blk2) /\ blk2[c] = blk[c]
      BY <1>2, <2>3
    <3>2. blk[c].home \in 0..Len(blk) /\ blk[c].home < c
      <4>1. blk[c].home \in Nat /\ c \in Nat /\ blk[c].home < c
        BY <1>2, <2>3, BlockHome
      <4> QED
        BY <1>1, <4>1
    <3>3. /\ LoopAround(blk2)[blk[c].home] <=> LoopAround(blk)[blk[c].home]
          /\ FunctionAround(blk2)[blk[c].home] <=> FunctionAround(blk)[blk[c].home]
      BY <1>3, <3>2
    <3>4. /\ LoopAround(blk)[c] <=>
               blk[c].keyword \in Loops \/ (blk[c].keyword # "fun" /\ LoopAround(blk)[blk[c].home])
          /\ LoopAround(blk2)[c] <=>
               blk[c].keyword \in Loops \/ (blk[c].keyword # "fun" /\ LoopAround(blk2)[blk[c].home])
      BY <1>2, <2>1, <2>3, <3>1, LoopUnfolds
    <3>5. /\ FunctionAround(blk)[c] <=>
               (blk[c].keyword = "fun" \/ FunctionAround(blk)[blk[c].home])
          /\ FunctionAround(blk2)[c] <=>
               (blk[c].keyword = "fun" \/ FunctionAround(blk2)[blk[c].home])
      BY <1>2, <2>1, <2>3, <3>1, FunctionUnfolds
    <3> QED
      BY <3>3, <3>4, <3>5
  <2> QED
    BY <2>2, <2>3
<1> HIDE DEF T
<1>4. \A c \in 0..Len(blk) : c \in T
  BY <1>1, <1>3, FromBelow
<1> QED
  BY <1>4 DEF T

\* Around a jump, and around all that an open loop or function holds, is that block.
Sheltered(wd, blk, s) ==
  /\ \A i, j \in 1..Len(s) : j <= i =>
       /\ blk[s[j]].keyword \in Loops => LoopAround(blk)[s[i]]
       /\ blk[s[j]].keyword = "fun" => FunctionAround(blk)[s[i]]
  /\ \A w \in 1..Len(wd) :
       /\ wd[w].home \in 0..Len(blk)
       /\ wd[w].kind \in {"break", "continue"} => LoopAround(blk)[wd[w].home]
       /\ wd[w].kind = "return" => FunctionAround(blk)[wd[w].home]

LEMMA WordSheltered ==
  ASSUME NEW wd \in Seq(WordRec), NEW blk \in Seq(BlockRec), NEW s \in Seq(Nat),
         Nested(blk, s), Sheltered(wd, blk, s), NEW k \in Words,
         k \in DOMAIN ParentDependency =>
           \E b \in OpenOf(s) : blk[b].keyword \in ParentDependency[k]
  PROVE  Sheltered(Append(wd, [kind |-> k, home |-> InnerOf(s)]), blk, s)
<1> DEFINE w == [kind |-> k, home |-> InnerOf(s)]  wd2 == Append(wd, w)
<1>1. /\ Len(blk) \in Nat /\ Len(s) \in Nat /\ InnerOf(s) \in 0..Len(blk)
      /\ InnerOf(s) = (IF s = <<>> THEN 0 ELSE s[Len(s)])
  BY StackFacts
<1>2. w \in WordRec /\ w.kind = k /\ w.home = InnerOf(s)
  BY <1>1 DEF WordRec
<1> HIDE DEF w
<1>3. /\ Len(wd) \in Nat /\ Len(wd2) = Len(wd) + 1 /\ wd2[Len(wd) + 1] = w
      /\ \A i \in 1..Len(wd) : wd2[i] = wd[i]
  BY <1>2, Appended
<1> HIDE DEF wd2
<1>4. ASSUME NEW b \in OpenOf(s)
      PROVE  \E i, j \in 1..Len(s) : j <= i /\ s[j] = b /\ s[i] = InnerOf(s)
  <2>1. PICK j \in 1..Len(s) : s[j] = b
    BY DEF OpenOf
  <2>2. Len(s) \in 1..Len(s) /\ j <= Len(s) /\ s # <<>>
    BY <1>1
  <2> QED
    BY <1>1, <2>1, <2>2
<1>5. k \in {"break", "continue"} => LoopAround(blk)[InnerOf(s)]
  <2> SUFFICES ASSUME k \in {"break", "continue"}
               PROVE  LoopAround(blk)[InnerOf(s)]
    OBVIOUS
  <2>1. PICK b \in OpenOf(s) : blk[b].keyword \in Loops
    BY DEF ParentDependency
  <2> QED
    BY <1>4, <2>1 DEF Sheltered
<1>6. k = "return" => FunctionAround(blk)[InnerOf(s)]
  <2> SUFFICES ASSUME k = "return"
               PROVE  FunctionAround(blk)[InnerOf(s)]
    OBVIOUS
  <2>1. PICK b \in OpenOf(s) : blk[b].keyword = "fun"
    BY DEF ParentDependency
  <2> QED
    BY <1>4, <2>1 DEF Sheltered
<1>7. ASSUME NEW x \in 1..Len(wd2)
      PROVE  /\ wd2[x].home \in 0..Len(blk)
             /\ wd2[x].kind \in {"break", "continue"} => LoopAround(blk)[wd2[x].home]
             /\ wd2[x].kind = "return" => FunctionAround(blk)[wd2[x].home]
  <2>1. x \in 1..Len(wd) \/ x = Len(wd) + 1
    BY <1>3
  <2>2. CASE x \in 1..Len(wd)
    BY <1>3, <2>2 DEF Sheltered
  <2>3. CASE x = Len(wd) + 1
    BY <1>1, <1>2, <1>3, <1>5, <1>6, <2>3
  <2> QED
    BY <2>1, <2>2, <2>3
<1> QED
  BY <1>7 DEF Sheltered, wd2, w

LEMMA LeftSheltered ==
  ASSUME NEW wd, NEW blk \in Seq(BlockRec), NEW s \in Seq(Nat), Nested(blk, s), s # <<>>,
         Sheltered(wd, blk, s)
  PROVE  Sheltered(wd, blk, Front(s))
<1>1. /\ Len(Front(s)) = Len(s) - 1 /\ Len(s) \in Nat
      /\ \A i \in 1..Len(s) - 1 : Front(s)[i] = s[i]
  BY Shortened
<1>2. \A i \in 1..Len(Front(s)) : i \in 1..Len(s) /\ Front(s)[i] = s[i]
  BY <1>1
<1> QED
  BY <1>2 DEF Sheltered

LEMMA EnteredSheltered ==
  ASSUME NEW wd, NEW blk \in Seq(BlockRec), NEW s \in Seq(Nat), Nested(blk, s),
         Sheltered(wd, blk, s), Len(blk) < MaxBlocks,
         NEW k \in DOMAIN BlockOpeners, k = "fun" => s = <<>>
  PROVE  Sheltered(wd, Append(blk, [keyword |-> k, home |-> InnerOf(s)]),
                   Append(s, Len(blk) + 1))
<1> DEFINE nb == Len(blk) + 1  n == Len(s)
           blk2 == Append(blk, [keyword |-> k, home |-> InnerOf(s)])  s2 == Append(s, nb)
<1>1. /\ blk2 \in Seq(BlockRec) /\ Len(blk2) = nb /\ Len(blk) \in Nat
      /\ blk2[nb].keyword = k /\ blk2[nb].home = InnerOf(s)
      /\ \A b \in 1..Len(blk) : blk2[b] = blk[b]
      /\ Len(s2) = n + 1 /\ n \in Nat /\ s2[n + 1] = nb
      /\ InnerOf(s) \in 0..Len(blk)
      /\ \A i \in 1..n : s2[i] = s[i]
      /\ Nested(blk2, s2)
  BY BlockEntered
<1>2. InnerOf(s) = IF s = <<>> THEN 0 ELSE s[n]
  BY StackFacts
<1> HIDE DEF blk2, s2
<1>3. Len(blk) <= Len(blk2) /\ Len(blk2) <= MaxBlocks /\ nb \in 0..MaxBlocks /\ nb \in 1..Len(blk2)
  <2>1. MaxBlocks \in Nat
    BY LexerAssumption
  <2> QED
    BY <1>1, <2>1
<1>4. \A b \in 1..Len(blk2) : blk2[b].home < b
  BY <1>1 DEF Nested
<1>5. \A b \in 0..Len(blk) : /\ LoopAround(blk2)[b] <=> LoopAround(blk)[b]
                             /\ FunctionAround(blk2)[b] <=> FunctionAround(blk)[b]
  BY <1>1, <1>3, <1>4, AroundKeeps
<1>6. /\ LoopAround(blk2)[nb] <=>
           k \in Loops \/ (k # "fun" /\ LoopAround(blk2)[InnerOf(s)])
      /\ FunctionAround(blk2)[nb] <=> k = "fun" \/ FunctionAround(blk2)[InnerOf(s)]
  <2>1. LoopAround(blk2)[nb] <=>
           k \in Loops \/ (k # "fun" /\ LoopAround(blk2)[InnerOf(s)])
    <3>1. LoopAround(blk2)[nb] <=>
            /\ nb \in 1..Len(blk2)
            /\ \/ blk2[nb].keyword \in Loops
               \/ blk2[nb].keyword # "fun" /\ LoopAround(blk2)[blk2[nb].home]
      BY <1>1, <1>3, <1>4, LoopUnfolds
    <3> QED
      BY <1>1, <1>3, <3>1
  <2>2. FunctionAround(blk2)[nb] <=> k = "fun" \/ FunctionAround(blk2)[InnerOf(s)]
    <3>1. FunctionAround(blk2)[nb] <=>
            /\ nb \in 1..Len(blk2)
            /\ blk2[nb].keyword = "fun" \/ FunctionAround(blk2)[blk2[nb].home]
      BY <1>1, <1>3, <1>4, FunctionUnfolds
    <3> QED
      BY <1>1, <1>3, <3>1
  <2> QED
    BY <2>1, <2>2
<1> HIDE DEF nb, n
<1>7. \A i \in 1..n : s[i] \in 1..Len(blk) /\ s[i] \in 0..Len(blk) /\ blk2[s[i]] = blk[s[i]]
  <2>1. \A i \in 1..n : s[i] \in 1..Len(blk)
    BY DEF Nested, n
  <2>2. \A b \in 1..Len(blk) : b \in 0..Len(blk)
    BY <1>1
  <2> QED
    BY <1>1, <2>1, <2>2
<1>8. ASSUME NEW i \in 1..n + 1, NEW j \in 1..n + 1, j <= i
      PROVE  /\ blk2[s2[j]].keyword \in Loops => LoopAround(blk2)[s2[i]]
             /\ blk2[s2[j]].keyword = "fun" => FunctionAround(blk2)[s2[i]]
  <2>1. (i \in 1..n \/ i = n + 1) /\ (j \in 1..n \/ j = n + 1) /\ (i \in 1..n => j \in 1..n)
    BY <1>1, <1>8
  <2>2. CASE i \in 1..n
    <3>1. /\ blk[s[j]].keyword \in Loops => LoopAround(blk)[s[i]]
          /\ blk[s[j]].keyword = "fun" => FunctionAround(blk)[s[i]]
      BY <1>8, <2>1, <2>2 DEF Sheltered, n
    <3>2. s2[i] = s[i] /\ s2[j] = s[j] /\ blk2[s[j]] = blk[s[j]] /\ s[i] \in 0..Len(blk)
      BY <1>1, <1>7, <2>1, <2>2
    <3> QED
      BY <1>5, <3>1, <3>2
  <2>3. CASE i = n + 1 /\ j = n + 1
    BY <1>1, <1>6, <2>3
  <2>4. CASE i = n + 1 /\ j \in 1..n
    <3>1. n \in 1..n /\ j <= n /\ s # <<>>
      BY <1>1, <2>4 DEF n
    <3>2. /\ blk[s[j]].keyword \in Loops => LoopAround(blk)[s[n]]
          /\ blk[s[j]].keyword = "fun" => FunctionAround(blk)[s[n]]
      BY <2>4, <3>1 DEF Sheltered, n
    <3>3. s2[j] = s[j] /\ blk2[s[j]] = blk[s[j]] /\ s[n] \in 0..Len(blk) /\ s2[i] = nb
      BY <1>1, <1>7, <2>4, <3>1
    <3>4. InnerOf(s) = s[n] /\ k # "fun"
      BY <1>2, <3>1
    <3>5. /\ LoopAround(blk)[s[n]] => LoopAround(blk2)[nb]
          /\ FunctionAround(blk)[s[n]] => FunctionAround(blk2)[nb]
      BY <1>5, <1>6, <3>3, <3>4
    <3> QED
      BY <3>2, <3>3, <3>5
  <2> QED
    BY <2>1, <2>2, <2>3, <2>4
<1>9. ASSUME NEW w \in 1..Len(wd)
      PROVE  /\ wd[w].home \in 0..Len(blk2)
             /\ wd[w].kind \in {"break", "continue"} => LoopAround(blk2)[wd[w].home]
             /\ wd[w].kind = "return" => FunctionAround(blk2)[wd[w].home]
  <2>1. /\ wd[w].home \in 0..Len(blk)
        /\ wd[w].kind \in {"break", "continue"} => LoopAround(blk)[wd[w].home]
        /\ wd[w].kind = "return" => FunctionAround(blk)[wd[w].home]
    BY DEF Sheltered
  <2>2. \A h \in 0..Len(blk) : h \in 0..Len(blk2)
    BY <1>1, <1>3
  <2> QED
    BY <1>5, <2>1, <2>2
<1> QED
  BY <1>1, <1>8, <1>9 DEF Sheltered, blk2, s2, nb

-----------------------------------------------------------------------------
(* The actions of BlockLexer *)

LexInv ==
  /\ Shape(word, block, currentLine, keywordBlockStack, queue, next, heir)
  /\ Sheltered(word, block, keywordBlockStack)
  /\ status \in {"reading", "done", "error"}
  /\ status = "done" => keywordBlockStack = <<>>

LEMMA LexInvInit == Init => LexInv
<1> SUFFICES ASSUME Init
             PROVE  LexInv
  OBVIOUS
<1>1. /\ word = <<>> /\ block = <<>> /\ currentLine = <<>> /\ keywordBlockStack = <<>>
      /\ queue = <<<<>>>> /\ next = <<>> /\ heir = <<>> /\ status = "reading"
  BY DEF Init
<1>2. Len(<<>>) = 0 /\ 1..0 = {} /\ 0..0 = {0} /\ \A S : <<>> \in Seq(S)
  OBVIOUS
<1>3. /\ <<<<>>>> \in Seq(Seq(ItemRec)) /\ Len(<<<<>>>>) = 1 /\ <<<<>>>>[1] = <<>>
  <2>1. <<>> \in Seq(ItemRec)
    BY <1>2
  <2> QED
    BY <2>1
<1>4. Typed(<<>>, <<>>, <<>>, <<>>, <<<<>>>>, <<>>, <<>>)
  BY <1>2, <1>3, LexerAssumption DEF Typed
<1>5. Nested(<<>>, <<>>)
  BY <1>2 DEF Nested
<1>6. \A c \in 0..Len(<<>>) : <<<<>>>>[c + 1] = <<>>
  BY <1>2, <1>3
<1>7. Homely(<<>>, <<>>, <<>>, <<>>, <<<<>>>>)
  BY <1>2, <1>6 DEF Homely, AtHome
<1>8. Closed(<<>>, <<>>) = {}
  BY <1>2 DEF Closed
<1>9. ItemsFit(<<>>, <<>>, <<<<>>>>) /\ ItemsApart(<<>>, <<<<>>>>)
  BY <1>2, <1>6 DEF ItemsFit, ItemsApart
<1>10. BlocksThere(<<>>, <<>>, <<<<>>>>)
  BY <1>8 DEF BlocksThere
<1>11. ItemsFew(<<>>, <<>>, <<>>, <<>>, <<<<>>>>)
  BY <1>2, <1>6 DEF ItemsFew
<1>12. Continued(<<>>, <<>>, <<>>, <<>>)
  BY <1>2 DEF Continued
<1>13. Awaited(<<>>, <<>>, <<>>, <<<<>>>>, <<>>, <<>>)
  BY <1>2 DEF Awaited
<1>14. Sheltered(<<>>, <<>>, <<>>)
  BY <1>2 DEF Sheltered
<1> QED
  BY <1>1, <1>4, <1>5, <1>7, <1>9, <1>10, <1>11, <1>12, <1>13, <1>14 DEF LexInv, Shape, Placed

\* What the rest of the parser sees of a state.
LEMMA ParserFields ==
  /\ Parser.queue = queue /\ Parser.stack = keywordBlockStack /\ Parser.next = next
  /\ Parser.status = "reading"
BY DEF Parser

LEMMA LexInvWord ==
  ASSUME LexInv, NEW k \in Words, Word(k)
  PROVE  LexInv'
<1>1. /\ Len(word) < MaxWords
      /\ UNCHANGED <<block, keywordBlockStack, queue, next, heir>>
      /\ Shape(word, block, currentLine, keywordBlockStack, queue, next, heir)
      /\ Sheltered(word, block, keywordBlockStack)
  BY DEF Word, LexInv
<1>2. CASE /\ k \in DOMAIN ParentDependency => HasParentKeywordBlock(k)
           /\ word' = Append(word, [kind |-> k, home |-> InnerOf(keywordBlockStack)])
           /\ currentLine' = Append(currentLine, Len(word) + 1)
           /\ UNCHANGED status
  <2>1. k \in DOMAIN ParentDependency =>
          \E b \in OpenOf(keywordBlockStack) : block[b].keyword \in ParentDependency[k]
    <3>1. \A i : i \in DOMAIN keywordBlockStack <=> i \in 1..Len(keywordBlockStack)
      BY <1>1 DEF Shape, Typed
    <3>2. OpenBlocks = OpenOf(keywordBlockStack)
      BY <3>1 DEF OpenBlocks, OpenOf
    <3> QED
      BY <1>2, <3>2 DEF HasParentKeywordBlock
  <2>2. /\ word \in Seq(WordRec) /\ block \in Seq(BlockRec) /\ keywordBlockStack \in Seq(Nat)
        /\ Nested(block, keywordBlockStack)
    BY <1>1 DEF Shape, Typed
  <2>3. Sheltered(word', block, keywordBlockStack)
    BY <1>1, <1>2, <2>1, <2>2, WordSheltered
  <2>4. Shape(word', block, currentLine', keywordBlockStack, queue, next, heir)
    BY <1>1, <1>2, WordKeeps
  <2> QED
    BY <1>1, <1>2, <2>3, <2>4 DEF LexInv
<1>3. CASE status' = "error" /\ UNCHANGED <<word, currentLine>>
  BY <1>1, <1>3 DEF LexInv
<1> QED
  BY <1>2, <1>3 DEF Word

\* The line of the parser's state is put in its block.
LEMMA LinePushed ==
  ASSUME Shape(word, block, currentLine, keywordBlockStack, queue, next, heir)
  PROVE  LET p == PushLine(Parser)
         IN /\ Shape(word, block, <<>>, p.stack, p.queue, p.next, heir)
            /\ p.stack = keywordBlockStack /\ p.next = next /\ p.status = "reading"
            /\ p = [queue |-> p.queue, stack |-> p.stack, next |-> p.next, status |-> "reading"]
<1>1. CASE currentLine = <<>>
  BY <1>1, ParserFields DEF PushLine, Parser
<1>2. CASE currentLine # <<>>
  <2> DEFINE q2 == [queue EXCEPT ![InnerOf(keywordBlockStack) + 1] = Append(@, Line(currentLine))]
  <2>1. PushLine(Parser) = [Parser EXCEPT !.queue = q2]
    BY <1>2, ParserFields DEF PushLine, Push, Parser
  <2>2. /\ PushLine(Parser).queue = q2 /\ PushLine(Parser).stack = keywordBlockStack
        /\ PushLine(Parser).next = next /\ PushLine(Parser).status = "reading"
        /\ PushLine(Parser) = [queue |-> q2, stack |-> keywordBlockStack, next |-> next,
                               status |-> "reading"]
    <3> HIDE DEF q2
    <3> QED
      BY <2>1 DEF Parser
  <2>3. Shape(word, block, <<>>, keywordBlockStack, q2, next, heir)
    BY <1>2, LineKeeps
  <2> HIDE DEF q2
  <2> QED
    BY <2>2, <2>3
<1> QED
  BY <1>1, <1>2

LEMMA LexInvEndLine ==
  ASSUME LexInv, EndLine
  PROVE  LexInv'
<1>1. Shape(word, block, currentLine, keywordBlockStack, queue, next, heir)
  BY DEF LexInv
<1>2. LET p == PushLine(Parser)
      IN /\ Shape(word, block, <<>>, p.stack, p.queue, p.next, heir)
         /\ p.stack = keywordBlockStack /\ p.next = next /\ p.status = "reading"
  BY <1>1, LinePushed
<1>3. /\ queue' = PushLine(Parser).queue /\ next' = PushLine(Parser).next
      /\ keywordBlockStack' = PushLine(Parser).stack /\ status' = PushLine(Parser).status
      /\ currentLine' = <<>> /\ word' = word /\ block' = block /\ heir' = heir
  BY DEF EndLine, Take
<1> QED
  BY <1>2, <1>3 DEF LexInv

LEMMA LexInvFinish ==
  ASSUME LexInv, Finish
  PROVE  LexInv'
<1>1. Shape(word, block, currentLine, keywordBlockStack, queue, next, heir)
  BY DEF LexInv
<1>2. CASE status' = "error" /\ UNCHANGED <<queue, next, keywordBlockStack, currentLine>>
  <2>1. UNCHANGED <<word, block, heir>>
    BY DEF Finish
  <2> QED
    BY <1>2, <2>1 DEF LexInv
<1>3. CASE /\ keywordBlockStack = <<>>
           /\ Take([PushLine(Parser) EXCEPT !.status = "done"])
           /\ currentLine' = <<>>
  <2>1. LET p == PushLine(Parser)
        IN /\ Shape(word, block, <<>>, p.stack, p.queue, p.next, heir)
           /\ p.stack = keywordBlockStack /\ p.next = next
           /\ p = [queue |-> p.queue, stack |-> p.stack, next |-> p.next, status |-> "reading"]
    BY <1>1, LinePushed
  <2>2. UNCHANGED <<word, block, heir>>
    BY DEF Finish
  <2>3. /\ queue' = PushLine(Parser).queue /\ next' = PushLine(Parser).next
        /\ keywordBlockStack' = PushLine(Parser).stack /\ status' = "done"
    BY <1>3, <2>1 DEF Take
  <2> QED
    BY <1>3, <2>1, <2>2, <2>3 DEF LexInv
<1> QED
  BY <1>2, <1>3 DEF Finish

\* The line of a signature, put at the top of the program.
LEMMA SignaturePushed ==
  ASSUME Shape(word, block, currentLine, keywordBlockStack, queue, next, heir),
         keywordBlockStack = <<>>, StartsWithSignature(currentLine)
  PROVE  Signed(word, PushLine(Parser).queue[1])
<1> DEFINE e == Line(currentLine)
<1>1. /\ queue \in Seq(Seq(ItemRec)) /\ Len(queue) = Len(block) + 1 /\ Len(block) \in Nat
      /\ currentLine \in Seq(Nat)
  BY DEF Shape, Typed
<1>2. e \in ItemRec /\ e.type = "line" /\ e.words = currentLine
  BY <1>1 DEF Line, ItemRec
<1>3. currentLine # <<>> /\ word[currentLine[1]].kind = "signature"
  BY DEF StartsWithSignature
<1>4. InnerOf(keywordBlockStack) = 0
  BY DEF InnerOf
<1> HIDE DEF e
<1> DEFINE q2 == [queue EXCEPT ![0 + 1] = Append(@, e)]
<1>5. PushLine(Parser).queue = q2
  BY <1>3, <1>4, ParserFields DEF PushLine, Push, Parser, e
<1>6. Grown(Len(block), queue, 0, e, q2)
  <2>1. 0 \in 0..Len(block)
    BY <1>1
  <2> QED
    BY <1>1, <1>2, <2>1, ItemPushed
<1> HIDE DEF q2
<1>7. /\ Len(queue[1]) \in Nat /\ Len(q2[1]) = Len(queue[1]) + 1
      /\ q2[1][Len(queue[1]) + 1] = e
  <2>1. 0 + 1 = 1
    OBVIOUS
  <2> QED
    BY <1>6, <2>1 DEF Grown
<1>8. q2[1] # <<>> /\ q2[1][Len(q2[1])] = e
  BY <1>7
<1> QED
  BY <1>2, <1>3, <1>5, <1>8 DEF Signed

\* What opening a block does, once the line is in its block.
LEMMA Opened ==
  ASSUME NEW p, NEW k \in DOMAIN BlockOpeners, NEW hr \in Seq(Nat), Len(hr) = Len(heir),
         LET q == PushLine(p)
         IN /\ Shape(word, block, <<>>, q.stack, q.queue, q.next, heir)
            /\ q.stack = p.stack
            /\ q = [queue |-> q.queue, stack |-> q.stack, next |-> q.next, status |-> "reading"]
            /\ Sheltered(word, block, q.stack)
            /\ k = "fun" => q.stack = <<>> /\ Signed(word, q.queue[1])
            /\ \/ k \notin BlockClosers /\ hr = heir
               \/ /\ k \in BlockClosers
                  /\ \E b \in Closed(block, q.stack) :
                       /\ Ready(q.stack, q.queue, q.next, heir, b)
                       /\ hr = [heir EXCEPT ![b] = Len(block) + 1],
         Len(block) < MaxBlocks, OpenAfter(p, k), heir' = Append(hr, 0), word' = word
  PROVE  LexInv'
<1> DEFINE q == PushLine(p)
<1>1. /\ Shape(word, block, <<>>, q.stack, q.queue, q.next, heir) /\ q.stack = p.stack
      /\ Sheltered(word, block, q.stack) /\ (k = "fun" => q.stack = <<>>)
  OBVIOUS
<1>2. /\ queue' = Append(q.queue, <<>>) /\ next' = Append(q.next, 0)
      /\ keywordBlockStack' = Append(q.stack, Len(block) + 1) /\ status' = "reading"
      /\ block' = Append(block, [keyword |-> k, home |-> InnerOf(q.stack)]) /\ currentLine' = <<>>
  <2>1. q = [queue |-> q.queue, stack |-> q.stack, next |-> q.next, status |-> "reading"]
    OBVIOUS
  <2>2. /\ Take([q EXCEPT !.stack = Append(@, Len(block) + 1), !.queue = Append(@, <<>>),
                          !.next = Append(@, 0)])
        /\ block' = Append(block, [keyword |-> k, home |-> InnerOf(q.stack)])
        /\ currentLine' = <<>>
    BY DEF OpenAfter
  <2> HIDE DEF q
  <2>3. LET r == [q EXCEPT !.stack = Append(@, Len(block) + 1), !.queue = Append(@, <<>>),
                           !.next = Append(@, 0)]
        IN /\ r.queue = Append(q.queue, <<>>) /\ r.next = Append(q.next, 0)
           /\ r.stack = Append(q.stack, Len(block) + 1) /\ r.status = "reading"
    BY <2>1
  <2> QED
    BY <2>2, <2>3 DEF Take
<1>3. Shape(word, block', <<>>, keywordBlockStack', queue', next', heir')
  <2>1. Shape(word, Append(block, [keyword |-> k, home |-> InnerOf(q.stack)]), <<>>,
              Append(q.stack, Len(block) + 1), Append(q.queue, <<>>), Append(q.next, 0),
              Append(hr, 0))
    <3>1. k = "fun" => q.stack = <<>> /\ Signed(word, q.queue[1])
      OBVIOUS
    <3>2. \/ k \notin BlockClosers /\ hr = heir
          \/ /\ k \in BlockClosers
             /\ \E b \in Closed(block, q.stack) : /\ Ready(q.stack, q.queue, q.next, heir, b)
                                                  /\ hr = [heir EXCEPT ![b] = Len(block) + 1]
      OBVIOUS
    <3> HIDE DEF q
    <3> QED
      BY <1>1, <3>1, <3>2, OpenKeeps
  <2> HIDE DEF q
  <2> QED
    BY <1>2, <2>1
<1>4. Sheltered(word, block', keywordBlockStack')
  <2> HIDE DEF q
  <2>1. block \in Seq(BlockRec) /\ q.stack \in Seq(Nat) /\ Nested(block, q.stack)
    BY <1>1 DEF Shape, Typed
  <2>2. Sheltered(word, Append(block, [keyword |-> k, home |-> InnerOf(q.stack)]),
                  Append(q.stack, Len(block) + 1))
    BY <1>1, <2>1, EnteredSheltered
  <2> QED
    BY <1>2, <2>2
<1> QED
  BY <1>2, <1>3, <1>4 DEF LexInv

LEMMA LexInvOpen ==
  ASSUME LexInv, Layout = "documented", NEW k \in Openers, Open(k)
  PROVE  LexInv'
<1>1. Shape(word, block, currentLine, keywordBlockStack, queue, next, heir)
  BY DEF LexInv
<1>2. LET q == PushLine(Parser)
      IN /\ Shape(word, block, <<>>, q.stack, q.queue, q.next, heir)
         /\ q.stack = keywordBlockStack /\ q.next = next /\ q.status = "reading"
         /\ q = [queue |-> q.queue, stack |-> q.stack, next |-> q.next, status |-> "reading"]
  BY <1>1, LinePushed
<1>3. k \in DOMAIN BlockOpeners /\ k \notin BlockClosers
  BY LexerAssumption
<1>4. heir \in Seq(Nat)
  BY <1>1 DEF Shape, Typed
<1>5. /\ Len(block) < MaxBlocks /\ OpenAfter(Parser, k) /\ heir' = Append(heir, 0)
      /\ word' = word
      /\ k = "fun" => keywordBlockStack = <<>> /\ StartsWithSignature(currentLine)
  BY DEF Open
<1>6. k = "fun" => Signed(word, PushLine(Parser).queue[1])
  BY <1>1, <1>5, SignaturePushed
<1>7. Sheltered(word, block, keywordBlockStack)
  BY DEF LexInv
<1>8. Parser.stack = keywordBlockStack
  BY ParserFields
<1> QED
  BY <1>2, <1>3, <1>4, <1>5, <1>6, <1>7, <1>8, Opened

LEMMA PushedRecord ==
  ASSUME NEW q, NEW s, NEW nx, NEW st, NEW m, NEW e
  PROVE  Push([queue |-> q, stack |-> s, next |-> nx, status |-> st], m, e) =
           [queue |-> [q EXCEPT ![m + 1] = Append(@, e)], stack |-> s, next |-> nx, status |-> st]
  BY DEF Push

\* A closer is an error, or leaves the innermost block in its place.
LEMMA Closing ==
  ASSUME LexInv, currentLine = <<>>, NEW c
  PROVE  LET p == Close(c)
             b == Last(keywordBlockStack)
         IN /\ p = [queue |-> p.queue, stack |-> p.stack, next |-> p.next, status |-> p.status]
            /\ p.status \in {"reading", "error"}
            /\ p.status = "error" =>
                 p.queue = queue /\ p.stack = keywordBlockStack /\ p.next = next
            /\ p.status = "reading" =>
                 /\ keywordBlockStack # <<>> /\ c \in BlockOpeners[block[b].keyword]
                 /\ p.stack = Front(keywordBlockStack)
                 /\ Shape(word, block, <<>>, p.stack, p.queue, p.next, heir)
                 /\ Sheltered(word, block, p.stack)
                 /\ b \in Closed(block, p.stack)
                 /\ block[b].keyword # "fun" => Ready(p.stack, p.queue, p.next, heir, b)
<1>1. /\ Shape(word, block, <<>>, keywordBlockStack, queue, next, heir)
      /\ Sheltered(word, block, keywordBlockStack)
  BY DEF LexInv
<1>2. CASE \/ keywordBlockStack = <<>>
           \/ c \notin BlockOpeners[block[Last(keywordBlockStack)].keyword]
  <2>1. Close(c) = [Parser EXCEPT !.status = "error"]
    BY <1>2 DEF Close, Halt
  <2>2. Close(c) = [queue |-> queue, stack |-> keywordBlockStack, next |-> next,
                    status |-> "error"]
    BY <2>1 DEF Parser
  <2> QED
    BY <2>2
<1>3. CASE /\ keywordBlockStack # <<>>
           /\ c \in BlockOpeners[block[Last(keywordBlockStack)].keyword]
  <2> DEFINE s == keywordBlockStack  n == Len(s)  b == Last(s)  s2 == Front(s)
             P == [Parser EXCEPT !.stack = Front(@)]
  <2>1. /\ block \in Seq(BlockRec) /\ s \in Seq(Nat) /\ Nested(block, s)
    BY <1>1 DEF Shape, Typed
  <2>2. b = s[n] /\ b \in Closed(block, s2)
    <3>1. b = s[n] /\ s[n] \in 1..Len(block) /\ Closed(block, s2) = Closed(block, s) \cup {s[n]}
      BY <1>3, <2>1, BlockLeft
    <3> QED
      BY <3>1
  <2>3. Sheltered(word, block, s2)
    BY <1>1, <1>3, <2>1, LeftSheltered
  <2>4. P = [queue |-> queue, stack |-> s2, next |-> next, status |-> "reading"]
    BY DEF Parser
  <2>5. Close(c) = IF block[b].keyword = "fun" THEN ParseFunction(P, b) ELSE Attach(P, b)
    BY <1>3 DEF Close
  <2>6. CASE block[b].keyword = "fun"
    <3> DEFINE q2 == [[queue EXCEPT ![1] = Front(@)] EXCEPT ![InnerOf(s2) + 1] =
                        Append(@, Item("function", b))]
    <3>1. Signed(word, queue[1]) /\ Shape(word, block, <<>>, s2, q2, next, heir)
      BY <1>1, <1>3, <2>2, <2>6, FunctionKeeps
    <3>2. /\ queue[1] # <<>> /\ Last(queue[1]).type = "line"
          /\ StartsWithSignature(Last(queue[1]).words)
      BY <3>1 DEF Signed, StartsWithSignature, Last
    <3>3. ParseFunction(P, b) =
            Push([P EXCEPT !.queue[1] = Front(@)], InnerOf(P.stack), Item("function", b))
      <4>1. P.queue = queue
        BY <2>4
      <4> HIDE DEF P
      <4> QED
        BY <3>2, <4>1 DEF ParseFunction
    <3>4. ParseFunction(P, b) = [queue |-> q2, stack |-> s2, next |-> next, status |-> "reading"]
      <4>1. P.stack = s2 /\ P.queue = queue
        BY <2>4
      <4>2. [P EXCEPT !.queue[1] = Front(@)] =
              [queue |-> [queue EXCEPT ![1] = Front(@)], stack |-> s2, next |-> next,
               status |-> "reading"]
        <5> HIDE DEF P, s2
        <5> QED
          BY <2>4
      <4> HIDE DEF P, s2
      <4>3. ParseFunction(P, b) =
              Push([queue |-> [queue EXCEPT ![1] = Front(@)], stack |-> s2, next |-> next,
                    status |-> "reading"], InnerOf(s2), Item("function", b))
        BY <3>3, <4>1, <4>2
      <4> DEFINE q1 == [queue EXCEPT ![1] = Front(@)]
                 q3 == [q1 EXCEPT ![InnerOf(s2) + 1] = Append(@, Item("function", b))]
      <4>4. q2 = q3
        OBVIOUS
      <4> HIDE DEF q1
      <4>5. Push([queue |-> q1, stack |-> s2, next |-> next, status |-> "reading"], InnerOf(s2),
                 Item("function", b)) =
              [queue |-> q3, stack |-> s2, next |-> next, status |-> "reading"]
        BY PushedRecord
      <4>6. ParseFunction(P, b) =
              Push([queue |-> q1, stack |-> s2, next |-> next, status |-> "reading"], InnerOf(s2),
                   Item("function", b))
        BY <4>3 DEF q1
      <4> HIDE DEF q2, q3
      <4> QED
        BY <4>4, <4>5, <4>6
    <3> HIDE DEF q2
    <3>5. Close(c) = [queue |-> q2, stack |-> s2, next |-> next, status |-> "reading"]
      BY <2>5, <2>6, <3>4
    <3> QED
      BY <1>3, <2>2, <2>3, <2>6, <3>1, <3>5
  <2>7. CASE block[b].keyword # "fun" /\ block[b].keyword \notin BlockClosers
    <3> DEFINE q2 == [queue EXCEPT ![InnerOf(s2) + 1] = Append(@, Item("code", b))]
    <3>1. Shape(word, block, <<>>, s2, q2, next, heir) /\ Ready(s2, q2, next, heir, b)
      <4>1. Rooted(block, s[n])
        BY <2>2, <2>7 DEF Rooted
      <4> QED
        BY <1>1, <1>3, <2>2, <4>1, AttachKeeps
    <3>2. Attach(P, b) = Push(P, InnerOf(P.stack), Item("code", b))
      BY <2>7 DEF Attach
    <3>3. Attach(P, b) = [queue |-> q2, stack |-> s2, next |-> next, status |-> "reading"]
      <4>1. P.stack = s2 /\ P.queue = queue
        BY <2>4
      <4> HIDE DEF P, s2
      <4> QED
        BY <2>4, <3>2, <4>1 DEF Push
    <3> HIDE DEF q2
    <3>4. Close(c) = [queue |-> q2, stack |-> s2, next |-> next, status |-> "reading"]
      BY <2>5, <2>7, <3>3
    <3> QED
      BY <1>3, <2>2, <2>3, <2>7, <3>1, <3>4
  <2>8. CASE block[b].keyword # "fun" /\ block[b].keyword \in BlockClosers
    <3> DEFINE items == queue[InnerOf(s2) + 1]
               nx2 == [next EXCEPT ![ChainEnd(next, items[Len(items)].block)] = b]
    <3>1. /\ items # <<>> /\ items[Len(items)].type = "code"
          /\ Shape(word, block, <<>>, s2, queue, nx2, heir) /\ Ready(s2, queue, nx2, heir, b)
      <4>1. ~Rooted(block, s[n])
        BY <2>2, <2>8 DEF Rooted
      <4> QED
        BY <1>1, <1>3, <2>2, <4>1, ContinueKeeps
    <3>2. Last(items) = items[Len(items)]
      BY DEF Last
    <3>3. Attach(P, b) = [queue |-> queue, stack |-> s2, next |-> nx2, status |-> "reading"]
      <4>1. P.stack = s2 /\ P.queue = queue /\ P.next = next
        BY <2>4
      <4> HIDE DEF P, s2
      <4>2. Attach(P, b) = [P EXCEPT !.next[ChainEnd(P.next, Last(items).block)] = b]
        BY <2>8, <3>1, <3>2, <4>1 DEF Attach, SetNext
      <4>3. Attach(P, b) = [P EXCEPT !.next = nx2]
        BY <3>2, <4>1, <4>2
      <4> HIDE DEF nx2
      <4> QED
        BY <2>4, <4>3
    <3> HIDE DEF nx2
    <3>4. Close(c) = [queue |-> queue, stack |-> s2, next |-> nx2, status |-> "reading"]
      BY <2>5, <2>8, <3>3
    <3> QED
      BY <1>3, <2>2, <2>3, <2>8, <3>1, <3>4
  <2> QED
    BY <2>6, <2>7, <2>8
<1> QED
  BY <1>2, <1>3

LEMMA LexInvCloseOnly ==
  ASSUME LexInv, Layout = "documented", NEW c, CloseOnly(c)
  PROVE  LexInv'
<1>1. currentLine = <<>>
  BY DEF CloseOnly, ClosesHere
<1>2. /\ queue' = Close(c).queue /\ next' = Close(c).next /\ keywordBlockStack' = Close(c).stack
      /\ status' = Close(c).status
      /\ word' = word /\ block' = block /\ currentLine' = currentLine /\ heir' = heir
  BY DEF CloseOnly, Take
<1>3. /\ Close(c).status \in {"reading", "error"}
      /\ Close(c).status = "error" =>
           /\ Close(c).queue = queue /\ Close(c).stack = keywordBlockStack
           /\ Close(c).next = next
      /\ Close(c).status = "reading" =>
           /\ Shape(word, block, <<>>, Close(c).stack, Close(c).queue, Close(c).next, heir)
           /\ Sheltered(word, block, Close(c).stack)
  BY <1>1, Closing
<1>4. CASE Close(c).status = "error"
  BY <1>2, <1>3, <1>4 DEF LexInv
<1>5. CASE Close(c).status = "reading"
  BY <1>1, <1>2, <1>3, <1>5 DEF LexInv
<1> QED
  BY <1>3, <1>4, <1>5

LEMMA LexInvCloseAndOpen ==
  ASSUME LexInv, Layout = "documented",
         NEW c \in BlockClosers \cap DOMAIN BlockOpeners, CloseAndOpen(c)
  PROVE  LexInv'
<1> DEFINE p == Close(c)  b == Last(keywordBlockStack)
<1>1. currentLine = <<>> /\ word' = word /\ Len(block) < MaxBlocks
  BY DEF CloseAndOpen, ClosesHere
<1>2. /\ p = [queue |-> p.queue, stack |-> p.stack, next |-> p.next, status |-> p.status]
      /\ p.status \in {"reading", "error"}
      /\ p.status = "error" =>
           p.queue = queue /\ p.stack = keywordBlockStack /\ p.next = next
      /\ p.status = "reading" =>
           /\ keywordBlockStack # <<>> /\ c \in BlockOpeners[block[b].keyword]
           /\ Shape(word, block, <<>>, p.stack, p.queue, p.next, heir)
           /\ Sheltered(word, block, p.stack)
           /\ b \in Closed(block, p.stack)
           /\ block[b].keyword # "fun" => Ready(p.stack, p.queue, p.next, heir, b)
  BY <1>1, Closing
<1>3. CASE p.status # "reading" /\ Take(p) /\ UNCHANGED <<block, currentLine, heir>>
  BY <1>1, <1>2, <1>3 DEF LexInv, Take
<1>4. CASE /\ p.status = "reading" /\ OpenAfter(p, c)
           /\ heir' = Append([heir EXCEPT ![b] = Len(block) + 1], 0)
  <2>1. c # "fun" /\ block[b].keyword # "fun"
    <3>1. c \in {"else", "catch", "finally"} /\ c \notin {"nuf"}
      BY DEF BlockClosers, BlockOpeners
    <3>2. BlockOpeners["fun"] = {"nuf"}
      BY DEF BlockOpeners
    <3> QED
      BY <1>2, <1>4, <3>1, <3>2
  <2>2. PushLine(p) = p
    BY <1>1 DEF PushLine
  <2>3. /\ heir \in Seq(Nat) /\ b \in 1..Len(heir) /\ Len(block) \in Nat
    BY <1>2, <1>4 DEF Shape, Typed, Closed
  <2>4. [heir EXCEPT ![b] = Len(block) + 1] \in Seq(Nat)
        /\ Len([heir EXCEPT ![b] = Len(block) + 1]) = Len(heir)
    BY <2>3, ExceptSeq
  <2>5. /\ Shape(word, block, <<>>, p.stack, p.queue, p.next, heir)
        /\ p = [queue |-> p.queue, stack |-> p.stack, next |-> p.next, status |-> "reading"]
        /\ Sheltered(word, block, p.stack)
        /\ b \in Closed(block, p.stack) /\ Ready(p.stack, p.queue, p.next, heir, b)
    BY <1>2, <1>4, <2>1
  <2> DEFINE hr == [heir EXCEPT ![b] = Len(block) + 1]
  <2> HIDE DEF p, b
  <2>6. \E d \in Closed(block, p.stack) :
          /\ Ready(p.stack, p.queue, p.next, heir, d)
          /\ hr = [heir EXCEPT ![d] = Len(block) + 1]
    BY <2>5
  <2>7. heir' = Append(hr, 0) /\ hr \in Seq(Nat) /\ Len(hr) = Len(heir)
    BY <1>4, <2>4
  <2> HIDE DEF hr
  <2> QED
    BY <1>1, <1>4, <2>1, <2>2, <2>5, <2>6, <2>7, Opened
<1> QED
  BY <1>3, <1>4 DEF CloseAndOpen

-----------------------------------------------------------------------------
(* The theorems *)

LEMMA LexInvStep ==
  ASSUME LexInv, Layout = "documented", [Next]_vars
  PROVE  LexInv'
<1>1. CASE \E k \in Words : Word(k)
  BY <1>1, LexInvWord
<1>2. CASE EndLine
  BY <1>2, LexInvEndLine
<1>3. CASE \E k \in Openers : Open(k)
  BY <1>3, LexInvOpen
<1>4. CASE \E c \in BlockClosers \ DOMAIN BlockOpeners : CloseOnly(c)
  BY <1>4, LexInvCloseOnly
<1>5. CASE \E c \in BlockClosers \cap DOMAIN BlockOpeners : CloseAndOpen(c)
  BY <1>5, LexInvCloseAndOpen
<1>6. CASE Finish
  BY <1>6, LexInvFinish
<1>7. CASE UNCHANGED vars
  BY <1>7 DEF LexInv, vars
<1> QED
  BY <1>1, <1>2, <1>3, <1>4, <1>5, <1>6, <1>7 DEF Next

LEMMA LexInvAlways == Layout = "documented" => (Spec => []LexInv)
<1> SUFFICES ASSUME Layout = "documented"
             PROVE  Spec => []LexInv
  OBVIOUS
<1>1. Init => LexInv
  BY LexInvInit
<1>2. LexInv /\ [Next]_vars => LexInv'
  BY LexInvStep
<1> QED
  BY <1>1, <1>2, PTL DEF Spec

\* The words of a block.
LEMMA WordsInBlock ==
  ASSUME LexInv, NEW b \in Homes, NEW w \in WordsIn(b)
  PROVE  b \in 0..Len(block) /\ w \in 1..Len(word) /\ word[w].home = b
<1>1. /\ queue \in Seq(Seq(ItemRec)) /\ Len(queue) = Len(block) + 1 /\ Len(block) \in Nat
      /\ Homely(word, block, currentLine, keywordBlockStack, queue)
  BY DEF LexInv, Shape, Typed
<1>2. b \in 0..Len(block) /\ b + 1 \in 1..Len(queue)
  BY <1>1 DEF Homes
<1>3. queue[b + 1] \in Seq(ItemRec)
  BY <1>1, <1>2
<1>4. PICK i \in 1..Len(queue[b + 1]) : w \in ToSet(queue[b + 1][i].words)
  <2>1. PICK item \in ToSet(queue[b + 1]) : w \in ToSet(item.words)
    BY DEF WordsIn
  <2>2. PICK i \in DOMAIN queue[b + 1] : item = queue[b + 1][i]
    BY <2>1 DEF ToSet
  <2>3. i \in 1..Len(queue[b + 1])
    BY <1>3, <2>2
  <2> QED
    BY <2>1, <2>2, <2>3
<1>5. queue[b + 1][i].words \in Seq(Nat)
  <2>1. queue[b + 1][i] \in ItemRec
    BY <1>3, <1>4
  <2> QED
    BY <2>1 DEF ItemRec
<1>6. PICK k \in 1..Len(queue[b + 1][i].words) : w = queue[b + 1][i].words[k]
  BY <1>4, <1>5 DEF ToSet
<1>7. AtHome(word, queue[b + 1][i].words, b)
  BY <1>1, <1>2, <1>4 DEF Homely
<1> QED
  BY <1>2, <1>6, <1>7 DEF AtHome

\* BlockLexer.WordsStayHome, for every program: each word is in the block it was
\* written in (lexer.cpp, pushLine and pushBlock), in the documented layout.
THEOREM WordsAlwaysStayHome == Layout = "documented" => (Spec => []WordsStayHome)
<1>1. LexInv => WordsStayHome
  BY WordsInBlock DEF WordsStayHome
<1> QED
  BY <1>1, LexInvAlways, PTL

\* BlockLexer.BehaviourDefined, for every program: the lexer casts only items that
\* are what it takes them for (lexer.cpp, parseFunction and setNext).
THEOREM BehaviourAlwaysDefined == Layout = "documented" => (Spec => []BehaviourDefined)
<1>1. LexInv => BehaviourDefined
  BY DEF LexInv, BehaviourDefined
<1> QED
  BY <1>1, LexInvAlways, PTL

LEMMA AroundBlocks == InLoop = LoopAround(block) /\ InFunction = FunctionAround(block)
  BY DEF InLoop, InFunction, LoopAround, FunctionAround, Blocks

\* BlockLexer.JumpsHaveATarget, for every program: a jump that is kept is in the
\* loop or the function it leaves (lexer.cpp, hasParentKeywordBlock).
THEOREM JumpsAlwaysHaveATarget == Layout = "documented" => (Spec => []JumpsHaveATarget)
<1>1. LexInv => JumpsHaveATarget
  <2> SUFFICES ASSUME LexInv, NEW b \in Homes, NEW w \in WordsIn(b)
               PROVE  /\ word[w].kind \in {"break", "continue"} => InLoop[b]
                      /\ word[w].kind = "return" => InFunction[b]
    BY DEF JumpsHaveATarget
  <2>1. w \in 1..Len(word) /\ word[w].home = b
    BY WordsInBlock
  <2>2. Sheltered(word, block, keywordBlockStack)
    BY DEF LexInv
  <2>3. /\ word[w].kind \in {"break", "continue"} => LoopAround(block)[b]
        /\ word[w].kind = "return" => FunctionAround(block)[b]
    BY <2>1, <2>2 DEF Sheltered
  <2> QED
    BY <2>3, AroundBlocks
<1> QED
  BY <1>1, LexInvAlways, PTL

\* A block that was closed has one place.
LEMMA OnePlace ==
  ASSUME LexInv, NEW b \in Blocks \ OpenBlocks
  PROVE  \E p : Places(b) = {p}
<1> DEFINE s == keywordBlockStack
<1>1. /\ Typed(word, block, currentLine, s, queue, next, heir)
      /\ Placed(word, block, currentLine, s, queue) /\ Continued(block, s, next, heir)
      /\ Nested(block, s)
      /\ queue \in Seq(Seq(ItemRec)) /\ Len(queue) = Len(block) + 1 /\ Len(block) \in Nat
      /\ s \in Seq(Nat) /\ block \in Seq(BlockRec)
      /\ Len(word) \in Nat /\ Len(currentLine) \in Nat /\ Len(s) \in Nat
      /\ Len(word) <= MaxWords /\ Len(block) <= MaxBlocks
  BY DEF LexInv, Shape, Typed
<1>2. b \in Closed(block, s) /\ b \in 1..Len(block) /\ b \notin OpenOf(s) /\ b # 0
  <2>1. \A i : i \in DOMAIN s <=> i \in 1..Len(s)
    BY <1>1
  <2>2. OpenBlocks = OpenOf(s)
    BY <2>1 DEF OpenBlocks, OpenOf
  <2>3. b # 0
    BY <1>1 DEF Blocks
  <2> QED
    BY <2>2, <2>3 DEF Blocks, Closed
<1>3. MaxWords \in Nat /\ MaxBlocks \in Nat
  BY LexerAssumption
<1> HIDE DEF s
<1>4. ASSUME NEW c \in 0..Len(block)
      PROVE  \A i : i \in DOMAIN queue[c + 1] <=> i \in 1..Len(queue[c + 1])
  <2>1. c + 1 \in 1..Len(queue)
    BY <1>1
  <2>2. queue[c + 1] \in Seq(ItemRec)
    BY <1>1, <2>1
  <2> QED
    BY <2>2
<1>5. ASSUME NEW p
      PROVE  p \in Places(b) <=>
               \/ \E c \in 0..Len(block) : \E i \in 1..Len(queue[c + 1]) :
                    i \in 1..MaxWords + MaxBlocks /\ p = <<c, i>> /\ queue[c + 1][i].block = b
               \/ \E d \in 1..Len(block) : next[d] = b /\ p = <<d, 0>>
  <2> DEFINE M == 1..MaxWords + MaxBlocks
             inQueue == {x \in Homes \X M : /\ x[2] \in DOMAIN queue[x[1] + 1]
                                            /\ queue[x[1] + 1][x[2]].block = b}
             inChain == {<<c, 0>> : c \in {d \in Blocks : next[d] = b}}
  <2>1. p \in Places(b) <=> p \in inQueue \/ p \in inChain
    BY DEF Places
  <2>2. p \in inChain <=> \E d \in 1..Len(block) : next[d] = b /\ p = <<d, 0>>
    BY DEF Blocks
  <2>3. p \in inQueue <=>
          \E c \in 0..Len(block) : \E i \in 1..Len(queue[c + 1]) :
            i \in M /\ p = <<c, i>> /\ queue[c + 1][i].block = b
    <3> HIDE DEF M
    <3>1. ASSUME p \in inQueue
          PROVE  \E c \in 0..Len(block) : \E i \in 1..Len(queue[c + 1]) :
                   i \in M /\ p = <<c, i>> /\ queue[c + 1][i].block = b
      <4>1. p[1] \in 0..Len(block) /\ p[2] \in M /\ p = <<p[1], p[2]>>
        BY <3>1 DEF Homes
      <4>2. p[2] \in 1..Len(queue[p[1] + 1]) /\ queue[p[1] + 1][p[2]].block = b
        BY <1>4, <3>1, <4>1
      <4> QED
        BY <4>1, <4>2
    <3>2. ASSUME NEW c \in 0..Len(block), NEW i \in 1..Len(queue[c + 1]),
                 i \in M, p = <<c, i>>, queue[c + 1][i].block = b
          PROVE  p \in inQueue
      <4>1. p \in Homes \X M /\ p[1] = c /\ p[2] = i
        BY <3>2 DEF Homes
      <4> QED
        BY <1>4, <3>2, <4>1
    <3> HIDE DEF inQueue
    <3> QED
      BY <3>1, <3>2
  <2> HIDE DEF inQueue, inChain
  <2> QED
    BY <2>1, <2>2, <2>3
<1>6. /\ ItemsFit(block, s, queue) /\ ItemsApart(block, queue) /\ BlocksThere(block, s, queue)
      /\ ItemsFew(word, block, currentLine, s, queue)
  BY <1>1 DEF Placed
<1>7. CASE Rooted(block, b)
  <2>1. PICK c \in 0..Len(block) : \E i \in 1..Len(queue[c + 1]) : queue[c + 1][i].block = b
    BY <1>2, <1>6, <1>7 DEF BlocksThere, Has
  <2>2. PICK i \in 1..Len(queue[c + 1]) : queue[c + 1][i].block = b
    BY <2>1
  <2>3. i \in 1..MaxWords + MaxBlocks
    <3>1. Len(queue[c + 1]) <= (Len(word) - Len(currentLine)) + (Len(block) - Len(s))
      BY <1>6 DEF ItemsFew
    <3>2. (Len(word) - Len(currentLine)) + (Len(block) - Len(s)) <= MaxWords + MaxBlocks
      BY <1>1, <1>3
    <3>3. Len(queue[c + 1]) \in Nat
      <4>1. c + 1 \in 1..Len(queue)
        BY <1>1
      <4> QED
        BY <1>1, <4>1
    <3>4. MaxWords + MaxBlocks \in Nat
      BY <1>3
    <3>5. (Len(word) - Len(currentLine)) + (Len(block) - Len(s)) \in Int
      BY <1>1
    <3> QED
      BY <3>1, <3>2, <3>3, <3>4, <3>5
  <2>4. ASSUME NEW d \in 1..Len(block), next[d] = b
        PROVE  FALSE
    <3>1. heir[d] = b
      BY <1>1, <1>2, <2>4 DEF Continued
    <3> QED
      BY <1>1, <1>2, <1>7, <3>1 DEF Continued
  <2>5. ASSUME NEW x \in 0..Len(block), NEW j \in 1..Len(queue[x + 1]), queue[x + 1][j].block = b
        PROVE  x = c /\ j = i
    <3>1. queue[x + 1][j].block = queue[c + 1][i].block /\ queue[x + 1][j].block # 0
      BY <1>2, <2>2, <2>5
    <3>2. ItemsApart(block, queue)
      BY <1>6
    <3>3. \A y \in 0..Len(block) : \A k \in 1..Len(queue[x + 1]), l \in 1..Len(queue[y + 1]) :
            queue[x + 1][k].block = queue[y + 1][l].block /\ queue[x + 1][k].block # 0
              => x = y /\ k = l
      BY <3>2 DEF ItemsApart
    <3> QED
      BY <3>1, <3>3
  <2>6. \A p : p \in Places(b) <=> p = <<c, i>>
    BY <1>5, <2>2, <2>3, <2>4, <2>5
  <2>7. Places(b) = {<<c, i>>}
    BY <2>6
  <2> QED
    BY <2>7
<1>8. CASE ~Rooted(block, b)
  <2>1. PICK d \in 1..Len(block) : heir[d] = b
    BY <1>1, <1>2, <1>8 DEF Continued
  <2>2. next[d] = b
    BY <1>1, <1>2, <2>1 DEF Continued
  <2>3. ASSUME NEW x \in 0..Len(block), NEW j \in 1..Len(queue[x + 1]), queue[x + 1][j].block = b
        PROVE  FALSE
    BY <1>2, <1>6, <1>8, <2>3 DEF ItemsFit, Fits
  <2>4. ASSUME NEW x \in 1..Len(block), next[x] = b
        PROVE  x = d
    <3>1. heir[x] = b
      BY <1>1, <1>2, <2>4 DEF Continued
    <3> QED
      BY <1>1, <1>2, <2>1, <3>1 DEF Continued
  <2>5. \A p : p \in Places(b) <=> p = <<d, 0>>
    BY <1>5, <2>2, <2>3, <2>4
  <2>6. Places(b) = {<<d, 0>>}
    BY <2>5
  <2> QED
    BY <2>6
<1> QED
  BY <1>7, <1>8

\* BlockLexer.BlocksAsWritten, for every program: the chains are those the closers
\* wrote, and every closed block has one place and so one owner
\* (lexer.cpp, parseKeyword; codeblock.cpp, setNext).
THEOREM BlocksAlwaysAsWritten == Layout = "documented" => (Spec => []BlocksAsWritten)
<1>1. LexInv => BlocksAsWritten
  <2> SUFFICES ASSUME LexInv
               PROVE  BlocksAsWritten
    OBVIOUS
  <2>1. ASSUME status = "done"
        PROVE  next = heir
    <3>1. /\ Continued(block, <<>>, next, heir) /\ next \in Seq(Nat) /\ heir \in Seq(Nat)
          /\ Len(next) = Len(block) /\ Len(heir) = Len(block)
      BY <2>1 DEF LexInv, Shape, Typed
    <3>2. OpenOf(<<>>) = {}
      BY DEF OpenOf
    <3>3. \A b \in 1..Len(block) : next[b] = heir[b]
      BY <3>1, <3>2 DEF Continued
    <3> QED
      BY <3>1, <3>3, SeqEqual
  <2>2. ASSUME NEW b \in Blocks \ OpenBlocks
        PROVE  Cardinality(Places(b)) = 1
    BY OnePlace, FS_Singleton
  <2> QED
    BY <2>1, <2>2 DEF BlocksAsWritten
<1> QED
  BY <1>1, LexInvAlways, PTL

-----------------------------------------------------------------------------
(* The regular expressions of Tokenizer *)

\* A run of characters ends at the first that is not of the set.
LEMMA RunEnds ==
  ASSUME NEW S, NEW s \in Seq(S), NEW i \in Nat, i >= 1, NEW C, "end" \notin C
  PROVE  /\ Run(s, i, C) \in Nat /\ Char(s, i + Run(s, i, C)) \notin C
         /\ \A k \in Nat : i <= k /\ k < i + Run(s, i, C) => Char(s, k) \in C
<1> DEFINE T == {n \in Nat : n <= Len(s) /\ Char(s, i + n) \notin C}
           Ends(n) == /\ \A k \in i..(i + n - 1) : Char(s, k) \in C
                      /\ Char(s, i + n) \notin C
<1>1. Len(s) \in Nat /\ DOMAIN s = 1..Len(s)
  OBVIOUS
<1>2. Len(s) \in T
  <2>1. i + Len(s) \notin 1..Len(s)
    BY <1>1
  <2> QED
    BY <1>1, <2>1 DEF Char
<1>3. PICK n \in T : \A m \in T : n <= m
  <2>1. T \in SUBSET Nat /\ T # {}
    BY <1>2
  <2> HIDE DEF T
  <2> QED
    BY <2>1, Least
<1>4. ASSUME NEW k \in i..(i + n - 1)
      PROVE  Char(s, k) \in C
  <2>1. k - i \in Nat /\ k - i <= Len(s) /\ ~(n <= k - i) /\ i + (k - i) = k
    BY <1>1, <1>3
  <2>2. k - i \notin T
    BY <1>3, <2>1
  <2> QED
    BY <2>1, <2>2
<1>5. n \in 0..Len(s) /\ Ends(n)
  BY <1>1, <1>3, <1>4
<1>6. Run(s, i, C) \in 0..Len(s) /\ Ends(Run(s, i, C))
  <2>1. Run(s, i, C) = CHOOSE m \in 0..Len(s) : Ends(m)
    BY DEF Run
  <2> HIDE DEF Ends
  <2> QED
    BY <1>5, <2>1
<1>7. PICK r \in Nat : r = Run(s, i, C) /\ Ends(r)
  BY <1>1, <1>6
<1>8. \A k \in Nat : i <= k /\ k < i + r => k \in i..(i + r - 1)
  OBVIOUS
<1> QED
  BY <1>7, <1>8

\* A run is as long as a stretch of the set that stops.
LEMMA RunUnique ==
  ASSUME NEW S, NEW s \in Seq(S), NEW i \in Nat, i >= 1, NEW C, "end" \notin C,
         NEW n \in Nat, Char(s, i + n) \notin C,
         \A k \in Nat : i <= k /\ k < i + n => Char(s, k) \in C
  PROVE  Run(s, i, C) = n
<1>1. /\ Run(s, i, C) \in Nat /\ Char(s, i + Run(s, i, C)) \notin C
      /\ \A k \in Nat : i <= k /\ k < i + Run(s, i, C) => Char(s, k) \in C
  BY RunEnds
<1>2. PICK r \in Nat : r = Run(s, i, C)
  BY <1>1
<1>3. ~(r < n)
  <2>1. r < n => i + r \in Nat /\ i <= i + r /\ i + r < i + n
    OBVIOUS
  <2> QED
    BY <1>1, <1>2, <2>1
<1>4. ~(n < r)
  <2>1. n < r => i + n \in Nat /\ i <= i + n /\ i + n < i + r
    OBVIOUS
  <2> QED
    BY <1>1, <1>2, <2>1
<1> QED
  BY <1>2, <1>3, <1>4

LEMMA RegexCases ==
  ASSUME NEW s
  PROVE  /\ Match("BIN", s) = PrefixedMatch(s, "b", {"0", "1"})
         /\ Match("HEX", s) = PrefixedMatch(s, "x", HexDigits)
         /\ Match("FLOAT", s) = FloatMatch(s) /\ Match("INT", s) = IntMatch(s)
         /\ Match("ARROW", s) = When(Char(s, 1) = "-" /\ Char(s, 2) = ">", 2)
         /\ Match("BRACKET", s) = One(s, {"[", "]"}) /\ Match("BOOL", s) = One(s, {"true"})
         /\ Match("STRING", s) = StringMatch(s, 1)
         /\ Match("FSTRING", s) = When(Char(s, 1) = "f", StringMatch(s, 2))
         /\ Match("VALUE_TYPE", s) = When(Char(s, 1) = "int", WholeWord(s, 1))
         /\ Match("INDENT", s) = One(s, {"tab"}) /\ Match("COLON", s) = One(s, {":"})
<1>1. /\ Match("BIN", s) = PrefixedMatch(s, "b", {"0", "1"})
      /\ Match("HEX", s) = PrefixedMatch(s, "x", HexDigits)
      /\ Match("FLOAT", s) = FloatMatch(s) /\ Match("INT", s) = IntMatch(s)
  BY DEF Match
<1>2. /\ Match("ARROW", s) = When(Char(s, 1) = "-" /\ Char(s, 2) = ">", 2)
      /\ Match("BRACKET", s) = One(s, {"[", "]"}) /\ Match("BOOL", s) = One(s, {"true"})
      /\ Match("STRING", s) = StringMatch(s, 1)
  BY DEF Match
<1>3. /\ Match("FSTRING", s) = When(Char(s, 1) = "f", StringMatch(s, 2))
      /\ Match("VALUE_TYPE", s) = When(Char(s, 1) = "int", WholeWord(s, 1))
      /\ Match("INDENT", s) = One(s, {"tab"}) /\ Match("COLON", s) = One(s, {":"})
  BY DEF Match
<1> QED
  BY <1>1, <1>2, <1>3

LEMMA MoreRegexCases ==
  ASSUME NEW s
  PROVE  /\ Match("BOOLEAN_OPERATOR", s) = BooleanOperatorMatch(s)
         /\ Match("ASSIGNMENT", s) = One(s, {"="}) /\ Match("OPERATOR", s) = One(s, {"+", "-"})
         /\ Match("EXPRESSION_SEPARATOR", s) = One(s, {";"})
         /\ Match("END_OF_LINE", s) = One(s, {"newline"}) /\ Match("DOT", s) = One(s, {"."})
         /\ Match("CAPS", s) = When(Char(s, 1) \in Upper,
                                 WholeWord(s, Run(s, 1, Upper \cup Digits \cup {"_"})))
         /\ Match("STRUCT_NAME", s) = When(Char(s, 1) \in Upper, WholeWord(s, Run(s, 1, Alnum)))
         /\ Match("FUN_SIGNATURE", s) =
              When(Char(s, 1) = "$" /\ Char(s, 2) \in Lower, 1 + Run(s, 2, Alnum))
         /\ Match("LITERAL", s) = When(Char(s, 1) \in Lower, Run(s, 1, Alnum))
         /\ Match("COMMENT", s) = One(s, {"#"})
<1>1. /\ Match("BOOLEAN_OPERATOR", s) = BooleanOperatorMatch(s)
      /\ Match("ASSIGNMENT", s) = One(s, {"="}) /\ Match("OPERATOR", s) = One(s, {"+", "-"})
      /\ Match("EXPRESSION_SEPARATOR", s) = One(s, {";"})
  BY DEF Match
<1>2. /\ Match("END_OF_LINE", s) = One(s, {"newline"}) /\ Match("DOT", s) = One(s, {"."})
      /\ Match("CAPS", s) = When(Char(s, 1) \in Upper,
                              WholeWord(s, Run(s, 1, Upper \cup Digits \cup {"_"})))
      /\ Match("STRUCT_NAME", s) = When(Char(s, 1) \in Upper, WholeWord(s, Run(s, 1, Alnum)))
  BY DEF Match
<1>3. /\ Match("FUN_SIGNATURE", s) =
           When(Char(s, 1) = "$" /\ Char(s, 2) \in Lower, 1 + Run(s, 2, Alnum))
      /\ Match("LITERAL", s) = When(Char(s, 1) \in Lower, Run(s, 1, Alnum))
      /\ Match("COMMENT", s) = One(s, {"#"})
  BY DEF Match
<1> QED
  BY <1>1, <1>2, <1>3

\* What a text that an expression matches begins with.
Heads ==
  [BIN |-> {"0"}, HEX |-> {"0"}, FLOAT |-> Digits \cup {"-", "."}, INT |-> Digits \cup {"-"},
   ARROW |-> {"-"}, BRACKET |-> {"[", "]"}, BOOL |-> {"true"}, STRING |-> {Quote},
   FSTRING |-> {"f"}, VALUE_TYPE |-> {"int"}, INDENT |-> {"tab"}, COLON |-> {":"},
   BOOLEAN_OPERATOR |-> {"<", ">", "=", "!"}, ASSIGNMENT |-> {"="}, OPERATOR |-> {"+", "-"},
   EXPRESSION_SEPARATOR |-> {";"}, END_OF_LINE |-> {"newline"}, DOT |-> {"."}, CAPS |-> Upper,
   STRUCT_NAME |-> Upper, FUN_SIGNATURE |-> {"$"}, LITERAL |-> Lower, COMMENT |-> {"#"}]

\* Those that match one character.
OneCharacter ==
  {"BRACKET", "BOOL", "VALUE_TYPE", "INDENT", "COLON", "ASSIGNMENT", "OPERATOR",
   "EXPRESSION_SEPARATOR", "END_OF_LINE", "DOT", "COMMENT"}

Begins(s, t) == Match(t, s) \in Nat /\ (Match(t, s) > 0 => Char(s, 1) \in Heads[t])

LEMMA NoEnd ==
  /\ "end" \notin Digits /\ "end" \notin Upper /\ "end" \notin Lower /\ "end" \notin Alnum
  /\ "end" \notin {"0", "1"} /\ "end" \notin HexDigits /\ "end" \notin {" "}
  /\ "end" \notin Upper \cup Digits \cup {"_"} /\ "end" \notin (Characters \cup Alnum) \ {Quote}
<1>1. "end" \notin Digits /\ "end" \notin Upper /\ "end" \notin Lower
  BY DEF Digits, Upper, Lower
<1>2. "end" \notin Alnum
  BY <1>1 DEF Alnum
<1>3. "end" \notin {"0", "1"} /\ "end" \notin HexDigits /\ "end" \notin {" "}
  BY <1>1 DEF HexDigits
<1> QED
  BY <1>1, <1>2, <1>3, TokenizerAssumption

LEMMA OneBegins ==
  ASSUME NEW s, NEW C
  PROVE  One(s, C) \in {0, 1} /\ (One(s, C) > 0 => Char(s, 1) \in C)
  BY DEF One, When

LEMMA OneCharacterBegins ==
  ASSUME NEW s, NEW t \in OneCharacter
  PROVE  Begins(s, t) /\ Match(t, s) \in {0, 1}
<1>1. CASE t \in {"BRACKET", "BOOL", "INDENT", "COLON"}
  <2>1. /\ Match("BRACKET", s) = One(s, Heads["BRACKET"])
        /\ Match("BOOL", s) = One(s, Heads["BOOL"])
        /\ Match("INDENT", s) = One(s, Heads["INDENT"])
        /\ Match("COLON", s) = One(s, Heads["COLON"])
    BY RegexCases DEF Heads
  <2> QED
    BY <1>1, <2>1, OneBegins DEF Begins
<1>2. CASE t \in {"ASSIGNMENT", "OPERATOR", "DOT"}
  <2>1. /\ Match("ASSIGNMENT", s) = One(s, Heads["ASSIGNMENT"])
        /\ Match("OPERATOR", s) = One(s, Heads["OPERATOR"])
        /\ Match("DOT", s) = One(s, Heads["DOT"])
    BY MoreRegexCases DEF Heads
  <2> QED
    BY <1>2, <2>1, OneBegins DEF Begins
<1>3. CASE t \in {"EXPRESSION_SEPARATOR", "END_OF_LINE", "COMMENT"}
  <2>1. /\ Match("EXPRESSION_SEPARATOR", s) = One(s, Heads["EXPRESSION_SEPARATOR"])
        /\ Match("END_OF_LINE", s) = One(s, Heads["END_OF_LINE"])
        /\ Match("COMMENT", s) = One(s, Heads["COMMENT"])
    BY MoreRegexCases DEF Heads
  <2> QED
    BY <1>3, <2>1, OneBegins DEF Begins
<1>4. CASE t = "VALUE_TYPE"
  <2>1. Match("VALUE_TYPE", s) = When(Char(s, 1) = "int", When(EndsWord(s, 1), 1))
    BY RegexCases DEF WholeWord
  <2>2. Heads["VALUE_TYPE"] = {"int"}
    BY DEF Heads
  <2> QED
    BY <1>4, <2>1, <2>2 DEF Begins, When
<1> QED
  BY <1>1, <1>2, <1>3, <1>4 DEF OneCharacter

\* The sign of a number, and the digits behind it.
LEMMA DigitsBehind ==
  ASSUME NEW S, NEW s \in Seq(S)
  PROVE  LET n == Sign(s)  r == Run(s, n + 1, Digits)
         IN /\ n \in {0, 1} /\ (n = 1 <=> Char(s, 1) = "-") /\ r \in Nat
            /\ Char(s, n + 1 + r) \notin Digits
            /\ \A k \in Nat : n + 1 <= k /\ k < n + 1 + r => Char(s, k) \in Digits
            /\ Run(s, n + r + 2, Digits) \in Nat
<1>1. Sign(s) \in {0, 1} /\ (Sign(s) = 1 <=> Char(s, 1) = "-")
  BY DEF Sign, When
<1>2. Sign(s) + 1 \in Nat /\ Sign(s) + 1 >= 1
  BY <1>1
<1>3. /\ Run(s, Sign(s) + 1, Digits) \in Nat
      /\ Char(s, Sign(s) + 1 + Run(s, Sign(s) + 1, Digits)) \notin Digits
      /\ \A k \in Nat : Sign(s) + 1 <= k /\ k < Sign(s) + 1 + Run(s, Sign(s) + 1, Digits)
                          => Char(s, k) \in Digits
  BY <1>2, RunEnds, NoEnd
<1>4. \A m \in Nat : m >= 1 => Run(s, m, Digits) \in Nat
  BY RunEnds, NoEnd
<1>5. Sign(s) + Run(s, Sign(s) + 1, Digits) + 2 \in Nat
      /\ Sign(s) + Run(s, Sign(s) + 1, Digits) + 2 >= 1
  BY <1>1, <1>3
<1> QED
  BY <1>1, <1>3, <1>4, <1>5

\* The two ways of a number.
LEMMA NumberMatches ==
  ASSUME NEW S, NEW s \in Seq(S)
  PROVE  LET n == Sign(s)  r == Run(s, n + 1, Digits)
         IN /\ FloatMatch(s) \in Nat /\ IntMatch(s) \in Nat
            /\ FloatMatch(s) > 0 => /\ Char(s, n + r + 1) = "." /\ FloatMatch(s) >= n + r + 1
                                    /\ n + r + 1 + Run(s, n + r + 2, Digits) > 1
            /\ IntMatch(s) > 0 => r > 0
            /\ IntMatch(s) <= n + r /\ (r > 0 => IntMatch(s) = n + r)
<1> DEFINE n == Sign(s)  r == Run(s, n + 1, Digits)  q == Run(s, n + r + 2, Digits)
<1>1. n \in {0, 1} /\ r \in Nat /\ q \in Nat
  BY DigitsBehind
<1>2. FloatMatch(s) = When(Char(s, n + r + 1) = "." /\ n + r + 1 + q > 1, n + r + 1 + q)
  <2>1. n + r + 1 + 1 = n + r + 2
    BY <1>1
  <2> QED
    BY <2>1 DEF FloatMatch
<1>3. IntMatch(s) = When(r > 0, n + r)
  BY DEF IntMatch
<1> HIDE DEF n, r, q
<1>4. /\ FloatMatch(s) \in Nat /\ IntMatch(s) \in Nat
      /\ FloatMatch(s) > 0 => /\ Char(s, n + r + 1) = "." /\ FloatMatch(s) >= n + r + 1
                              /\ n + r + 1 + q > 1
      /\ IntMatch(s) > 0 => r > 0
      /\ IntMatch(s) <= n + r /\ (r > 0 => IntMatch(s) = n + r)
  BY <1>1, <1>2, <1>3 DEF When
<1> QED
  BY <1>4 DEF n, r, q

LEMMA NumberBegins ==
  ASSUME NEW S, NEW s \in Seq(S), NEW t \in {"BIN", "HEX", "FLOAT", "INT", "ARROW"}
  PROVE  Begins(s, t)
<1>1. \A m \in Nat : m >= 1 => /\ Run(s, m, {"0", "1"}) \in Nat /\ Run(s, m, HexDigits) \in Nat
  BY RunEnds, NoEnd
<1>2. CASE t \in {"BIN", "HEX"}
  <2>1. Run(s, 3, {"0", "1"}) \in Nat /\ Run(s, 3, HexDigits) \in Nat
    BY <1>1
  <2>2. Heads["BIN"] = {"0"} /\ Heads["HEX"] = {"0"}
    BY DEF Heads
  <2> QED
    BY <1>2, <2>1, <2>2, RegexCases DEF PrefixedMatch, When, Begins
<1>3. CASE t = "ARROW"
  <2>1. Heads["ARROW"] = {"-"} /\ Match("ARROW", s) = When(Char(s, 1) = "-" /\ Char(s, 2) = ">", 2)
    BY RegexCases DEF Heads
  <2> QED
    BY <1>3, <2>1 DEF When, Begins
<1>4. CASE t \in {"FLOAT", "INT"}
  <2> DEFINE n == Sign(s)  r == Run(s, n + 1, Digits)
  <2>1. /\ n \in {0, 1} /\ (n = 1 <=> Char(s, 1) = "-") /\ r \in Nat
        /\ \A k \in Nat : n + 1 <= k /\ k < n + 1 + r => Char(s, k) \in Digits
    BY DigitsBehind
  <2>2. /\ FloatMatch(s) \in Nat /\ IntMatch(s) \in Nat
        /\ FloatMatch(s) > 0 => Char(s, n + r + 1) = "."
        /\ IntMatch(s) > 0 => r > 0
    BY NumberMatches
  <2> HIDE DEF n, r
  <2>3. n = 0 /\ r > 0 => Char(s, 1) \in Digits
    BY <2>1
  <2>4. n = 0 /\ r = 0 => n + r + 1 = 1
    OBVIOUS
  <2>5. /\ FloatMatch(s) > 0 => Char(s, 1) \in Digits \cup {"-", "."}
        /\ IntMatch(s) > 0 => Char(s, 1) \in Digits \cup {"-"}
    BY <2>1, <2>2, <2>3, <2>4
  <2>6. /\ Match("FLOAT", s) = FloatMatch(s) /\ Match("INT", s) = IntMatch(s)
        /\ Heads["FLOAT"] = Digits \cup {"-", "."} /\ Heads["INT"] = Digits \cup {"-"}
    BY RegexCases DEF Heads
  <2> QED
    BY <1>4, <2>2, <2>5, <2>6 DEF Begins
<1> QED
  BY <1>2, <1>3, <1>4

LEMMA WordBegins ==
  ASSUME NEW S, NEW s \in Seq(S),
         NEW t \in {"STRING", "FSTRING", "BOOLEAN_OPERATOR", "CAPS", "STRUCT_NAME",
                    "FUN_SIGNATURE", "LITERAL"}
  PROVE  Begins(s, t)
<1>1. /\ Run(s, 1, Alnum) \in Nat /\ Run(s, 2, Alnum) \in Nat
      /\ Run(s, 1, Upper \cup Digits \cup {"_"}) \in Nat
  <2>1. \A m \in Nat : m >= 1 => /\ Run(s, m, Alnum) \in Nat
                                 /\ Run(s, m, Upper \cup Digits \cup {"_"}) \in Nat
    BY RunEnds, NoEnd
  <2>2. 1 \in Nat /\ 1 >= 1 /\ 2 \in Nat /\ 2 >= 1
    OBVIOUS
  <2> QED
    BY <2>1, <2>2
<1>2. StringMatch(s, 1) \in Nat /\ StringMatch(s, 2) \in Nat
      /\ (StringMatch(s, 1) > 0 => Char(s, 1) = Quote)
  <2>1. /\ Run(s, 1 + 1, (Characters \cup Alnum) \ {Quote}) \in Nat
        /\ Run(s, 2 + 1, (Characters \cup Alnum) \ {Quote}) \in Nat
    <3>1. \A m \in Nat : m >= 1 => Run(s, m, (Characters \cup Alnum) \ {Quote}) \in Nat
      BY RunEnds, NoEnd
    <3>2. 1 + 1 \in Nat /\ 1 + 1 >= 1 /\ 2 + 1 \in Nat /\ 2 + 1 >= 1
      OBVIOUS
    <3> QED
      BY <3>1, <3>2
  <2> QED
    BY <2>1 DEF StringMatch, When
<1>3. CASE t \in {"STRING", "FSTRING"}
  <2>1. /\ Match("STRING", s) = StringMatch(s, 1)
        /\ Match("FSTRING", s) = When(Char(s, 1) = "f", StringMatch(s, 2))
        /\ Heads["STRING"] = {Quote} /\ Heads["FSTRING"] = {"f"}
    BY RegexCases DEF Heads
  <2> QED
    BY <1>2, <1>3, <2>1 DEF When, Begins
<1>4. CASE t = "BOOLEAN_OPERATOR"
  <2>1. /\ Match("BOOLEAN_OPERATOR", s) = BooleanOperatorMatch(s)
        /\ Heads["BOOLEAN_OPERATOR"] = {"<", ">", "=", "!"}
    BY MoreRegexCases DEF Heads
  <2> QED
    BY <1>4, <2>1 DEF BooleanOperatorMatch, When, Begins
<1>5. CASE t \in {"CAPS", "STRUCT_NAME"}
  <2>1. /\ Match("CAPS", s) = When(Char(s, 1) \in Upper,
                                WholeWord(s, Run(s, 1, Upper \cup Digits \cup {"_"})))
        /\ Match("STRUCT_NAME", s) = When(Char(s, 1) \in Upper, WholeWord(s, Run(s, 1, Alnum)))
        /\ Heads["CAPS"] = Upper /\ Heads["STRUCT_NAME"] = Upper
    BY MoreRegexCases DEF Heads
  <2>2. /\ WholeWord(s, Run(s, 1, Upper \cup Digits \cup {"_"})) \in Nat
        /\ WholeWord(s, Run(s, 1, Alnum)) \in Nat
    BY <1>1 DEF WholeWord, When
  <2>3. ASSUME NEW n \in Nat
        PROVE  /\ When(Char(s, 1) \in Upper, n) \in Nat
               /\ When(Char(s, 1) \in Upper, n) > 0 => Char(s, 1) \in Upper
    BY DEF When
  <2> QED
    BY <1>5, <2>1, <2>2, <2>3 DEF Begins
<1>6. CASE t \in {"FUN_SIGNATURE", "LITERAL"}
  <2>1. /\ Match("FUN_SIGNATURE", s) =
             When(Char(s, 1) = "$" /\ Char(s, 2) \in Lower, 1 + Run(s, 2, Alnum))
        /\ Match("LITERAL", s) = When(Char(s, 1) \in Lower, Run(s, 1, Alnum))
        /\ Heads["FUN_SIGNATURE"] = {"$"} /\ Heads["LITERAL"] = Lower
    BY MoreRegexCases DEF Heads
  <2>2. ASSUME NEW n \in Nat
        PROVE  /\ When(Char(s, 1) \in Lower, n) \in Nat
               /\ When(Char(s, 1) \in Lower, n) > 0 => Char(s, 1) \in Lower
               /\ When(Char(s, 1) = "$" /\ Char(s, 2) \in Lower, n) \in Nat
               /\ When(Char(s, 1) = "$" /\ Char(s, 2) \in Lower, n) > 0 => Char(s, 1) = "$"
    BY DEF When
  <2>3. 1 + Run(s, 2, Alnum) \in Nat
    <3>1. PICK m \in Nat : m = Run(s, 2, Alnum)
      BY <1>1
    <3>2. 1 + m \in Nat
      OBVIOUS
    <3> QED
      BY <3>1, <3>2
  <2> QED
    BY <1>1, <1>6, <2>1, <2>2, <2>3 DEF Begins
<1> QED
  BY <1>3, <1>4, <1>5, <1>6

LEMMA Order ==
  /\ DOMAIN TokenRegexes = 1..23
  /\ \A i \in 1..23 : TokenRegexes[i] \in DOMAIN Heads
  /\ \A i \in 1..23 : /\ TokenRegexes[i] = "BIN" => i = 1
                      /\ TokenRegexes[i] = "HEX" => i = 2
                      /\ TokenRegexes[i] = "FLOAT" => i = 3
                      /\ TokenRegexes[i] = "INT" => i = 4
                      /\ TokenRegexes[i] = "ARROW" => i = 5
                      /\ TokenRegexes[i] = "FSTRING" => i = 9
                      /\ TokenRegexes[i] = "OPERATOR" => i = 15
                      /\ TokenRegexes[i] = "DOT" => i = 18
                      /\ TokenRegexes[i] = "BOOLEAN_OPERATOR" => i = 13
                      /\ TokenRegexes[i] = "ASSIGNMENT" => i = 14
                      /\ TokenRegexes[i] = "CAPS" => i = 19
                      /\ TokenRegexes[i] = "STRUCT_NAME" => i = 20
                      /\ TokenRegexes[i] = "VALUE_TYPE" => i = 10
                      /\ TokenRegexes[i] = "LITERAL" => i = 22
<1>1. DOMAIN TokenRegexes = 1..23
  BY DEF TokenRegexes
<1>2. /\ TokenRegexes[1] = "BIN" /\ TokenRegexes[2] = "HEX" /\ TokenRegexes[3] = "FLOAT"
      /\ TokenRegexes[4] = "INT" /\ TokenRegexes[5] = "ARROW" /\ TokenRegexes[6] = "BRACKET"
      /\ TokenRegexes[7] = "BOOL" /\ TokenRegexes[8] = "STRING" /\ TokenRegexes[9] = "FSTRING"
      /\ TokenRegexes[10] = "VALUE_TYPE" /\ TokenRegexes[11] = "INDENT"
      /\ TokenRegexes[12] = "COLON" /\ TokenRegexes[13] = "BOOLEAN_OPERATOR"
      /\ TokenRegexes[14] = "ASSIGNMENT" /\ TokenRegexes[15] = "OPERATOR"
      /\ TokenRegexes[16] = "EXPRESSION_SEPARATOR" /\ TokenRegexes[17] = "END_OF_LINE"
      /\ TokenRegexes[18] = "DOT" /\ TokenRegexes[19] = "CAPS"
      /\ TokenRegexes[20] = "STRUCT_NAME" /\ TokenRegexes[21] = "FUN_SIGNATURE"
      /\ TokenRegexes[22] = "LITERAL" /\ TokenRegexes[23] = "COMMENT"
  BY DEF TokenRegexes
<1>3. \A i \in 1..23 : \/ i \in 1..8 \/ i \in 9..16 \/ i \in 17..23
  OBVIOUS
<1>4. \A i \in 1..8 : i = 1 \/ i = 2 \/ i = 3 \/ i = 4 \/ i = 5 \/ i = 6 \/ i = 7 \/ i = 8
  OBVIOUS
<1>5. \A i \in 9..16 : i = 9 \/ i = 10 \/ i = 11 \/ i = 12 \/ i = 13 \/ i = 14 \/ i = 15 \/ i = 16
  OBVIOUS
<1>6. \A i \in 17..23 : i = 17 \/ i = 18 \/ i = 19 \/ i = 20 \/ i = 21 \/ i = 22 \/ i = 23
  OBVIOUS
<1>7. DOMAIN Heads =
        {"BIN", "HEX", "FLOAT", "INT", "ARROW", "BRACKET", "BOOL", "STRING", "FSTRING",
         "VALUE_TYPE", "INDENT", "COLON", "BOOLEAN_OPERATOR", "ASSIGNMENT", "OPERATOR",
         "EXPRESSION_SEPARATOR", "END_OF_LINE", "DOT", "CAPS", "STRUCT_NAME",
         "FUN_SIGNATURE", "LITERAL", "COMMENT"}
  BY DEF Heads
<1> DEFINE Right(i) ==
             /\ TokenRegexes[i] \in DOMAIN Heads
             /\ TokenRegexes[i] = "BIN" => i = 1
             /\ TokenRegexes[i] = "HEX" => i = 2
             /\ TokenRegexes[i] = "FLOAT" => i = 3
             /\ TokenRegexes[i] = "INT" => i = 4
             /\ TokenRegexes[i] = "ARROW" => i = 5
             /\ TokenRegexes[i] = "FSTRING" => i = 9
             /\ TokenRegexes[i] = "OPERATOR" => i = 15
             /\ TokenRegexes[i] = "DOT" => i = 18
             /\ TokenRegexes[i] = "BOOLEAN_OPERATOR" => i = 13
             /\ TokenRegexes[i] = "ASSIGNMENT" => i = 14
             /\ TokenRegexes[i] = "CAPS" => i = 19
             /\ TokenRegexes[i] = "STRUCT_NAME" => i = 20
             /\ TokenRegexes[i] = "VALUE_TYPE" => i = 10
             /\ TokenRegexes[i] = "LITERAL" => i = 22
<1>8. ASSUME NEW i \in 1..8
      PROVE  Right(i)
  BY <1>2, <1>4, <1>7
<1>9. ASSUME NEW i \in 9..16
      PROVE  Right(i)
  BY <1>2, <1>5, <1>7
<1>10. ASSUME NEW i \in 17..23
       PROVE  Right(i)
  BY <1>2, <1>6, <1>7
<1>11. ASSUME NEW i \in 1..23
       PROVE  Right(i)
  <2> HIDE DEF Right
  <2> QED
    BY <1>3, <1>8, <1>9, <1>10
<1> QED
  BY <1>1, <1>11

LEMMA AllBegin ==
  ASSUME NEW S, NEW s \in Seq(S), NEW t \in DOMAIN Heads
  PROVE  Begins(s, t)
<1>1. \/ t \in OneCharacter \/ t \in {"BIN", "HEX", "FLOAT", "INT", "ARROW"}
      \/ t \in {"STRING", "FSTRING", "BOOLEAN_OPERATOR", "CAPS", "STRUCT_NAME",
                "FUN_SIGNATURE", "LITERAL"}
  BY DEF Heads, OneCharacter
<1> QED
  BY <1>1, OneCharacterBegins, NumberBegins, WordBegins

\* A binary or hexadecimal number is no float, and its first digit a number.
LEMMA PrefixFirst ==
  ASSUME NEW S, NEW s \in Seq(S), NEW t \in {"BIN", "HEX"}, Match(t, s) > 0
  PROVE  /\ Match("FLOAT", s) = 0 /\ Match("INT", s) = 1 /\ Char(s, 1) = "0"
         /\ Char(s, 2) = (IF t = "BIN" THEN "b" ELSE "x")
<1>1. Char(s, 1) = "0" /\ Char(s, 2) = (IF t = "BIN" THEN "b" ELSE "x")
  BY RegexCases DEF PrefixedMatch, When
<1>2. Sign(s) = 0
  BY <1>1 DEF Sign, When
<1>3. Run(s, 0 + 1, Digits) = 1
  <2>1. Char(s, (0 + 1) + 1) \notin Digits
    <3>1. (0 + 1) + 1 = 2
      OBVIOUS
    <3> QED
      BY <1>1, <3>1 DEF Digits
  <2>2. \A k \in Nat : 0 + 1 <= k /\ k < (0 + 1) + 1 => Char(s, k) \in Digits
    <3>1. \A k \in Nat : 0 + 1 <= k /\ k < (0 + 1) + 1 => k = 1
      OBVIOUS
    <3> QED
      BY <1>1, <3>1 DEF Digits
  <2>3. 0 + 1 \in Nat /\ 0 + 1 >= 1 /\ 1 \in Nat
    OBVIOUS
  <2> QED
    BY <2>1, <2>2, <2>3, NoEnd, RunUnique
<1>4. /\ FloatMatch(s) \in Nat /\ IntMatch(s) = 1
      /\ FloatMatch(s) > 0 => Char(s, 2) = "."
  <2>1. LET n == Sign(s)  r == Run(s, n + 1, Digits)
        IN /\ FloatMatch(s) \in Nat /\ (r > 0 => IntMatch(s) = n + r)
           /\ FloatMatch(s) > 0 => Char(s, n + r + 1) = "."
    BY NumberMatches
  <2>2. /\ FloatMatch(s) \in Nat /\ (1 > 0 => IntMatch(s) = 0 + 1)
        /\ FloatMatch(s) > 0 => Char(s, 0 + 1 + 1) = "."
    BY <1>2, <1>3, <2>1
  <2>3. 0 + 1 + 1 = 2 /\ 0 + 1 = 1 /\ 1 > 0
    OBVIOUS
  <2> QED
    BY <2>2, <2>3
<1>5. FloatMatch(s) = 0
  BY <1>1, <1>4
<1> QED
  BY <1>1, <1>4, <1>5, RegexCases

\* A float is longer than its digits, and no number begins with an arrow.
LEMMA FloatFirst ==
  ASSUME NEW S, NEW s \in Seq(S)
  PROVE  /\ Match("FLOAT", s) > 0 => Match("INT", s) <= Match("FLOAT", s)
         /\ Match("FLOAT", s) > 0 \/ Match("INT", s) > 0 => Match("ARROW", s) = 0
<1> DEFINE n == Sign(s)  r == Run(s, n + 1, Digits)
<1>1. /\ n \in {0, 1} /\ (n = 1 <=> Char(s, 1) = "-") /\ r \in Nat
      /\ Char(s, n + 1 + r) \notin Digits
      /\ \A k \in Nat : n + 1 <= k /\ k < n + 1 + r => Char(s, k) \in Digits
  BY DigitsBehind
<1>2. /\ FloatMatch(s) \in Nat /\ IntMatch(s) \in Nat
      /\ FloatMatch(s) > 0 => Char(s, n + r + 1) = "." /\ FloatMatch(s) >= n + r + 1
      /\ IntMatch(s) > 0 => r > 0
      /\ IntMatch(s) <= n + r
  BY NumberMatches
<1> HIDE DEF n, r
<1>3. FloatMatch(s) > 0 => IntMatch(s) <= FloatMatch(s)
  BY <1>1, <1>2
<1>4. ASSUME Char(s, 1) = "-", Char(s, 2) = ">"
      PROVE  FloatMatch(s) = 0 /\ IntMatch(s) = 0
  <2>1. n = 1
    BY <1>1, <1>4
  <2>2. r = 0
    <3>1. r > 0 => Char(s, 2) \in Digits
      BY <1>1, <2>1
    <3> QED
      BY <1>1, <1>4, <3>1 DEF Digits
  <2>3. n + r + 1 = 2
    BY <2>1, <2>2
  <2> QED
    BY <1>2, <1>4, <2>2, <2>3
<1>5. /\ Match("FLOAT", s) = FloatMatch(s) /\ Match("INT", s) = IntMatch(s)
      /\ Match("ARROW", s) = When(Char(s, 1) = "-" /\ Char(s, 2) = ">", 2)
  BY RegexCases
<1> QED
  BY <1>2, <1>3, <1>4, <1>5 DEF When

\* A name that goes on with a quote, or that is a type, is one letter.
LEMMA NameFirst ==
  ASSUME NEW S, NEW s \in Seq(S), NEW t \in {"FSTRING", "VALUE_TYPE"}, Match(t, s) > 0
  PROVE  Match("LITERAL", s) <= 1
<1>1. Char(s, 2) \notin Alnum
  <2>1. CASE t = "FSTRING"
    <3>1. Char(s, 2) = Quote
      <4>1. When(Char(s, 1) = "f", StringMatch(s, 2)) > 0
        BY <2>1, RegexCases
      <4>2. StringMatch(s, 2) > 0
        BY <4>1 DEF When
      <4> QED
        BY <4>2 DEF StringMatch, When
    <3> QED
      BY <3>1 DEF Quote, Alnum, Digits, Upper, Lower
  <2>2. CASE t = "VALUE_TYPE"
    <3>1. When(Char(s, 1) = "int", When(EndsWord(s, 1), 1)) > 0
      BY <2>2, RegexCases DEF WholeWord
    <3>2. EndsWord(s, 1) /\ 1 + 1 = 2
      BY <3>1 DEF When
    <3> QED
      BY <3>2 DEF EndsWord
  <2> QED
    BY <2>1, <2>2
<1>2. PICK r \in Nat : /\ r = Run(s, 1, Alnum)
                       /\ \A k \in Nat : 1 <= k /\ k < 1 + r => Char(s, k) \in Alnum
  BY NoEnd, RunEnds
<1>3. ~(r > 1)
  <2>1. r > 1 => 1 <= 2 /\ 2 < 1 + r /\ 2 \in Nat
    OBVIOUS
  <2> QED
    BY <1>1, <1>2, <2>1
<1>4. Match("LITERAL", s) = When(Char(s, 1) \in Lower, r)
  BY <1>2, MoreRegexCases
<1> QED
  BY <1>3, <1>4 DEF When

\* Where capitals and digits end a word, letters do.
LEMMA CapsFirst ==
  ASSUME NEW S, NEW s \in Seq(S), Match("CAPS", s) > 0
  PROVE  Match("STRUCT_NAME", s) <= Match("CAPS", s)
<1>1. PICK m \in Nat : m = Run(s, 1, Upper \cup Digits \cup {"_"})
  <2>1. 1 \in Nat /\ 1 >= 1 /\ "end" \notin Upper \cup Digits \cup {"_"}
    BY NoEnd
  <2>2. Run(s, 1, Upper \cup Digits \cup {"_"}) \in Nat
    BY <2>1, RunEnds
  <2> QED
    BY <2>2
<1>2. PICK r \in Nat : /\ r = Run(s, 1, Alnum)
                       /\ \A k \in Nat : 1 <= k /\ k < 1 + r => Char(s, k) \in Alnum
  BY NoEnd, RunEnds
<1>3. Match("CAPS", s) = When(Char(s, 1) \in Upper, When(EndsWord(s, m), m))
  BY <1>1, MoreRegexCases DEF WholeWord
<1>4. EndsWord(s, m) /\ Match("CAPS", s) = m
  BY <1>3 DEF When
<1>5. ~(r > m)
  <2>1. r > m => 1 <= m + 1 /\ m + 1 < 1 + r /\ m + 1 \in Nat
    OBVIOUS
  <2> QED
    BY <1>2, <1>4, <2>1 DEF EndsWord
<1>6. Match("STRUCT_NAME", s) = When(Char(s, 1) \in Upper, When(EndsWord(s, r), r))
  BY <1>2, MoreRegexCases DEF WholeWord
<1> QED
  BY <1>4, <1>5, <1>6 DEF When

LEMMA HeadsOf ==
  /\ Heads["BIN"] = {"0"} /\ Heads["HEX"] = {"0"} /\ Heads["FLOAT"] = Digits \cup {"-", "."}
  /\ Heads["INT"] = Digits \cup {"-"} /\ Heads["ARROW"] = {"-"} /\ Heads["BRACKET"] = {"[", "]"}
  /\ Heads["BOOL"] = {"true"} /\ Heads["STRING"] = {Quote} /\ Heads["FSTRING"] = {"f"}
  /\ Heads["VALUE_TYPE"] = {"int"} /\ Heads["INDENT"] = {"tab"} /\ Heads["COLON"] = {":"}
  /\ Heads["BOOLEAN_OPERATOR"] = {"<", ">", "=", "!"} /\ Heads["ASSIGNMENT"] = {"="}
  /\ Heads["OPERATOR"] = {"+", "-"} /\ Heads["EXPRESSION_SEPARATOR"] = {";"}
  /\ Heads["END_OF_LINE"] = {"newline"} /\ Heads["DOT"] = {"."} /\ Heads["CAPS"] = Upper
  /\ Heads["STRUCT_NAME"] = Upper /\ Heads["FUN_SIGNATURE"] = {"$"} /\ Heads["LITERAL"] = Lower
  /\ Heads["COMMENT"] = {"#"}
<1>1. /\ Heads["BIN"] = {"0"} /\ Heads["HEX"] = {"0"} /\ Heads["FLOAT"] = Digits \cup {"-", "."}
      /\ Heads["INT"] = Digits \cup {"-"} /\ Heads["ARROW"] = {"-"}
      /\ Heads["BRACKET"] = {"[", "]"}
  BY DEF Heads
<1>2. /\ Heads["BOOL"] = {"true"} /\ Heads["STRING"] = {Quote} /\ Heads["FSTRING"] = {"f"}
      /\ Heads["VALUE_TYPE"] = {"int"} /\ Heads["INDENT"] = {"tab"} /\ Heads["COLON"] = {":"}
  BY DEF Heads
<1>3. /\ Heads["BOOLEAN_OPERATOR"] = {"<", ">", "=", "!"} /\ Heads["ASSIGNMENT"] = {"="}
      /\ Heads["OPERATOR"] = {"+", "-"} /\ Heads["EXPRESSION_SEPARATOR"] = {";"}
      /\ Heads["END_OF_LINE"] = {"newline"} /\ Heads["DOT"] = {"."}
  BY DEF Heads
<1>4. /\ Heads["CAPS"] = Upper /\ Heads["STRUCT_NAME"] = Upper
      /\ Heads["FUN_SIGNATURE"] = {"$"} /\ Heads["LITERAL"] = Lower /\ Heads["COMMENT"] = {"#"}
  BY DEF Heads
<1> QED
  BY <1>1, <1>2, <1>3, <1>4

LEMMA HeadsDomain ==
  DOMAIN Heads =
    {"BIN", "HEX", "FLOAT", "INT", "ARROW", "BRACKET", "BOOL", "STRING", "FSTRING",
     "VALUE_TYPE", "INDENT", "COLON", "BOOLEAN_OPERATOR", "ASSIGNMENT", "OPERATOR",
     "EXPRESSION_SEPARATOR", "END_OF_LINE", "DOT", "CAPS", "STRUCT_NAME",
     "FUN_SIGNATURE", "LITERAL", "COMMENT"}
  BY DEF Heads

\* What begins as a number, as a word, or as neither.
LEMMA HeadTells ==
  ASSUME NEW f \in DOMAIN Heads, NEW c \in Heads[f], f # "BOOL"
  PROVE  /\ c \in {"0", "1", "7", "-"} => f \in {"BIN", "HEX", "FLOAT", "INT", "ARROW", "OPERATOR"}
         /\ c = "." => f \in {"FLOAT", "DOT"}
         /\ c \in Lower => f \in {"FSTRING", "VALUE_TYPE", "LITERAL"}
         /\ c \in Upper => f \in {"CAPS", "STRUCT_NAME"}
         /\ c \in {"<", ">", "=", "!"} => f \in {"BOOLEAN_OPERATOR", "ASSIGNMENT"}
         /\ c = Quote => f = "STRING"
         /\ c = "$" => f = "FUN_SIGNATURE"
<1>1. /\ Digits = {"0", "1", "7"} /\ Upper = {"B", "T"} /\ Quote = "quote"
      /\ Lower = {"b", "f", "x", "true", "int"}
  BY DEF Digits, Upper, Lower, Quote
<1>2. CASE f \in {"BIN", "HEX", "FLOAT", "INT", "ARROW"}
  <2>1. c \in {"0", "1", "7", "-", "."} /\ (c = "." => f = "FLOAT")
    <3>1. /\ Heads["BIN"] = {"0"} /\ Heads["HEX"] = {"0"} /\ Heads["FLOAT"] = Digits \cup {"-", "."}
          /\ Heads["INT"] = Digits \cup {"-"} /\ Heads["ARROW"] = {"-"}
      BY HeadsOf
    <3> QED
      BY <1>1, <1>2, <3>1
  <2> QED
    BY <1>1, <1>2, <2>1
<1>3. CASE f \in {"STRING", "FSTRING", "VALUE_TYPE", "LITERAL"}
  <2>1. c \in Lower \cup {Quote} /\ (c = Quote <=> f = "STRING")
    BY <1>1, <1>3, HeadsOf
  <2> QED
    BY <1>1, <1>3, <2>1
<1>4. CASE f \in {"CAPS", "STRUCT_NAME"}
  <2>1. c \in Upper
    <3>1. Heads[f] = Upper
      BY <1>4, HeadsOf
    <3> QED
      BY <3>1
  <2> QED
    BY <1>1, <1>4, <2>1
<1>5. CASE f \in {"BOOLEAN_OPERATOR", "ASSIGNMENT"}
  <2>1. c \in {"<", ">", "=", "!"}
    BY <1>5, HeadsOf
  <2> QED
    BY <1>1, <1>5, <2>1
<1>6. CASE f \in {"OPERATOR", "DOT", "FUN_SIGNATURE"}
  <2>1. c \in {"+", "-", ".", "$"} /\ (c = "-" => f = "OPERATOR") /\ (c = "." => f = "DOT")
        /\ (c = "$" => f = "FUN_SIGNATURE")
    BY <1>6, HeadsOf
  <2> QED
    BY <1>1, <2>1
<1>7. CASE f \in {"BRACKET", "INDENT", "COLON", "EXPRESSION_SEPARATOR", "END_OF_LINE", "COMMENT"}
  <2>1. c \in {"[", "]", "tab", ":", ";", "newline", "#"}
    BY <1>7, HeadsOf
  <2> QED
    BY <1>1, <2>1
<1> QED
  BY <1>2, <1>3, <1>4, <1>5, <1>6, <1>7, HeadsDomain

\* Of two expressions that match, the one that is tried first takes more, but for
\* the words true and false.
LEMMA FirstIsLongest ==
  ASSUME NEW S, NEW s \in Seq(S), NEW i \in 1..23, NEW j \in 1..23, i <= j,
         Match(TokenRegexes[i], s) > 0, Match(TokenRegexes[j], s) > 0,
         TokenRegexes[i] # "BOOL"
  PROVE  Match(TokenRegexes[j], s) <= Match(TokenRegexes[i], s)
<1> SUFFICES ASSUME NEW f, NEW t, NEW c, f = TokenRegexes[i], t = TokenRegexes[j],
                    c = Char(s, 1)
             PROVE  Match(t, s) <= Match(f, s)
  OBVIOUS
<1>1. /\ f \in DOMAIN Heads /\ t \in DOMAIN Heads
      /\ f = "BIN" => i = 1
      /\ f = "HEX" => i = 2
      /\ f = "FLOAT" => i = 3
      /\ f = "INT" => i = 4
      /\ f = "ARROW" => i = 5
      /\ f = "OPERATOR" => i = 15
      /\ f = "DOT" => i = 18
      /\ f = "ASSIGNMENT" => i = 14
      /\ f = "STRUCT_NAME" => i = 20
      /\ f = "LITERAL" => i = 22
  BY Order
<1>2. /\ t = "BIN" => j = 1
      /\ t = "HEX" => j = 2
      /\ t = "FLOAT" => j = 3
      /\ t = "INT" => j = 4
      /\ t = "ARROW" => j = 5
      /\ t = "FSTRING" => j = 9
      /\ t = "BOOLEAN_OPERATOR" => j = 13
      /\ t = "CAPS" => j = 19
  BY Order
<1>3. /\ Match(f, s) \in Nat /\ Match(f, s) >= 1 /\ c \in Heads[f]
      /\ Match(t, s) \in Nat /\ Match(t, s) >= 1 /\ c \in Heads[t]
  <2>1. Begins(s, f) /\ Begins(s, t)
    BY <1>1, AllBegin
  <2>2. \A n \in Nat : n > 0 => n >= 1
    OBVIOUS
  <2> QED
    BY <2>1, <2>2 DEF Begins
<1>4. Match(f, s) > 0 /\ Match(t, s) > 0 /\ Match(t, s) <= Match(t, s)
  BY <1>3
<1>5. CASE t \in OneCharacter
  <2>1. Match(t, s) \in {0, 1}
    BY <1>5, OneCharacterBegins
  <2> QED
    BY <1>3, <2>1
<1>6. /\ c \in {"0", "1", "7", "-"} => f \in {"BIN", "HEX", "FLOAT", "INT", "ARROW", "OPERATOR"}
      /\ c = "." => f \in {"FLOAT", "DOT"}
      /\ c \in Lower => f \in {"FSTRING", "VALUE_TYPE", "LITERAL"}
      /\ c \in Upper => f \in {"CAPS", "STRUCT_NAME"}
      /\ c \in {"<", ">", "=", "!"} => f \in {"BOOLEAN_OPERATOR", "ASSIGNMENT"}
      /\ c = Quote => f = "STRING"
      /\ c = "$" => f = "FUN_SIGNATURE"
  <2>1. f # "BOOL"
    OBVIOUS
  <2> QED
    BY <1>1, <1>3, <2>1, HeadTells
<1>7. CASE t \in {"BIN", "HEX"}
  <2>1. c = "0" /\ Match("FLOAT", s) = 0 /\ Char(s, 2) = (IF t = "BIN" THEN "b" ELSE "x")
    BY <1>3, <1>7, PrefixFirst, <1>4
  <2>2. f \in {"BIN", "HEX"}
    BY <1>1, <1>2, <1>3, <1>6, <1>7, <2>1
  <2>3. Char(s, 2) = (IF f = "BIN" THEN "b" ELSE "x")
    BY <1>3, <2>2, PrefixFirst, <1>4
  <2>4. f = t
    BY <1>7, <2>1, <2>2, <2>3
  <2> QED
    BY <1>3, <2>4
<1>8. CASE t = "FLOAT"
  <2>1. c \in {"0", "1", "7", "-", "."}
    BY <1>3, <1>8, HeadsOf DEF Digits
  <2>2. f \in {"BIN", "HEX", "FLOAT"}
    BY <1>1, <1>2, <1>6, <1>8, <2>1
  <2>3. f \notin {"BIN", "HEX"}
    BY <1>3, <1>8, PrefixFirst, <1>4
  <2>4. f = t
    BY <1>8, <2>2, <2>3
  <2> QED
    BY <1>3, <2>4
<1>9. CASE t = "INT"
  <2>1. c \in {"0", "1", "7", "-"}
    BY <1>3, <1>9, HeadsOf DEF Digits
  <2>2. f \in {"BIN", "HEX", "FLOAT", "INT"}
    BY <1>1, <1>2, <1>6, <1>9, <2>1
  <2>3. CASE f \in {"BIN", "HEX"}
    BY <1>3, <1>9, <2>3, PrefixFirst, <1>4
  <2>4. CASE f = "FLOAT"
    BY <1>3, <1>9, <2>4, FloatFirst, <1>4
  <2>5. CASE f = "INT"
    BY <1>3, <1>9, <2>5
  <2> QED
    BY <2>2, <2>3, <2>4, <2>5
<1>10. CASE t = "ARROW"
  <2>1. c = "-"
    <3>1. Heads["ARROW"] = {"-"}
      BY HeadsOf
    <3> QED
      BY <1>3, <1>10, <3>1
  <2>2. f \in {"BIN", "HEX", "FLOAT", "INT", "ARROW"}
    BY <1>1, <1>2, <1>6, <1>10, <2>1
  <2>3. f \notin {"BIN", "HEX"}
    BY <1>3, <2>1, PrefixFirst, <1>4
  <2>4. f \notin {"FLOAT", "INT"}
    BY <1>3, <1>10, FloatFirst, <1>4
  <2>5. f = t
    BY <1>10, <2>2, <2>3, <2>4
  <2> QED
    BY <1>3, <2>5
<1>11. CASE t = "STRING"
  <2>1. c = Quote
    <3>1. Heads[t] = {Quote}
      BY <1>11, HeadsOf
    <3> QED
      BY <1>3, <3>1
  <2>2. f = t
    BY <1>6, <1>11, <2>1
  <2> QED
    BY <1>3, <2>2
<1>12. CASE t \in {"FSTRING", "LITERAL"}
  <2>1. c \in Lower /\ (t = "FSTRING" => c = "f")
    <3>1. Heads[t] = (IF t = "FSTRING" THEN {"f"} ELSE Lower)
      BY <1>12, HeadsOf
    <3> QED
      BY <1>3, <1>12, <3>1 DEF Lower
  <2>2. f \in {"FSTRING", "VALUE_TYPE", "LITERAL"}
    BY <1>6, <2>1
  <2>3. CASE t = "LITERAL" /\ f \in {"FSTRING", "VALUE_TYPE"}
    <3>1. Match("LITERAL", s) <= 1
      BY <1>3, <2>3, NameFirst, <1>4
    <3> QED
      BY <1>3, <2>3, <3>1
  <2>4. CASE t = "FSTRING" /\ f = "VALUE_TYPE"
    <3>1. c = "int"
      <4>1. Heads["VALUE_TYPE"] = {"int"}
        BY HeadsOf
      <4> QED
        BY <1>3, <2>4, <4>1
    <3> QED
      BY <2>1, <2>4, <3>1
  <2>5. CASE t = "FSTRING" /\ f = "LITERAL"
    <3>1. i = 22 /\ j = 9
      BY <2>5, <1>1, <1>2
    <3> QED
      BY <3>1
  <2>6. CASE f = t
    BY <1>3, <2>6
  <2> QED
    BY <1>12, <2>2, <2>3, <2>4, <2>5, <2>6
<1>13. CASE t = "BOOLEAN_OPERATOR"
  <2>1. c \in {"<", ">", "=", "!"}
    BY <1>3, <1>13, HeadsOf
  <2>2. f = t
    BY <1>1, <1>2, <1>6, <1>13, <2>1
  <2> QED
    BY <1>3, <2>2
<1>14. CASE t \in {"CAPS", "STRUCT_NAME"}
  <2>1. c \in Upper
    BY <1>3, <1>14, HeadsOf
  <2>2. f \in {"CAPS", "STRUCT_NAME"}
    BY <1>6, <2>1
  <2>3. CASE f = "CAPS" /\ t = "STRUCT_NAME"
    BY <1>3, <2>3, CapsFirst, <1>4
  <2>4. ~(f = "STRUCT_NAME" /\ t = "CAPS")
    BY <1>1, <1>2
  <2>5. CASE f = t
    BY <1>3, <2>5
  <2> QED
    BY <1>14, <2>2, <2>3, <2>4, <2>5
<1>15. CASE t = "FUN_SIGNATURE"
  <2>1. c = "$"
    BY <1>3, <1>15, HeadsOf
  <2>2. f = t
    BY <1>6, <1>15, <2>1
  <2> QED
    BY <1>3, <2>2
<1>16. \/ t \in OneCharacter \/ t \in {"BIN", "HEX"} \/ t = "FLOAT" \/ t = "INT" \/ t = "ARROW"
       \/ t = "STRING" \/ t \in {"FSTRING", "LITERAL"} \/ t = "BOOLEAN_OPERATOR"
       \/ t \in {"CAPS", "STRUCT_NAME"} \/ t = "FUN_SIGNATURE"
  BY <1>1, HeadsDomain DEF OneCharacter
<1> QED
  BY <1>5, <1>7, <1>8, <1>9, <1>10, <1>11, <1>12, <1>13, <1>14, <1>15, <1>16

-----------------------------------------------------------------------------
(* The tokens found *)

\* Each token is the first expression that matches where the token begins.
FoundFirst ==
  \A k \in 1..Len(found) :
    LET rest == SubSeq(input, found[k].from + 1, Len(input))
    IN /\ found[k].from \in Nat /\ Matching(rest) # {}
       /\ found[k].type = First(rest) /\ found[k].size = Match(First(rest), rest)

TokensInv ==
  /\ input \in Seq(Characters) /\ at \in Nat /\ found \in Seq(Range(found))
  /\ FoundFirst

\* The first expression that matches, its place in the order, and what it takes.
LEMMA FirstMatches ==
  ASSUME NEW S, NEW s \in Seq(S), Matching(s) # {}
  PROVE  \E i \in 1..23 : /\ First(s) = TokenRegexes[i] /\ Match(First(s), s) > 0
                          /\ Match(First(s), s) \in Nat
                          /\ \A j \in Matching(s) : i <= j
<1>1. Matching(s) = {i \in 1..23 : Match(TokenRegexes[i], s) > 0}
  BY Order DEF Matching
<1>2. \E i \in Matching(s) : \A j \in Matching(s) : i <= j
  <2>1. Matching(s) \in SUBSET Nat
    BY <1>1
  <2> QED
    BY <2>1, Least
<1>3. PICK i : i = CHOOSE k \in Matching(s) : \A j \in Matching(s) : k <= j
  OBVIOUS
<1>4. i \in Matching(s) /\ \A j \in Matching(s) : i <= j
  BY <1>2, <1>3
<1>5. i \in 1..23 /\ First(s) = TokenRegexes[i] /\ Match(First(s), s) > 0
  BY <1>1, <1>3, <1>4 DEF First
<1>6. First(s) \in DOMAIN Heads
  BY <1>5, Order
<1>7. Match(First(s), s) \in Nat
  BY <1>6, AllBegin DEF Begins
<1> QED
  BY <1>4, <1>5, <1>7

LEMMA TokensInitially == TokenizerInit => TokensInv
<1> SUFFICES ASSUME TokenizerInit
             PROVE  TokensInv
  OBVIOUS
<1>1. PICK n \in 0..MaxLength : input \in [1..n -> Characters]
  BY DEF TokenizerInit
<1>2. input \in Seq(Characters)
  BY <1>1, TokenizerAssumption
<1>3. found = << >> /\ at = 0
  BY DEF TokenizerInit
<1>4. found \in Seq({}) /\ Len(found) = 0 /\ at \in Nat
  BY <1>3
<1>5. found \in Seq(Range(found))
  BY <1>4, OwnRange
<1> QED
  BY <1>2, <1>4, <1>5 DEF TokensInv, FoundFirst

\* A token that is added is the first that matches.
LEMMA ScanKeeps == TokensInv /\ Scan => TokensInv'
<1> SUFFICES ASSUME TokensInv, Scan
             PROVE  TokensInv'
  OBVIOUS
<1>1. /\ input \in Seq(Characters) /\ at \in Nat /\ found \in Seq(Range(found)) /\ FoundFirst
      /\ input' = input
  BY DEF TokensInv, Scan
<1>2. CASE UNCHANGED <<at, found>>
  BY <1>1, <1>2 DEF TokensInv, FoundFirst, Matching
<1>3. CASE /\ Matching(Rest) # {} /\ Advance(First(Rest))
           /\ found' = IF First(Rest) = "INDENT" THEN found ELSE Append(found, Token(First(Rest)))
  <2>1. Rest \in Seq(Characters)
    BY <1>1, SuffixOf DEF Rest
  <2>2. Match(First(Rest), Rest) \in Nat
    BY <1>3, <2>1, FirstMatches
  <2>3. Run(Rest, Match(First(Rest), Rest) + 1, {" "}) \in Nat
    <3>1. Match(First(Rest), Rest) + 1 \in Nat /\ Match(First(Rest), Rest) + 1 >= 1
      BY <2>2
    <3> QED
      BY <2>1, <3>1, NoEnd, RunEnds
  <2>4. at' \in Nat
    <3>1. at' = at + Match(First(Rest), Rest) + Run(Rest, Match(First(Rest), Rest) + 1, {" "})
      BY <1>3 DEF Advance
    <3>2. \A n, m \in Nat : at + n + m \in Nat
      BY <1>1
    <3> QED
      BY <2>2, <2>3, <3>1, <3>2
  <2> DEFINE tk == Token(First(Rest))
  <2>5. tk.type = First(Rest) /\ tk.from = at /\ tk.size = Match(First(Rest), Rest)
    BY DEF Token
  <2> HIDE DEF tk
  <2>6. CASE found' = found
    BY <1>1, <2>4, <2>6 DEF TokensInv, FoundFirst, Matching
  <2>7. CASE found' = Append(found, tk)
    <3>1. found \in Seq(Range(found) \cup {tk}) /\ found' \in Seq(Range(found) \cup {tk})
      BY <1>1, <2>7
    <3>2. /\ Len(found) \in Nat /\ Len(found') = Len(found) + 1 /\ found'[Len(found) + 1] = tk
          /\ \A k \in 1..Len(found) : found'[k] = found[k]
      BY <2>7, <3>1
    <3>3. found' \in Seq(Range(found'))
      BY <3>1, OwnRange
    <3>4. ASSUME NEW k \in 1..Len(found')
          PROVE  LET rest == SubSeq(input, found'[k].from + 1, Len(input))
                 IN /\ found'[k].from \in Nat /\ Matching(rest) # {}
                    /\ found'[k].type = First(rest) /\ found'[k].size = Match(First(rest), rest)
      <4>1. k \in 1..Len(found) \/ k = Len(found) + 1
        BY <3>2
      <4>2. CASE k \in 1..Len(found)
        <5>1. found'[k] = found[k]
          BY <3>2, <4>2
        <5> QED
          BY <1>1, <4>2, <5>1 DEF FoundFirst
      <4>3. CASE k = Len(found) + 1
        <5>1. found'[k] = tk
          BY <3>2, <4>3
        <5> QED
          BY <1>1, <1>3, <2>5, <5>1 DEF Rest
      <4> QED
        BY <4>1, <4>2, <4>3
    <3>5. FoundFirst'
      BY <1>1, <3>4 DEF FoundFirst
    <3> QED
      BY <1>1, <2>4, <3>3, <3>5 DEF TokensInv
  <2> QED
    BY <1>3, <2>6, <2>7 DEF tk
<1> QED
  BY <1>2, <1>3 DEF Scan

\* The newlines at the end go: what is kept is the front of what was found.
LEMMA ScannedKeepsFront ==
  ASSUME TokensInv, Scanned
  PROVE  /\ \E n \in Nat : /\ n <= Len(found) /\ Len(found') = n
                           /\ \A k \in 1..n : found'[k] = found[k] /\ k \in 1..Len(found)
         /\ found' \in Seq(Range(found'))
<1>1. /\ input \in Seq(Characters) /\ at \in Nat /\ found \in Seq(Range(found)) /\ FoundFirst
      /\ input' = input /\ at' = at /\ Len(found) \in Nat
  BY DEF TokensInv, Scanned
<1> DEFINE Kept(n) == /\ \A k \in (n + 1)..Len(found) : found[k].type = "END_OF_LINE"
                      /\ n > 0 => found[n].type # "END_OF_LINE"
<1>2. \E n \in 0..Len(found) : Kept(n)
  <2> DEFINE T == {n \in Nat : /\ n <= Len(found)
                               /\ \A k \in (n + 1)..Len(found) : found[k].type = "END_OF_LINE"}
  <2>1. Len(found) \in T /\ T \in SUBSET Nat
    BY <1>1
  <2>2. PICK n \in T : \A m \in T : n <= m
    <3> HIDE DEF T
    <3> QED
      BY <2>1, Least
  <2>3. ASSUME n > 0, found[n].type = "END_OF_LINE"
        PROVE  FALSE
    <3>1. \A k \in ((n - 1) + 1)..Len(found) : k = n \/ k \in (n + 1)..Len(found)
      BY <1>1, <2>2
    <3>2. n - 1 \in Nat /\ n - 1 <= Len(found) /\ ~(n <= n - 1)
      BY <1>1, <2>2, <2>3
    <3>3. n - 1 \in T
      BY <2>2, <2>3, <3>1, <3>2
    <3> QED
      BY <2>2, <3>2, <3>3
  <2> QED
    BY <1>1, <2>2, <2>3
<1>3. PICK n : n = CHOOSE m \in 0..Len(found) : Kept(m)
  OBVIOUS
<1>4. n \in 0..Len(found)
  BY <1>2, <1>3
<1>5. found' = SubSeq(found, 1, n)
  BY <1>3 DEF Scanned
<1>6. /\ found' \in Seq(Range(found)) /\ Len(found') = n
      /\ \A k \in 1..n : found'[k] = found[k] /\ k \in 1..Len(found)
  BY <1>1, <1>4, <1>5
<1>7. found' \in Seq(Range(found'))
  BY <1>6, OwnRange
<1>8. n \in Nat /\ n <= Len(found)
  BY <1>1, <1>4
<1> QED
  BY <1>6, <1>7, <1>8

LEMMA ScannedKeeps == TokensInv /\ Scanned => TokensInv'
<1> SUFFICES ASSUME TokensInv, Scanned
             PROVE  TokensInv'
  OBVIOUS
<1>1. /\ input \in Seq(Characters) /\ at \in Nat /\ FoundFirst /\ input' = input /\ at' = at
  BY DEF TokensInv, Scanned
<1>2. PICK n \in Nat : /\ n <= Len(found) /\ Len(found') = n
                       /\ \A k \in 1..n : found'[k] = found[k] /\ k \in 1..Len(found)
  BY ScannedKeepsFront
<1>3. found' \in Seq(Range(found'))
  BY ScannedKeepsFront
<1>4. FoundFirst'
  BY <1>1, <1>2 DEF FoundFirst, Matching
<1> QED
  BY <1>1, <1>3, <1>4 DEF TokensInv

LEMMA TokensStep == TokensInv /\ [TokenizerNext]_tokenizerVars => TokensInv'
<1> SUFFICES ASSUME TokensInv, [TokenizerNext]_tokenizerVars
             PROVE  TokensInv'
  OBVIOUS
<1>1. CASE Scan
  BY <1>1, ScanKeeps
<1>2. CASE Scanned
  BY <1>2, ScannedKeeps
<1>3. CASE UNCHANGED <<input, at, found>>
  BY <1>3 DEF TokensInv, FoundFirst, Matching
<1> QED
  BY <1>1, <1>2, <1>3 DEF TokenizerNext, Lex, tokenizerVars

\* What the first expression takes is what any of them takes at the most.
LEMMA TokensAreLongest == TokensInv => LongestMatchWins
<1> SUFFICES ASSUME TokensInv
             PROVE  LongestMatchWins
  OBVIOUS
<1>1. /\ input \in Seq(Characters) /\ DOMAIN found = 1..Len(found) /\ FoundFirst
  BY DEF TokensInv
<1>2. SUFFICES ASSUME NEW k \in 1..Len(found), found[k].type # "BOOL",
                      NEW t \in Matching(SubSeq(input, found[k].from + 1, Len(input)))
               PROVE  Match(TokenRegexes[t], SubSeq(input, found[k].from + 1, Len(input)))
                        <= found[k].size
  BY <1>1 DEF LongestMatchWins
<1>3. PICK rest : rest = SubSeq(input, found[k].from + 1, Len(input))
  OBVIOUS
<1>4. /\ found[k].from \in Nat /\ Matching(rest) # {} /\ found[k].type = First(rest)
      /\ found[k].size = Match(First(rest), rest)
  BY <1>1, <1>3 DEF FoundFirst
<1>5. rest \in Seq(Characters)
  BY <1>1, <1>3, <1>4, SuffixOf
<1>6. PICK i \in 1..23 : /\ First(rest) = TokenRegexes[i] /\ Match(First(rest), rest) > 0
                         /\ \A j \in Matching(rest) : i <= j
  BY <1>4, <1>5, FirstMatches
<1>7. t \in 1..23 /\ Match(TokenRegexes[t], rest) > 0 /\ i <= t
  BY <1>2, <1>3, <1>6, Order DEF Matching
<1>8. Match(TokenRegexes[t], rest) <= Match(TokenRegexes[i], rest)
  BY <1>2, <1>4, <1>5, <1>6, <1>7, FirstIsLongest
<1> QED
  BY <1>3, <1>4, <1>6, <1>8

\* Whatever the line, each token the lexer makes is the longest any of its
\* regular expressions would take there, but for true and false.
THEOREM LongestMatchAlwaysWins == TokenizerSpec => []LongestMatchWins
<1>1. TokenizerInit => TokensInv
  BY TokensInitially
<1>2. TokensInv /\ [TokenizerNext]_tokenizerVars => TokensInv'
  BY TokensStep
<1>3. TokensInv => LongestMatchWins
  BY TokensAreLongest
<1> QED
  BY <1>1, <1>2, <1>3, PTL DEF TokenizerSpec

-----------------------------------------------------------------------------
(* The loops over the digits of a number *)

\* The value after each character.
Reads(f, t, base, digit) ==
  /\ f[0] = 0 /\ \A i \in 0..Len(t) : f[i] \in Nat
  /\ \A i \in 1..Len(t) : f[i] = base * f[i - 1] + digit[t[i]]
  /\ Accumulated(t, base, digit) = f[Len(t)]

LEMMA AccumulatedLoop ==
  ASSUME NEW t, Len(t) \in Nat, NEW base \in Nat, NEW digit,
         \A i \in 1..Len(t) : digit[t[i]] \in Nat
  PROVE  \E f : Reads(f, t, base, digit)
<1> DEFINE n == Len(t)  a == [i \in 1..n |-> base]  b == [i \in 1..n |-> digit[t[i]]]
           Solves(f) == f = [i \in 0..n |-> IF i = 0 THEN 0 ELSE base * f[i - 1] + digit[t[i]]]
<1>1. a \in [1..n -> Nat] /\ b \in [1..n -> Nat]
  OBVIOUS
<1>2. PICK g : Horner(g, n, 0, a, b)
  <2>1. n \in Nat /\ 0 \in Nat
    OBVIOUS
  <2> HIDE DEF a, b, n
  <2>2. \E f : Horner(f, n, 0, a, b)
    BY <1>1, <2>1, LoopExists
  <2> QED
    BY <2>2
<1>3. /\ g = [i \in 0..n |-> g[i]] /\ g[0] = 0
      /\ \A i \in 1..n : g[i] = base * g[i - 1] + digit[t[i]]
  BY <1>2 DEF Horner
<1>4. \A i \in 0..n : i = 0 \/ i \in 1..n
  OBVIOUS
<1>5. \E h : Solves(h)
  <2> HIDE DEF a, b, n
  <2>1. \A i \in 0..n : g[i] = IF i = 0 THEN 0 ELSE base * g[i - 1] + digit[t[i]]
    BY <1>3, <1>4
  <2>2. g = [i \in 0..n |-> IF i = 0 THEN 0 ELSE base * g[i - 1] + digit[t[i]]]
    <3>1. [i \in 0..n |-> g[i]] = [i \in 0..n |-> IF i = 0 THEN 0 ELSE base * g[i - 1] + digit[t[i]]]
      BY <2>1, Zenon
    <3> QED
      BY <1>3, <3>1, Zenon
  <2> QED
    BY <2>2
<1> DEFINE number == CHOOSE h : Solves(h)
<1>6. Accumulated(t, base, digit) = number[n]
  BY DEF Accumulated
<1>7. Solves(number)
  <2> HIDE DEF Solves
  <2> QED
    BY <1>5
<1> HIDE DEF number
<1>8. PICK f : Solves(f) /\ Accumulated(t, base, digit) = f[n]
  BY <1>6, <1>7
<1>9. f[0] = 0 /\ \A i \in 1..n : f[i] = base * f[i - 1] + digit[t[i]]
  BY <1>8
<1>10. \A i \in 0..n : f[i] \in Nat
  <2> DEFINE P == {i \in 0..n : f[i] \in Nat}
  <2>1. 0 \in P
    BY <1>9
  <2>2. ASSUME NEW k \in 0..(n - 1), k \in P PROVE k + 1 \in P
    <3>1. k + 1 \in 1..n /\ (k + 1) - 1 = k /\ k + 1 \in 0..n
      OBVIOUS
    <3>2. f[k + 1] = base * f[k] + digit[t[k + 1]] /\ digit[t[k + 1]] \in Nat /\ f[k] \in Nat
      BY <1>9, <2>2, <3>1
    <3> QED
      BY <3>1, <3>2, ProductNat
  <2> HIDE DEF P
  <2>3. \A k \in 0..n : k \in P
    BY <2>1, <2>2, InductTo
  <2> QED
    BY <2>3 DEF P
<1>11. Reads(f, t, base, digit)
  BY <1>8, <1>9, <1>10 DEF Reads
<1> QED
  BY <1>11

\* One digit more or less at the front, with the weight of those behind.
LEMMA Weighed == \A b, h, d, w \in Nat : (b * h + d) * w = h * (b * w) + d * w
  OBVIOUS

\* Read from the front, or as the sum of what each digit counts for.
LEMMA SaysAccumulated ==
  ASSUME NEW t, Len(t) \in Nat, NEW base \in Nat, \A i \in 1..Len(t) : Ord[t[i]] \in Nat
  PROVE  DigitsSay(t, base) = Accumulated(t, base, Ord) /\ DigitsSay(t, base) \in Nat
<1> DEFINE n == Len(t)
           Weighs(w) == w = [k \in 0..n |-> IF k = 0 THEN 1 ELSE base * w[k - 1]]
           weight == CHOOSE w : Weighs(w)
           Sums(s) == s = [k \in 0..n |-> IF k = 0 THEN 0
                                          ELSE s[k - 1] + Ord[t[n - k + 1]] * weight[k - 1]]
           sum == CHOOSE s : Sums(s)
<1>1. DigitsSay(t, base) = sum[n]
  BY DEF DigitsSay
<1>2. n \in Nat
  OBVIOUS
<1>3. Weighs(weight)
  <2> DEFINE a == [i \in 1..n |-> base]  b == [i \in 1..n |-> 0]
  <2>1. a \in [1..n -> Nat] /\ b \in [1..n -> Nat] /\ 1 \in Nat
    OBVIOUS
  <2>2. \E w : Horner(w, n, 1, a, b)
    <3> HIDE DEF a, b, n
    <3> QED
      BY <1>2, <2>1, LoopExists
  <2>3. PICK w : Horner(w, n, 1, a, b)
    <3> HIDE DEF a, b, n
    <3> QED
      BY <2>2
  <2>4. /\ w = [i \in 0..n |-> w[i]] /\ w[0] = 1 /\ \A i \in 0..n : w[i] \in Nat
        /\ \A i \in 1..n : w[i] = a[i] * w[i - 1] + b[i]
    <3> HIDE DEF a, b, n
    <3> QED
      BY <2>3 DEF Horner
  <2>5. \A i \in 1..n : w[i] = base * w[i - 1]
    <3> SUFFICES ASSUME NEW i \in 1..n PROVE w[i] = base * w[i - 1]
      OBVIOUS
    <3>1. w[i] = base * w[i - 1] + 0 /\ i - 1 \in 0..n /\ w[i - 1] \in Nat
      <4>1. i - 1 \in 0..n /\ a[i] = base /\ b[i] = 0
        OBVIOUS
      <4> HIDE DEF a, b
      <4> QED
        BY <2>4, <4>1
    <3>2. base * w[i - 1] \in Nat
      BY <3>1, ProductNat
    <3> QED
      BY <3>1, <3>2
  <2> HIDE DEF a, b, n
  <2>6. \A i \in 0..n : w[i] = IF i = 0 THEN 1 ELSE base * w[i - 1]
    <3>1. \A i \in 0..n : i = 0 \/ i \in 1..n
      BY <1>2
    <3> QED
      BY <2>4, <2>5, <3>1
  <2>7. Weighs(w)
    <3>1. [i \in 0..n |-> w[i]] = [i \in 0..n |-> IF i = 0 THEN 1 ELSE base * w[i - 1]]
      BY <2>6, Zenon
    <3> QED
      BY <2>4, <3>1, Zenon
  <2> HIDE DEF Weighs
  <2> QED
    BY <2>7
<1> HIDE DEF weight
<1>4. /\ weight[0] = 1 /\ \A i \in 1..n : weight[i] = base * weight[i - 1]
      /\ \A i \in 0..n : weight[i] \in Nat
  <2>1. weight[0] = 1 /\ \A i \in 1..n : weight[i] = base * weight[i - 1]
    BY <1>2, <1>3
  <2> DEFINE P == {i \in 0..n : weight[i] \in Nat}
  <2>2. 0 \in P
    BY <1>2, <2>1
  <2>3. ASSUME NEW k \in 0..(n - 1), k \in P PROVE k + 1 \in P
    <3>1. k + 1 \in 1..n /\ (k + 1) - 1 = k /\ k + 1 \in 0..n
      BY <1>2
    <3>2. weight[k + 1] = base * weight[k] + 0 /\ weight[k] \in Nat
      <4>1. weight[k + 1] = base * weight[k] /\ weight[k] \in Nat
        BY <2>1, <2>3, <3>1
      <4>2. base * weight[k] \in Nat
        BY <4>1, ProductNat
      <4> QED
        BY <4>1, <4>2
    <3> QED
      BY <3>1, <3>2, ProductNat
  <2> HIDE DEF P, n
  <2>4. \A k \in 0..n : k \in P
    BY <1>2, <2>2, <2>3, InductTo
  <2> QED
    BY <2>1, <2>4 DEF P
<1>5. Sums(sum)
  <2> DEFINE a == [i \in 1..n |-> 1]  b == [i \in 1..n |-> Ord[t[n - i + 1]] * weight[i - 1]]
  <2>1. \A i \in 1..n : Ord[t[n - i + 1]] * weight[i - 1] \in Nat
    <3> SUFFICES ASSUME NEW i \in 1..n PROVE Ord[t[n - i + 1]] * weight[i - 1] \in Nat
      OBVIOUS
    <3>1. n - i + 1 \in 1..n /\ i - 1 \in 0..n
      OBVIOUS
    <3>2. Ord[t[n - i + 1]] \in Nat /\ weight[i - 1] \in Nat
      BY <1>4, <3>1
    <3> QED
      BY <3>2
  <2>2. a \in [1..n -> Nat] /\ b \in [1..n -> Nat] /\ 0 \in Nat
    BY <2>1
  <2>3. \E s : Horner(s, n, 0, a, b)
    <3> HIDE DEF a, b, n
    <3> QED
      BY <1>2, <2>2, LoopExists
  <2>4. PICK s : Horner(s, n, 0, a, b)
    <3> HIDE DEF a, b, n
    <3> QED
      BY <2>3
  <2>5. /\ s = [i \in 0..n |-> s[i]] /\ s[0] = 0 /\ \A i \in 0..n : s[i] \in Nat
        /\ \A i \in 1..n : s[i] = a[i] * s[i - 1] + b[i]
    <3> HIDE DEF a, b, n
    <3> QED
      BY <2>4 DEF Horner
  <2>6. \A i \in 1..n : s[i] = s[i - 1] + Ord[t[n - i + 1]] * weight[i - 1]
    <3> SUFFICES ASSUME NEW i \in 1..n PROVE s[i] = s[i - 1] + Ord[t[n - i + 1]] * weight[i - 1]
      OBVIOUS
    <3>1. s[i] = 1 * s[i - 1] + b[i] /\ i - 1 \in 0..n /\ s[i - 1] \in Nat
      <4>1. i - 1 \in 0..n /\ a[i] = 1
        OBVIOUS
      <4> HIDE DEF a, b
      <4> QED
        BY <2>5, <4>1
    <3>2. b[i] = Ord[t[n - i + 1]] * weight[i - 1] /\ b[i] \in Nat
      BY <2>2
    <3> HIDE DEF b
    <3> QED
      BY <3>1, <3>2
  <2> HIDE DEF a, b, n
  <2>7. \A i \in 0..n : s[i] = IF i = 0 THEN 0 ELSE s[i - 1] + Ord[t[n - i + 1]] * weight[i - 1]
    <3>1. \A i \in 0..n : i = 0 \/ i \in 1..n
      BY <1>2
    <3> QED
      BY <2>5, <2>6, <3>1
  <2>8. Sums(s)
    <3>1. [i \in 0..n |-> s[i]] = [i \in 0..n |-> IF i = 0 THEN 0
                                     ELSE s[i - 1] + Ord[t[n - i + 1]] * weight[i - 1]]
      BY <2>7, Zenon
    <3> QED
      BY <2>5, <3>1, Zenon
  <2> HIDE DEF Sums
  <2> QED
    BY <2>8
<1> HIDE DEF sum
<1>6. sum[0] = 0 /\ \A i \in 1..n : sum[i] = sum[i - 1] + Ord[t[n - i + 1]] * weight[i - 1]
  BY <1>2, <1>5
<1>7. PICK f : /\ f[0] = 0 /\ \A i \in 0..n : f[i] \in Nat
               /\ \A i \in 1..n : f[i] = base * f[i - 1] + Ord[t[i]]
               /\ Accumulated(t, base, Ord) = f[n]
  <2>1. \E f : Reads(f, t, base, Ord)
    BY AccumulatedLoop
  <2> QED
    BY <2>1 DEF Reads
<1>8. \A k \in 0..n : sum[k] \in Nat /\ f[n - k] * weight[k] + sum[k] = f[n]
  <2> DEFINE P == {k \in 0..n : sum[k] \in Nat /\ f[n - k] * weight[k] + sum[k] = f[n]}
  <2>1. 0 \in P
    <3>1. n - 0 = n /\ n \in 0..n /\ 0 \in 0..n
      BY <1>2
    <3>2. f[n] \in Nat /\ f[n] * 1 + 0 = f[n]
      BY <1>7, <3>1
    <3> HIDE DEF n
    <3> QED
      BY <1>4, <1>6, <3>1, <3>2
  <2>2. ASSUME NEW k \in 0..(n - 1), k \in P PROVE k + 1 \in P
    <3>1. /\ k + 1 \in 1..n /\ (k + 1) - 1 = k /\ k + 1 \in 0..n /\ k \in 0..n
          /\ n - k \in 1..n /\ (n - k) - 1 = n - (k + 1) /\ n - (k + 1) \in 0..n
          /\ n - (k + 1) + 1 = n - k
      BY <1>2
    <3> DEFINE h == f[n - (k + 1)]  d == Ord[t[n - k]]  w == weight[k]
    <3>2. h \in Nat /\ d \in Nat /\ w \in Nat /\ sum[k] \in Nat
      BY <1>4, <1>7, <2>2, <3>1
    <3>3. /\ f[n - k] = base * h + d /\ weight[k + 1] = base * w
          /\ sum[k + 1] = sum[k] + d * w /\ f[n - k] * w + sum[k] = f[n]
      <4>1. f[n - k] = base * f[(n - k) - 1] + Ord[t[n - k]]
        BY <1>7, <3>1
      <4>2. sum[k + 1] = sum[(k + 1) - 1] + Ord[t[n - (k + 1) + 1]] * weight[(k + 1) - 1]
        BY <1>6, <3>1
      <4>3. weight[k + 1] = base * weight[(k + 1) - 1]
        BY <1>4, <3>1
      <4> QED
        BY <2>2, <3>1, <4>1, <4>2, <4>3
    <3> HIDE DEF h, d, w, n
    <3>4. /\ (base * h + d) * w = h * (base * w) + d * w
          /\ d * w \in Nat /\ h * (base * w) \in Nat
      BY <3>2, Weighed
    <3>5. sum[k + 1] \in Nat /\ h * weight[k + 1] + sum[k + 1] = f[n]
      BY <3>2, <3>3, <3>4, SMTT(30)
    <3> QED
      BY <3>1, <3>5 DEF h
  <2> HIDE DEF P, n
  <2>3. \A k \in 0..n : k \in P
    BY <1>2, <2>1, <2>2, InductTo
  <2> QED
    BY <2>3 DEF P
<1>9. sum[n] \in Nat /\ sum[n] = f[n]
  <2>1. n - n = 0 /\ n \in 0..n
    BY <1>2
  <2>2. sum[n] \in Nat /\ 0 * weight[n] + sum[n] = f[n] /\ weight[n] \in Nat
    BY <1>4, <1>7, <1>8, <2>1
  <2> QED
    BY <2>2
<1> QED
  BY <1>1, <1>7, <1>9

LEMMA WithoutTwo == \A n \in Nat : n >= 2 =>
  (3 <= n => n - 3 + 1 = n - 2) /\ (~(3 <= n) => n - 2 = 0) /\ n - 3 + 1 = n - 2
  OBVIOUS

\* The characters of the prefix count for nothing.
LEMMA PrefixSilent ==
  ASSUME NEW S, NEW t \in Seq(S), Len(t) >= 2, NEW base \in Nat, NEW digit,
         digit[t[1]] = 0, digit[t[2]] = 0,
         \A i \in 3..Len(t) : Ord[t[i]] \in Nat /\ digit[t[i]] = Ord[t[i]]
  PROVE  LET d == SubSeq(t, 3, Len(t))
         IN Accumulated(t, base, digit) = DigitsSay(d, base) /\ DigitsSay(d, base) \in Nat
<1> DEFINE n == Len(t)  d == SubSeq(t, 3, n)
<1>1. n \in Nat /\ n >= 2
  OBVIOUS
<1>2. /\ d \in Seq(S) /\ Len(d) = n - 2 /\ \A i \in 1..(n - 2) : d[i] = t[i + 2]
  <2>1. Len(d) = IF 3 <= n THEN n - 3 + 1 ELSE 0
    BY <1>1, SubSeqProperties
  <2>2. d \in Seq(S) /\ \A i \in 1..(n - 3 + 1) : d[i] = t[3 + i - 1]
    BY <1>1, SubSeqProperties
  <2>3. (3 <= n => n - 3 + 1 = n - 2) /\ (~(3 <= n) => n - 2 = 0) /\ n - 3 + 1 = n - 2
    BY <1>1, WithoutTwo
  <2>4. \A i \in 1..(n - 2) : 3 + i - 1 = i + 2
    BY <1>1
  <2> HIDE DEF n, d
  <2> QED
    BY <2>1, <2>2, <2>3, <2>4
<1> HIDE DEF d
<1>3. \A i \in 1..(n - 2) : i + 2 \in 3..n /\ i + 2 \in 1..n /\ (i + 2) - 1 = (i - 1) + 2
  BY <1>1
<1>4. \A i \in 1..Len(d) : Ord[d[i]] \in Nat /\ digit[d[i]] = Ord[d[i]]
  BY <1>2, <1>3, SMTT(30)
<1>5. \A i \in 1..n : digit[t[i]] \in Nat
  <2>1. \A i \in 1..n : i = 1 \/ i = 2 \/ i \in 3..n
    BY <1>1
  <2> QED
    BY <2>1
<1>6. PICK f : Reads(f, t, base, digit)
  BY <1>1, <1>5, AccumulatedLoop
<1>7. PICK g : Reads(g, d, base, Ord)
  <2>1. Len(d) \in Nat /\ \A i \in 1..Len(d) : Ord[d[i]] \in Nat
    BY <1>1, <1>2, <1>4
  <2> HIDE DEF n
  <2> QED
    BY <2>1, AccumulatedLoop
<1>8. \A k \in 0..(n - 2) : f[k + 2] = g[k]
  <2> DEFINE P == {k \in 0..(n - 2) : f[k + 2] = g[k]}
  <2>1. 0 \in P
    <3>1. f[1] = base * f[0] + 0 /\ f[2] = base * f[1] + 0
      <4>1. 1 \in 1..n /\ 2 \in 1..n /\ 1 - 1 = 0 /\ 2 - 1 = 1
        BY <1>1
      <4> QED
        BY <1>6, <4>1 DEF Reads
    <3>2. base * 0 + 0 = 0
      OBVIOUS
    <3> QED
      BY <1>1, <1>6, <1>7, <3>1, <3>2 DEF Reads
  <2>2. ASSUME NEW k \in 0..(n - 2 - 1), k \in P PROVE k + 1 \in P
    <3>1. k + 1 \in 1..(n - 2) /\ k + 1 \in 0..(n - 2) /\ (k + 1) - 1 = k
          /\ (k + 1) + 2 \in 1..n /\ ((k + 1) + 2) - 1 = k + 2 /\ (k + 1) + 2 \in 3..n
      BY <1>1
    <3>2. g[k + 1] = base * g[k] + Ord[d[k + 1]]
      BY <1>2, <1>7, <3>1 DEF Reads
    <3>3. f[(k + 1) + 2] = base * f[k + 2] + digit[t[(k + 1) + 2]]
      BY <1>6, <3>1 DEF Reads
    <3>4. digit[t[(k + 1) + 2]] = Ord[d[k + 1]]
      BY <1>2, <3>1
    <3> QED
      BY <2>2, <3>1, <3>2, <3>3, <3>4
  <2> HIDE DEF P, n
  <2>3. n - 2 \in Nat
    BY <1>1
  <2>4. \A k \in 0..(n - 2) : k \in P
    BY <2>1, <2>2, <2>3, InductTo
  <2> QED
    BY <2>4 DEF P
<1>9. Accumulated(t, base, digit) = Accumulated(d, base, Ord)
  <2>1. n - 2 \in 0..(n - 2) /\ (n - 2) + 2 = n
    BY <1>1
  <2> QED
    BY <1>2, <1>6, <1>7, <1>8, <2>1 DEF Reads
<1>10. Len(d) \in Nat
  BY <1>1, <1>2
<1>11. DigitsSay(d, base) = Accumulated(d, base, Ord) /\ DigitsSay(d, base) \in Nat
  BY <1>4, <1>10, SaysAccumulated
<1> QED
  BY <1>9, <1>11 DEF d

LEMMA WrappedFits == ASSUME NEW n \in Nat, n <= MaxLong PROVE Wrapped(n) = n
<1>1. MaxLong \in Nat /\ 2 * (MaxLong + 1) \in Nat /\ n < 2 * (MaxLong + 1) /\ 2 * (MaxLong + 1) > 0
  BY TokenizerAssumption
<1>2. \A a \in Nat, b \in Nat : a < b => a % b = a
  OBVIOUS
<1>3. n % (2 * (MaxLong + 1)) = n
  BY <1>1, <1>2
<1> QED
  BY <1>1, <1>3 DEF Wrapped

LEMMA OrdNat == \A c \in HexDigits : Ord[c] \in Nat /\ c \in Alnum /\ HexDigit[c] = Ord[c]
<1>1. HexDigits = {"0", "1", "7", "b", "f", "B"} /\ HexDigits \subseteq Alnum
  BY DEF HexDigits, Digits, Alnum, Upper, Lower
<1>2. \A c \in HexDigits : Ord[c] \in Nat
  BY <1>1 DEF Ord
<1> QED
  BY <1>1, <1>2 DEF HexDigit

LEMMA BinDigits ==
  /\ BinDigit["0"] = 0 /\ BinDigit["1"] = 1 /\ BinDigit["b"] = 0
  /\ HexDigit["0"] = 0 /\ HexDigit["x"] = 0 /\ Ord["0"] = 0 /\ Ord["1"] = 1
<1>1. {"0", "1", "b", "x"} \subseteq Alnum /\ "x" \notin HexDigits
  BY DEF Alnum, Digits, Upper, Lower, HexDigits
<1>2. Ord["0"] = 0 /\ Ord["1"] = 1
  BY DEF Ord
<1> QED
  BY <1>1, <1>2 DEF BinDigit, HexDigit, When

-----------------------------------------------------------------------------
(* What the text of a number looks like *)

LEMMA TextOf ==
  ASSUME NEW S, NEW s \in Seq(S), NEW n \in Nat, n >= 1, Char(s, n) # "end"
  PROVE  LET t == SubSeq(s, 1, n)
         IN t \in Seq(S) /\ Len(t) = n /\ \A k \in 1..n : t[k] = Char(s, k)
<1>1. Len(s) \in Nat /\ DOMAIN s = 1..Len(s) /\ \A k \in 1..Len(s) : s[k] \in S
  OBVIOUS
<1>2. n <= Len(s)
  BY <1>1 DEF Char
<1>3. \A k \in 1..n : k \in 1..Len(s) /\ Char(s, k) = s[k]
  BY <1>1, <1>2 DEF Char
<1>4. \A k \in 1..n : s[k] \in S
  BY <1>1, <1>3
<1>5. PICK t : t = SubSeq(s, 1, n)
  OBVIOUS
<1>6. /\ t \in Seq(S) /\ Len(t) = n - 1 + 1
      /\ \A k \in 1..(n - 1 + 1) : t[k] = s[1 + k - 1]
  BY <1>4, <1>5, SubSeqProperties
<1>7. n - 1 + 1 = n /\ \A k \in 1..n : 1 + k - 1 = k
  OBVIOUS
<1>8. t \in Seq(S) /\ Len(t) = n /\ \A k \in 1..n : t[k] = Char(s, k)
  BY <1>3, <1>6, <1>7
<1> QED
  BY <1>5, <1>8

LEMMA NoMark == "-" \notin Digits /\ "." \notin Digits /\ "-" # "." /\ "-" # "end" /\ "." # "end"
  BY DEF Digits

\* An integer: digits, with a sign in front or not.
LEMMA IntText ==
  ASSUME NEW S, NEW s \in Seq(S), Match("INT", s) > 0
  PROVE  LET t == SubSeq(s, 1, Match("INT", s))
         IN /\ t \in Seq(S) /\ Len(t) >= 1
            /\ t[1] = "-" => Len(t) >= 2 /\ \A k \in 2..Len(t) : t[k] \in Digits
            /\ t[1] # "-" => \A k \in 1..Len(t) : t[k] \in Digits
<1> DEFINE n == Sign(s)  r == Run(s, n + 1, Digits)
<1>1. /\ n \in {0, 1} /\ (n = 1 <=> Char(s, 1) = "-") /\ r \in Nat
      /\ \A k \in Nat : n + 1 <= k /\ k < n + 1 + r => Char(s, k) \in Digits
  BY DigitsBehind
<1>2. Match("INT", s) = n + r /\ r > 0
  <2>1. Match("INT", s) = IntMatch(s)
    BY RegexCases
  <2>2. (IntMatch(s) > 0 => r > 0) /\ (r > 0 => IntMatch(s) = n + r)
    BY NumberMatches
  <2> HIDE DEF n, r
  <2> QED
    BY <2>1, <2>2
<1> HIDE DEF n, r
<1>3. n + r \in Nat /\ n + r >= 1 /\ Char(s, n + r) # "end"
  <2>1. n + r \in Nat /\ n + 1 <= n + r /\ n + r < n + 1 + r /\ n + r >= 1
    BY <1>1, <1>2
  <2>2. Char(s, n + r) \in Digits
    BY <1>1, <2>1
  <2> QED
    BY <2>1, <2>2, NoEnd
<1>4. PICK t : t = SubSeq(s, 1, n + r)
  OBVIOUS
<1>5. t \in Seq(S) /\ Len(t) = n + r /\ \A k \in 1..(n + r) : t[k] = Char(s, k)
  BY <1>3, <1>4, TextOf
<1>6. t[1] = "-" <=> n = 1
  BY <1>1, <1>3, <1>5
<1>7. \A k \in (n + 1)..(n + r) : t[k] \in Digits
  <2>1. \A k \in (n + 1)..(n + r) : k \in Nat /\ n + 1 <= k /\ k < n + 1 + r /\ k \in 1..(n + r)
    BY <1>1
  <2> QED
    BY <1>1, <1>5, <2>1
<1>8. /\ t[1] = "-" => Len(t) >= 2 /\ \A k \in 2..Len(t) : t[k] \in Digits
      /\ t[1] # "-" => \A k \in 1..Len(t) : t[k] \in Digits
  BY <1>1, <1>2, <1>5, <1>6, <1>7
<1> QED
  BY <1>2, <1>3, <1>4, <1>5, <1>8

\* A binary or hexadecimal number: a prefix of two characters, then digits.
LEMMA PrefixedText ==
  ASSUME NEW S, NEW s \in Seq(S), NEW c, c # "end", NEW C, "end" \notin C,
         PrefixedMatch(s, c, C) > 0
  PROVE  LET t == SubSeq(s, 1, PrefixedMatch(s, c, C))
         IN /\ t \in Seq(S) /\ Len(t) >= 2 /\ t[1] = "0" /\ t[2] = c
            /\ \A k \in 3..Len(t) : t[k] \in C
<1> DEFINE r == Run(s, 3, C)
<1>1. r \in Nat /\ \A k \in Nat : 3 <= k /\ k < 3 + r => Char(s, k) \in C
  BY RunEnds
<1>2. PrefixedMatch(s, c, C) = 2 + r /\ r > 0 /\ Char(s, 1) = "0" /\ Char(s, 2) = c
  BY <1>1 DEF PrefixedMatch, When
<1> HIDE DEF r
<1>3. 2 + r \in Nat /\ 2 + r >= 1 /\ Char(s, 2 + r) # "end"
  <2>1. 2 + r \in Nat /\ 3 <= 2 + r /\ 2 + r < 3 + r /\ 2 + r >= 1
    BY <1>1, <1>2
  <2>2. Char(s, 2 + r) \in C
    BY <1>1, <2>1
  <2> QED
    BY <2>1, <2>2
<1>4. PICK t : t = SubSeq(s, 1, 2 + r)
  OBVIOUS
<1>5. t \in Seq(S) /\ Len(t) = 2 + r /\ \A k \in 1..(2 + r) : t[k] = Char(s, k)
  BY <1>3, <1>4, TextOf
<1>6. 1 \in 1..(2 + r) /\ 2 \in 1..(2 + r)
  BY <1>1
<1>7. \A k \in 3..(2 + r) : k \in Nat /\ 3 <= k /\ k < 3 + r /\ k \in 1..(2 + r)
  BY <1>1
<1>8. Len(t) >= 2 /\ t[1] = "0" /\ t[2] = c /\ \A k \in 3..Len(t) : t[k] \in C
  BY <1>1, <1>2, <1>5, <1>6, <1>7
<1> QED
  BY <1>2, <1>4, <1>5, <1>8

\* The only float without a digit.
LEMMA FloatText ==
  ASSUME NEW S, NEW s \in Seq(S), Match("FLOAT", s) > 0
  PROVE  LET t == SubSeq(s, 1, Match("FLOAT", s))
         IN (\E i \in DOMAIN t : t[i] \in Digits) \/ t = <<"-", ".">>
<1> DEFINE n == Sign(s)  r == Run(s, n + 1, Digits)  q == Run(s, n + r + 2, Digits)
<1>1. /\ n \in {0, 1} /\ (n = 1 <=> Char(s, 1) = "-") /\ r \in Nat /\ q \in Nat
      /\ \A k \in Nat : n + 1 <= k /\ k < n + 1 + r => Char(s, k) \in Digits
  BY DigitsBehind
<1>2. \A k \in Nat : n + r + 2 <= k /\ k < n + r + 2 + q => Char(s, k) \in Digits
  <2>1. n + r + 2 \in Nat /\ n + r + 2 >= 1
    BY <1>1
  <2> QED
    BY <2>1, NoEnd, RunEnds
<1>3. Match("FLOAT", s) = n + r + 1 + q /\ Char(s, n + r + 1) = "." /\ n + r + 1 + q > 1
  <2>1. n + r + 1 + 1 = n + r + 2
    BY <1>1
  <2>2. FloatMatch(s) = When(Char(s, n + r + 1) = "." /\ n + r + 1 + q > 1, n + r + 1 + q)
    BY <2>1 DEF FloatMatch
  <2>3. Match("FLOAT", s) = FloatMatch(s)
    BY RegexCases
  <2> HIDE DEF n, r, q
  <2> QED
    BY <1>1, <2>2, <2>3 DEF When
<1> HIDE DEF n, r, q
<1> DEFINE m == n + r + 1 + q
<1>4. m \in Nat /\ m >= 1 /\ Char(s, m) # "end"
  <2>1. CASE q = 0
    BY <1>1, <1>3, <2>1, NoMark
  <2>2. CASE q > 0
    <3>1. m \in Nat /\ m >= 1 /\ n + r + 2 <= m /\ m < n + r + 2 + q
      BY <1>1, <2>2
    <3> QED
      BY <1>2, <3>1, NoEnd
  <2> QED
    BY <1>1, <2>1, <2>2
<1>5. PICK t : t = SubSeq(s, 1, m)
  OBVIOUS
<1>6. t \in Seq(S) /\ Len(t) = m /\ \A k \in 1..m : t[k] = Char(s, k)
  BY <1>4, <1>5, TextOf
<1>7. DOMAIN t = 1..m
  BY <1>6
<1>8. CASE r > 0
  <2>1. n + 1 \in 1..m /\ n + 1 <= n + 1 /\ n + 1 < n + 1 + r /\ n + 1 \in Nat
    BY <1>1, <1>8
  <2>2. t[n + 1] \in Digits
    BY <1>1, <1>6, <2>1
  <2> QED
    BY <1>3, <1>5, <1>7, <2>1, <2>2
<1>9. CASE q > 0
  <2>1. m \in 1..m /\ n + r + 2 <= m /\ m < n + r + 2 + q
    BY <1>1, <1>9
  <2>2. t[m] \in Digits
    BY <1>2, <1>4, <1>6, <2>1
  <2> QED
    BY <1>3, <1>5, <1>7, <2>1, <2>2
<1>10. CASE r = 0 /\ q = 0
  <2>1. n = 1 /\ m = 2
    BY <1>1, <1>3, <1>10
  <2>2. t[1] = "-" /\ t[2] = "." /\ Len(t) = 2
    BY <1>1, <1>3, <1>6, <1>10, <2>1
  <2>3. t = <<t[1], t[2]>>
    <3> DEFINE u == <<t[1], t[2]>>
    <3>1. t[1] \in S /\ t[2] \in S
      <4>1. Len(t) = 2
        BY <2>2
      <4>2. 1 \in 1..2 /\ 2 \in 1..2
        OBVIOUS
      <4>3. t \in Seq(S)
        BY <1>6
      <4>4. \A i \in 1..Len(t) : t[i] \in S
        BY <4>3
      <4> QED
        BY <4>1, <4>2, <4>4
    <3>2. u \in Seq(S) /\ Len(u) = 2 /\ u[1] = t[1] /\ u[2] = t[2]
      BY <3>1
    <3>3. \A i \in 1..Len(t) : i = 1 \/ i = 2
      BY <2>2
    <3> HIDE DEF u
    <3>4. \A i \in 1..Len(t) : t[i] = u[i]
      BY <3>2, <3>3
    <3>5. t = u
      BY <1>6, <2>2, <3>2, <3>4, SeqEqual
    <3> QED
      BY <3>5 DEF u
  <2>4. t = <<"-", ".">>
    BY <2>2, <2>3
  <2> QED
    BY <1>3, <1>5, <2>4
<1>11. r > 0 \/ q > 0 \/ (r = 0 /\ q = 0)
  BY <1>1
<1> QED
  BY <1>8, <1>9, <1>10, <1>11

-----------------------------------------------------------------------------
(* The values of the literals *)

Quoted == {"STRING", "FSTRING"}

\* The text of a token, quoted ones aside, is what the expression took.
TextsFound ==
  \A k \in 1..Len(found) : found[k].type \notin Quoted =>
    found[k].text = SubSeq(SubSeq(input, found[k].from + 1, Len(input)), 1, found[k].size)

\* Each value is that of the token at its place; the token behind the last of
\* them is the one that made the lexer stop.
ValuesParsed ==
  /\ values \in Seq(Range(values)) /\ Len(values) <= Len(found)
  /\ scan = "scanning" => Len(values) = 0
  /\ \A i \in 1..Len(values) : /\ values[i] = Parsed(found[i])
                               /\ values[i] \notin {Threw, Refused}
  /\ scan = "threw" => /\ Len(values) < Len(found)
                       /\ Parsed(found[Len(values) + 1]) = Threw

NumbersInv == TokensInv /\ TextsFound /\ ValuesParsed

LEMMA NumbersInitially == TokenizerInit => NumbersInv
<1> SUFFICES ASSUME TokenizerInit
             PROVE  NumbersInv
  OBVIOUS
<1>1. found = << >> /\ values = << >> /\ scan = "scanning"
  BY DEF TokenizerInit
<1>2. Len(found) = 0 /\ Len(values) = 0 /\ values \in Seq({})
  BY <1>1
<1>3. values \in Seq(Range(values))
  BY <1>2, OwnRange
<1>4. TextsFound /\ ValuesParsed
  BY <1>1, <1>2, <1>3 DEF TextsFound, ValuesParsed
<1> QED
  BY <1>4, TokensInitially DEF NumbersInv

LEMMA ScanParses == NumbersInv /\ Scan => (TextsFound /\ ValuesParsed)'
<1> SUFFICES ASSUME NumbersInv, Scan
             PROVE  (TextsFound /\ ValuesParsed)'
  OBVIOUS
<1>1. /\ input \in Seq(Characters) /\ found \in Seq(Range(found)) /\ TextsFound /\ ValuesParsed
      /\ input' = input /\ values' = values /\ scan = "scanning"
  BY DEF NumbersInv, TokensInv, Scan
<1>2. Len(values) = 0 /\ scan' # "threw"
  BY <1>1 DEF ValuesParsed, Scan
<1>3. CASE found' = found
  <2>1. TextsFound'
    BY <1>1, <1>3 DEF TextsFound
  <2>2. ValuesParsed'
    BY <1>1, <1>2, <1>3 DEF ValuesParsed
  <2> QED
    BY <2>1, <2>2
<1>4. CASE found' = Append(found, Token(First(Rest)))
  <2> DEFINE tk == Token(First(Rest))
  <2>1. /\ tk.type = First(Rest) /\ tk.from = at /\ tk.size = Match(First(Rest), Rest)
        /\ tk.type \notin Quoted => tk.text = SubSeq(Rest, 1, tk.size)
    BY DEF Token, Quoted
  <2> HIDE DEF tk
  <2>2. found \in Seq(Range(found) \cup {tk}) /\ found' = Append(found, tk)
    BY <1>1, <1>4 DEF tk
  <2>3. /\ Len(found) \in Nat /\ Len(found') = Len(found) + 1 /\ found'[Len(found) + 1] = tk
        /\ \A k \in 1..Len(found) : found'[k] = found[k]
    BY <2>2
  <2>4. ASSUME NEW k \in 1..Len(found'), found'[k].type \notin Quoted
        PROVE  found'[k].text =
                 SubSeq(SubSeq(input, found'[k].from + 1, Len(input)), 1, found'[k].size)
    <3>1. k \in 1..Len(found) \/ k = Len(found) + 1
      BY <2>3
    <3>2. CASE k \in 1..Len(found)
      <4>1. found'[k] = found[k]
        BY <2>3, <3>2
      <4> QED
        BY <1>1, <2>4, <3>2, <4>1 DEF TextsFound
    <3>3. CASE k = Len(found) + 1
      BY <2>1, <2>3, <2>4, <3>3 DEF Rest
    <3> QED
      BY <3>1, <3>2, <3>3
  <2>5. TextsFound'
    BY <1>1, <2>4 DEF TextsFound
  <2>6. Len(values') = 0 /\ Len(values') <= Len(found') /\ values' \in Seq(Range(values'))
    BY <1>1, <1>2, <2>3 DEF ValuesParsed
  <2>7. ValuesParsed'
    BY <1>1, <1>2, <2>6 DEF ValuesParsed
  <2> QED
    BY <2>5, <2>7
<1> QED
  BY <1>3, <1>4 DEF Scan

LEMMA ScannedParses == NumbersInv /\ Scanned => (TextsFound /\ ValuesParsed)'
<1> SUFFICES ASSUME NumbersInv, Scanned
             PROVE  (TextsFound /\ ValuesParsed)'
  OBVIOUS
<1>1. /\ found \in Seq(Range(found)) /\ TextsFound /\ ValuesParsed /\ Len(found) \in Nat
      /\ input' = input /\ values' = values /\ scan = "scanning" /\ scan' = "lexing"
  BY DEF NumbersInv, TokensInv, Scanned
<1>2. Len(values) = 0
  BY <1>1 DEF ValuesParsed
<1>3. \E n \in Nat : /\ n <= Len(found) /\ Len(found') = n
                     /\ \A k \in 1..n : found'[k] = found[k] /\ k \in 1..Len(found)
  BY ScannedKeepsFront DEF NumbersInv
<1>4. TextsFound'
  BY <1>1, <1>3 DEF TextsFound
<1>5. Len(values') = 0 /\ Len(values') <= Len(found') /\ values' \in Seq(Range(values'))
  BY <1>1, <1>2, <1>3 DEF ValuesParsed
<1>6. ValuesParsed'
  BY <1>1, <1>5 DEF ValuesParsed
<1> QED
  BY <1>4, <1>6

LEMMA LexParses == NumbersInv /\ Lex => (TextsFound /\ ValuesParsed)'
<1> SUFFICES ASSUME NumbersInv, Lex
             PROVE  (TextsFound /\ ValuesParsed)'
  OBVIOUS
<1>1. /\ found \in Seq(Range(found)) /\ TextsFound /\ ValuesParsed
      /\ input' = input /\ found' = found /\ scan = "lexing" /\ Len(values) < Len(found)
  BY DEF NumbersInv, TokensInv, Lex
<1>2. TextsFound'
  BY <1>1 DEF TextsFound
<1>3. Len(values) \in Nat /\ Len(found) \in Nat /\ values \in Seq(Range(values))
  BY <1>1 DEF ValuesParsed
<1> DEFINE v == Parsed(found[Len(values) + 1])
<1>4. CASE v \in {Threw, Refused} /\ scan' = v.is /\ values' = values
  <2>1. Threw.is = "threw" /\ Refused.is = "error"
    BY DEF Threw, Refused
  <2>2. (scan' = "threw" => v = Threw) /\ scan' # "scanning"
    <3> HIDE DEF v
    <3>1. v = Threw \/ v = Refused
      BY <1>4
    <3> QED
      BY <1>4, <2>1, <3>1
  <2>3. ValuesParsed'
    BY <1>1, <1>4, <2>2 DEF ValuesParsed
  <2> QED
    BY <1>2, <2>3
<1>5. CASE v \notin {Threw, Refused} /\ values' = Append(values, v) /\ scan' = scan
  <2> HIDE DEF v
  <2>1. values \in Seq(Range(values) \cup {v}) /\ values' \in Seq(Range(values) \cup {v})
    BY <1>3, <1>5
  <2>2. /\ Len(values') = Len(values) + 1 /\ values'[Len(values) + 1] = v
        /\ \A k \in 1..Len(values) : values'[k] = values[k]
    BY <1>5, <2>1
  <2>3. values' \in Seq(Range(values'))
    BY <2>1, OwnRange
  <2>4. ASSUME NEW k \in 1..Len(values')
        PROVE  values'[k] = Parsed(found'[k]) /\ values'[k] \notin {Threw, Refused}
    <3>1. k \in 1..Len(values) \/ k = Len(values) + 1
      BY <1>3, <2>2
    <3>2. CASE k \in 1..Len(values)
      BY <1>1, <2>2, <3>2 DEF ValuesParsed
    <3>3. CASE k = Len(values) + 1
      BY <1>1, <1>5, <2>2, <3>3 DEF v
    <3> QED
      BY <3>1, <3>2, <3>3
  <2>5. Len(values') <= Len(found') /\ scan' # "scanning" /\ scan' # "threw"
    BY <1>1, <1>3, <1>5, <2>2
  <2>6. ValuesParsed'
    BY <2>3, <2>4, <2>5 DEF ValuesParsed
  <2> QED
    BY <1>2, <2>6
<1> QED
  BY <1>4, <1>5 DEF Lex

LEMMA NumbersStep == NumbersInv /\ [TokenizerNext]_tokenizerVars => NumbersInv'
<1> SUFFICES ASSUME NumbersInv, [TokenizerNext]_tokenizerVars
             PROVE  NumbersInv'
  OBVIOUS
<1>1. TokensInv'
  BY TokensStep DEF NumbersInv
<1>2. CASE Scan
  BY <1>1, <1>2, ScanParses DEF NumbersInv
<1>3. CASE Scanned
  BY <1>1, <1>3, ScannedParses DEF NumbersInv
<1>4. CASE Lex
  BY <1>1, <1>4, LexParses DEF NumbersInv
<1>5. CASE UNCHANGED tokenizerVars
  <2>1. TextsFound /\ ValuesParsed
    BY DEF NumbersInv
  <2>2. TextsFound' /\ ValuesParsed'
    BY <1>5, <2>1 DEF TextsFound, ValuesParsed, tokenizerVars
  <2> QED
    BY <1>1, <2>2 DEF NumbersInv
<1> QED
  BY <1>2, <1>3, <1>4, <1>5 DEF TokenizerNext

LEMMA NumberIs == \A n : Number(n) \notin {Threw, Refused} /\ Other # Threw /\ Refused # Threw
<1>1. \A n : Number(n).is = "number"
  BY DEF Number
<1>2. Threw.is = "threw" /\ Refused.is = "error" /\ Other.is = "other"
  BY DEF Threw, Refused, Other
<1> QED
  BY <1>1, <1>2

\* An integer, with its sign.
LEMMA IntParsed ==
  ASSUME NEW S, NEW s \in Seq(S), Match("INT", s) > 0
  PROVE  LET t == SubSeq(s, 1, Match("INT", s))
             v == IF t[1] = "-" THEN -DigitsSay(Tail(t), 10) ELSE DigitsSay(t, 10)
         IN ParseInt(t) = IF v \in -(MaxInt + 1)..MaxInt THEN Number(v) ELSE Threw
<1> DEFINE t == SubSeq(s, 1, Match("INT", s))
<1>1. /\ t \in Seq(S) /\ Len(t) >= 1
      /\ t[1] = "-" => Len(t) >= 2 /\ \A k \in 2..Len(t) : t[k] \in Digits
      /\ t[1] # "-" => \A k \in 1..Len(t) : t[k] \in Digits
  BY IntText
<1> HIDE DEF t
<1>2. Len(t) \in Nat
  BY <1>1
<1>3. \A c \in Digits : Ord[c] \in Nat
  BY OrdNat DEF HexDigits
<1>4. CASE t[1] = "-"
  <2> DEFINE d == Tail(t)
  <2>1. /\ Len(d) = Len(t) - 1 /\ \A k \in 1..Len(d) : d[k] = t[k + 1] /\ k + 1 \in 2..Len(t)
    <3>1. t # << >>
      BY <1>1
    <3>2. Len(d) = Len(t) - 1 /\ \A k \in 1..(Len(t) - 1) : d[k] = t[k + 1]
      BY <1>1, <3>1
    <3>3. \A k \in 1..(Len(t) - 1) : k + 1 \in 2..Len(t)
      BY <1>2
    <3> QED
      BY <3>2, <3>3
  <2> HIDE DEF d
  <2>2. Len(d) \in Nat /\ \A k \in 1..Len(d) : Ord[d[k]] \in Nat
    BY <1>1, <1>2, <1>3, <1>4, <2>1
  <2>3. DigitsSay(d, 10) = Accumulated(d, 10, Ord)
    BY <2>2, SaysAccumulated
  <2> QED
    BY <1>4, <2>3 DEF ParseInt, d, t
<1>5. CASE t[1] # "-"
  <2>1. \A k \in 1..Len(t) : Ord[t[k]] \in Nat
    BY <1>1, <1>3, <1>5
  <2>2. DigitsSay(t, 10) = Accumulated(t, 10, Ord)
    BY <1>2, <2>1, SaysAccumulated
  <2> QED
    BY <1>5, <2>2 DEF ParseInt, t
<1> QED
  BY <1>4, <1>5

\* A number with a prefix that an Int can hold.
LEMMA BinParsed ==
  ASSUME NEW S, NEW s \in Seq(S), Match("BIN", s) > 0
  PROVE  LET t == SubSeq(s, 1, Match("BIN", s))
             v == DigitsSay(SubSeq(t, 3, Len(t)), 2)
         IN v <= MaxLong => ParseBinNumber(t) = Number(v)
<1>1. PICK t : t = SubSeq(s, 1, Match("BIN", s))
  OBVIOUS
<1>2. /\ t \in Seq(S) /\ Len(t) >= 2 /\ t[1] = "0" /\ t[2] = "b"
      /\ \A k \in 3..Len(t) : t[k] \in {"0", "1"}
  <2>1. PICK C : C = {"0", "1"}
    OBVIOUS
  <2>2. Match("BIN", s) = PrefixedMatch(s, "b", C)
    BY <2>1, RegexCases
  <2>3. "b" # "end" /\ "end" \notin C
    BY <2>1
  <2>4. t \in Seq(S) /\ Len(t) >= 2 /\ t[1] = "0" /\ t[2] = "b" /\ \A k \in 3..Len(t) : t[k] \in C
    BY <1>1, <2>2, <2>3, PrefixedText
  <2> QED
    BY <2>1, <2>4
<1>3. \A k \in 3..Len(t) : Ord[t[k]] \in Nat /\ BinDigit[t[k]] = Ord[t[k]]
  BY <1>2, BinDigits
<1>4. BinDigit[t[1]] = 0 /\ BinDigit[t[2]] = 0
  BY <1>2, BinDigits
<1>5. PICK v : v = DigitsSay(SubSeq(t, 3, Len(t)), 2)
  OBVIOUS
<1>6. Accumulated(t, 2, BinDigit) = v /\ v \in Nat
  BY <1>2, <1>3, <1>4, <1>5, PrefixSilent
<1>7. v <= MaxLong => ParseBinNumber(t) = Number(v)
  BY <1>6, WrappedFits DEF ParseBinNumber
<1> QED
  BY <1>1, <1>5, <1>7

LEMMA HexParsed ==
  ASSUME NEW S, NEW s \in Seq(S), Match("HEX", s) > 0
  PROVE  LET t == SubSeq(s, 1, Match("HEX", s))
             v == DigitsSay(SubSeq(t, 3, Len(t)), 16)
         IN v <= MaxLong => ParseHexNumber(t) = Number(v)
<1>1. PICK t : t = SubSeq(s, 1, Match("HEX", s))
  OBVIOUS
<1>2. /\ t \in Seq(S) /\ Len(t) >= 2 /\ t[1] = "0" /\ t[2] = "x"
      /\ \A k \in 3..Len(t) : t[k] \in HexDigits
  <2>1. Match("HEX", s) = PrefixedMatch(s, "x", HexDigits)
    BY RegexCases
  <2>2. "x" # "end" /\ "end" \notin HexDigits
    BY NoEnd
  <2> QED
    BY <1>1, <2>1, <2>2, PrefixedText, SMTT(30)
<1>3. \A k \in 3..Len(t) : Ord[t[k]] \in Nat /\ HexDigit[t[k]] = Ord[t[k]]
  BY <1>2, OrdNat
<1>4. HexDigit[t[1]] = 0 /\ HexDigit[t[2]] = 0
  BY <1>2, BinDigits
<1>5. PICK v : v = DigitsSay(SubSeq(t, 3, Len(t)), 16)
  OBVIOUS
<1>6. Accumulated(t, 16, HexDigit) = v /\ v \in Nat
  BY <1>2, <1>3, <1>4, <1>5, PrefixSilent, SMTT(30)
<1>7. v <= MaxLong => ParseHexNumber(t) = Number(v)
  BY <1>6, WrappedFits DEF ParseHexNumber
<1> QED
  BY <1>1, <1>5, <1>7

\* What the digits of a token say, as in NumbersAsWritten.
SaysOf(tk) ==
  CASE tk.type = "INT" /\ tk.text[1] = "-" -> -DigitsSay(Tail(tk.text), 10)
    [] tk.type = "INT" /\ tk.text[1] # "-" -> DigitsSay(tk.text, 10)
    [] tk.type = "BIN" -> DigitsSay(SubSeq(tk.text, 3, Len(tk.text)), 2)
    [] tk.type = "HEX" -> DigitsSay(SubSeq(tk.text, 3, Len(tk.text)), 16)
    [] OTHER -> MaxLong + 1

ParsedRight(tk) ==
  /\ Parsed(tk) \notin {Threw, Refused} /\ SaysOf(tk) <= MaxLong
       => Parsed(tk) = Number(SaysOf(tk))
  /\ Parsed(tk) = Threw => \/ tk.type = "INT" /\ SaysOf(tk) \notin -(MaxInt + 1)..MaxInt
                           \/ tk.text = <<"-", ".">>

\* A token found is parsed to what its digits say, or makes the lexer stop.
LEMMA TokenParsed ==
  ASSUME TokensInv, TextsFound, NEW k \in 1..Len(found)
  PROVE  ParsedRight(found[k])
<1>1. PICK tk : tk = found[k]
  OBVIOUS
<1>2. PICK rest : rest = SubSeq(input, tk.from + 1, Len(input))
  OBVIOUS
<1>3. /\ input \in Seq(Characters) /\ tk.from \in Nat /\ Matching(rest) # {}
      /\ tk.type = First(rest) /\ tk.size = Match(First(rest), rest)
      /\ tk.type \notin Quoted => tk.text = SubSeq(rest, 1, tk.size)
  BY <1>1, <1>2 DEF TokensInv, FoundFirst, TextsFound
<1>4. rest \in Seq(Characters)
  BY <1>2, <1>3, SuffixOf
<1>5. Match(tk.type, rest) > 0 /\ tk.size = Match(tk.type, rest)
  BY <1>3, <1>4, FirstMatches
<1> SUFFICES ParsedRight(tk)
  BY <1>1
<1>6. CASE tk.type = "INT"
  <2>1. tk.text = SubSeq(rest, 1, Match("INT", rest)) /\ Match("INT", rest) > 0
    BY <1>3, <1>5, <1>6 DEF Quoted
  <2>2. PICK v : v = IF tk.text[1] = "-" THEN -DigitsSay(Tail(tk.text), 10)
                     ELSE DigitsSay(tk.text, 10)
    OBVIOUS
  <2>3. ParseInt(tk.text) = IF v \in -(MaxInt + 1)..MaxInt THEN Number(v) ELSE Threw
    BY <1>4, <2>1, <2>2, IntParsed
  <2>4. SaysOf(tk) = v
    BY <1>6, <2>2 DEF SaysOf
  <2>5. Parsed(tk) = ParseInt(tk.text)
    BY <1>6 DEF Parsed
  <2>6. Number(v) # Threw
    BY NumberIs
  <2> QED
    BY <1>6, <2>3, <2>4, <2>5, <2>6 DEF ParsedRight
<1>7. CASE tk.type = "BIN"
  <2>1. tk.text = SubSeq(rest, 1, Match("BIN", rest)) /\ Match("BIN", rest) > 0
    BY <1>3, <1>5, <1>7 DEF Quoted
  <2>2. PICK v : v = DigitsSay(SubSeq(tk.text, 3, Len(tk.text)), 2)
    OBVIOUS
  <2>3. v <= MaxLong => ParseBinNumber(tk.text) = Number(v)
    BY <1>4, <2>1, <2>2, BinParsed
  <2>4. SaysOf(tk) = v
    BY <1>7, <2>2 DEF SaysOf
  <2>5. Parsed(tk) = ParseBinNumber(tk.text) /\ Parsed(tk) # Threw
    BY <1>7, NumberIs DEF Parsed, ParseBinNumber
  <2> QED
    BY <2>3, <2>4, <2>5 DEF ParsedRight
<1>8. CASE tk.type = "HEX"
  <2>1. tk.text = SubSeq(rest, 1, Match("HEX", rest)) /\ Match("HEX", rest) > 0
    BY <1>3, <1>5, <1>8 DEF Quoted
  <2>2. PICK v : v = DigitsSay(SubSeq(tk.text, 3, Len(tk.text)), 16)
    OBVIOUS
  <2>3. v <= MaxLong => ParseHexNumber(tk.text) = Number(v)
    BY <1>4, <2>1, <2>2, HexParsed
  <2>4. SaysOf(tk) = v
    BY <1>8, <2>2 DEF SaysOf
  <2>5. Parsed(tk) = ParseHexNumber(tk.text) /\ Parsed(tk) # Threw
    BY <1>8, NumberIs DEF Parsed, ParseHexNumber
  <2> QED
    BY <2>3, <2>4, <2>5 DEF ParsedRight
<1>9. ASSUME tk.type \notin {"INT", "BIN", "HEX"}
      PROVE  ~(SaysOf(tk) <= MaxLong)
  <2>1. SaysOf(tk) = MaxLong + 1
    BY <1>9 DEF SaysOf
  <2> QED
    BY <2>1, TokenizerAssumption
<1>10. CASE tk.type = "FLOAT"
  <2>1. tk.text = SubSeq(rest, 1, Match("FLOAT", rest)) /\ Match("FLOAT", rest) > 0
    BY <1>3, <1>5, <1>10 DEF Quoted
  <2>2. (\E i \in DOMAIN tk.text : tk.text[i] \in Digits) \/ tk.text = <<"-", ".">>
    BY <1>4, <2>1, FloatText
  <2>3. Parsed(tk) = ParseFloat(tk.text)
    BY <1>10 DEF Parsed
  <2>4. Parsed(tk) = Threw => tk.text = <<"-", ".">>
    BY <2>2, <2>3, NumberIs DEF ParseFloat
  <2> QED
    BY <1>9, <1>10, <2>4 DEF ParsedRight
<1>11. CASE tk.type \notin {"INT", "BIN", "HEX", "FLOAT"}
  <2>1. Parsed(tk) = Other \/ Parsed(tk) = ParseFString(tk.text)
    BY <1>11 DEF Parsed
  <2>2. Parsed(tk) # Threw
    BY <2>1, NumberIs DEF ParseFString
  <2> QED
    BY <1>9, <1>11, <2>2 DEF ParsedRight
<1> QED
  BY <1>6, <1>7, <1>8, <1>10, <1>11

LEMMA NumbersWritten == NumbersInv => NumbersAsWritten
<1> SUFFICES ASSUME NumbersInv
             PROVE  NumbersAsWritten
  OBVIOUS
<1>1. /\ TokensInv /\ TextsFound /\ found \in Seq(Range(found)) /\ values \in Seq(Range(values))
      /\ Len(values) <= Len(found)
      /\ \A i \in 1..Len(values) : values[i] = Parsed(found[i]) /\ values[i] \notin {Threw, Refused}
      /\ scan = "threw" => Len(values) < Len(found) /\ Parsed(found[Len(values) + 1]) = Threw
  BY DEF NumbersInv, ValuesParsed, TokensInv
<1>2. /\ DOMAIN values = 1..Len(values) /\ Len(values) \in Nat /\ Len(found) \in Nat
      /\ \A i \in 1..Len(values) : i \in 1..Len(found)
      /\ Len(values) < Len(found) => Len(values) + 1 \in 1..Len(found)
  BY <1>1
<1>3. ASSUME NEW i \in DOMAIN values, SaysOf(found[i]) <= MaxLong
      PROVE  values[i] = Number(SaysOf(found[i]))
  BY <1>1, <1>2, <1>3, TokenParsed DEF ParsedRight
<1>4. ASSUME scan = "threw"
      PROVE  LET tk == found[Len(values) + 1]
             IN \/ tk.type = "INT" /\ SaysOf(tk) \notin -(MaxInt + 1)..MaxInt
                \/ tk.text = <<"-", ".">>
  BY <1>1, <1>2, <1>4, TokenParsed DEF ParsedRight
<1> QED
  BY <1>3, <1>4 DEF NumbersAsWritten, SaysOf

\* Whatever the line, the literals of the lexer (parseBinNumber, parseHexNumber,
\* std::stoi) are the numbers their digits say, if an Int can hold them, and the
\* lexer throws only at an integer larger than an int and at "-.".
THEOREM NumbersAlwaysAsWritten == TokenizerSpec => []NumbersAsWritten
<1>1. TokenizerInit => NumbersInv
  BY NumbersInitially
<1>2. NumbersInv /\ [TokenizerNext]_tokenizerVars => NumbersInv'
  BY NumbersStep
<1>3. NumbersInv => NumbersAsWritten
  BY NumbersWritten
<1> QED
  BY <1>1, <1>2, <1>3, PTL DEF TokenizerSpec

-----------------------------------------------------------------------------
(* The lines of tokens *)

CallTokens == {"CALL", "MODULE_CALL"}
LineTokens == Kinds \cup CallTokens \cup {"PATH", "ARROW", "ACCESS", "TYPE", "LITERAL",
                                         "KEYWORD", "VALUE", "FSTRING"}
LineRec  == [tokens : Seq(LineTokens), popped : Nat]
HeldRec  == [type : {"line", "function", "code", "signature"}, line : LineRec]
EntryRec == {e \in [type : {"line", "function", "code", "signature"}, line : LineRec,
                    inside : SUBSET HeldRec] : e.type = "line" => e.inside = {}}
OpenRec  == [keyword : OpeningWords, items : Seq(EntryRec)]
LexerRec == [tokens : Seq(Kinds), line : LineRec, blocks : Seq(EntryRec),
             stack : Seq(OpenRec), status : {"reading", "error", "behaviour"}]

Arrows(ts)   == {i \in DOMAIN ts : ts[i] = "ARROW"}
SignaturesIn(blocks) == {i \in DOMAIN blocks : blocks[i].type = "signature"}

\* What was popped of a line are signatures, of which the queue has n: as many as
\* there are arrows in it.
Popped(l, n) ==
  LET unseen == SubSeq(l.tokens, 1, l.popped)
  IN /\ l.popped <= Len(l.tokens)
     /\ l.popped > 0 =>
          /\ \E k \in 1..l.popped : Signs(SubSeq(unseen, 1, k))
          /\ IsReturnType(l.tokens[l.popped])
          /\ Cardinality(Arrows(unseen)) <= n
          /\ \A i \in 1..l.popped : l.tokens[i] \notin CallTokens

\* The lines that were made, but for the one being made.
StoredLines(p) == {e.line : e \in {d \in HeldBy(p.blocks, p.stack) : d.type = "line"}}

\* A struct is open only within all other blocks, and has lines only.
Structs(stack) ==
  \A i \in DOMAIN stack :
    stack[i].keyword = "struct" => /\ i = Len(stack)
                                   /\ \A e \in Held(stack[i].items) : e.type = "line"

WellMade(p) ==
  /\ p \in LexerRec
  /\ \A l \in StoredLines(p) \cup {p.line} : Popped(l, Cardinality(SignaturesIn(p.blocks)))
  /\ Structs(p.stack)

HasCall(l) == \E i \in DOMAIN l.tokens : l.tokens[i] \in CallTokens
OneCall(l) == \E i \in DOMAIN l.tokens : \A j \in DOMAIN l.tokens : l.tokens[j] \in CallTokens <=> j = i
Uncalled(p) == \A l \in StoredLines(p) \cup {p.line} : ~ HasCall(l)

\* One call was made: on the line being made, on one that was, or on one that a
\* function was made from.
Called(p) ==
  \/ OneCall(p.line) /\ \A l \in StoredLines(p) : ~ HasCall(l)
  \/ /\ ~ HasCall(p.line)
     /\ \E m \in StoredLines(p) : OneCall(m) /\ \A l \in StoredLines(p) \ {m} : ~ HasCall(l)
  \/ Uncalled(p) /\ \E e \in HeldBy(p.blocks, p.stack) : e.type = "function"

NoColon(ts)  == \A i \in DOMAIN ts : ts[i] # "colon"
OneColon(ts) == \E i \in DOMAIN ts : \A j \in DOMAIN ts : ts[j] = "colon" <=> j = i

\* The tokens of one line are signs of definitions only where the other has them...
Keeps(p, q) ==
  /\ WellMade(q)
  /\ NoColon(p.tokens) => NoColon(q.tokens)
  /\ OneColon(p.tokens) => OneColon(q.tokens)
  /\ Uncalled(p) => Uncalled(q)
  /\ Called(p) => Called(q)

\* While it reads: the lines are well made, and they have the call if the colon was
\* read.
LexerInv ==
  /\ outcome = "reading" =>
       /\ WellMade(Lexer)
       /\ OneColon(written) => \/ OneColon(tokens) /\ Uncalled(Lexer)
                               \/ NoColon(tokens) /\ Called(Lexer)
  /\ outcome = "done" =>
       \A l \in LinesOf(codeBlocks) : l \in LineRec /\ Popped(l, Cardinality(SignaturesIn(codeBlocks)))
  /\ written \in Programs

-----------------------------------------------------------------------------
(* The tokens read *)

LEMMA ColonsLeft ==
  ASSUME NEW ts \in Seq(Kinds), NEW n \in 0..Len(ts), \A i \in 1..n : ts[i] # "colon"
  PROVE  LET rest == SubSeq(ts, n + 1, Len(ts))
         IN /\ rest \in Seq(Kinds)
            /\ NoColon(ts) => NoColon(rest)
            /\ OneColon(ts) => OneColon(rest)
<1> DEFINE rest == SubSeq(ts, n + 1, Len(ts))
<1>1. /\ rest \in Seq(Kinds) /\ DOMAIN rest = 1..Len(ts) - n
      /\ \A i \in 1..Len(ts) - n : rest[i] = ts[n + i]
      /\ DOMAIN ts = 1..Len(ts) /\ Len(ts) \in Nat /\ n \in Nat /\ n <= Len(ts)
  BY LeftBehind
<1> HIDE DEF rest
<1>4. \A i \in 1..Len(ts) - n : n + i \in 1..Len(ts)
  BY <1>1
<1>2. ASSUME NoColon(ts) PROVE NoColon(rest)
  BY <1>1, <1>2, <1>4 DEF NoColon
<1>3. ASSUME OneColon(ts) PROVE OneColon(rest)
  <2>1. PICK i \in DOMAIN ts : \A j \in DOMAIN ts : ts[j] = "colon" <=> j = i
    BY <1>3 DEF OneColon
  <2>2. i \in 1..Len(ts) /\ i > n /\ i - n \in DOMAIN rest
    BY <1>1, <2>1
  <2>3. ASSUME NEW j \in DOMAIN rest PROVE rest[j] = "colon" <=> j = i - n
    <3>1. j \in 1..Len(ts) - n /\ n + j \in DOMAIN ts /\ rest[j] = ts[n + j]
      BY <1>1
    <3>2. ts[n + j] = "colon" <=> n + j = i
      BY <2>1, <3>1
    <3> QED
      BY <1>1, <2>2, <3>1, <3>2
  <2> QED
    BY <2>2, <2>3 DEF OneColon
<1> QED
  BY <1>1, <1>2, <1>3 DEF rest

LEMMA ColonRead ==
  ASSUME NEW ts \in Seq(Kinds), ts # <<>>, ts[1] = "colon", OneColon(ts)
  PROVE  NoColon(SubSeq(ts, 2, Len(ts)))
<1> DEFINE rest == SubSeq(ts, 1 + 1, Len(ts))
<1>1. Len(ts) \in Nat /\ Len(ts) >= 1 /\ DOMAIN ts = 1..Len(ts)
  BY EmptySeq
<1>2. DOMAIN rest = 1..Len(ts) - 1 /\ \A i \in 1..Len(ts) - 1 : rest[i] = ts[1 + i]
  BY <1>1, LeftBehind
<1>3. \A j \in 1..Len(ts) : ts[j] = "colon" => j = 1
  BY <1>1 DEF OneColon
<1>4. SubSeq(ts, 2, Len(ts)) = rest
  OBVIOUS
<1> HIDE DEF rest
<1> QED
  BY <1>1, <1>2, <1>3, <1>4 DEF NoColon

\* Every round of the loops of parsePath and parseStructAccess reads two tokens that
\* are there.
LEMMA PairsRead ==
  ASSUME NEW p \in LexerRec, NEW sep \in {"dot", "arrow"}
  PROVE  /\ Pairs(p, sep) \in Nat /\ 2 * Pairs(p, sep) \in 0..Len(p.tokens)
         /\ \A i \in 1..2 * Pairs(p, sep) : p.tokens[i] # "colon"
         /\ \A i \in 1..Pairs(p, sep) : Ahead(p, 2 * i - 1) = sep /\ IsLiteral(Ahead(p, 2 * i))
         /\ ~(Ahead(p, 2 * Pairs(p, sep) + 1) = sep /\ IsLiteral(Ahead(p, 2 * Pairs(p, sep) + 2)))
<1> DEFINE len == Len(p.tokens)
           Pair(i) == Ahead(p, 2 * i - 1) = sep /\ IsLiteral(Ahead(p, 2 * i))
           More(n) == Ahead(p, 2 * n + 1) = sep /\ IsLiteral(Ahead(p, 2 * n + 2))
           Ends(n) == (\A i \in 1..n : Pair(i)) /\ ~ More(n)
           T == {n \in 0..len : ~ More(n)}
<1>1. p.tokens \in Seq(Kinds) /\ len \in Nat /\ DOMAIN p.tokens = 1..len
  BY DEF LexerRec
<1>2. \A i \in Int : Ahead(p, i) # "nothing" => i \in 1..len /\ Ahead(p, i) = p.tokens[i]
  BY <1>1 DEF Ahead
<1>3. ~ IsLiteral("nothing") /\ ~ IsLiteral("colon") /\ sep # "nothing" /\ sep # "colon"
  BY DEF IsLiteral, Keywords, OpeningWords, Closers, CloserOf
<1>4. len \in T
  <2>1. 2 * len + 2 \in Int /\ 2 * len + 2 \notin 1..len
    BY <1>1
  <2>2. Ahead(p, 2 * len + 2) = "nothing"
    BY <1>2, <2>1
  <2> QED
    BY <1>1, <1>3, <2>2
<1>5. PICK n \in T : \A m \in T : n <= m
  BY <1>1, <1>4, LeastBelow
<1>6. n \in 0..len /\ Ends(n)
  <2>1. ASSUME NEW i \in 1..n PROVE Pair(i)
    <3>1. i - 1 \in 0..len /\ i - 1 \notin T
      BY <1>1, <1>5, <2>1
    <3>2. More(i - 1) /\ 2 * (i - 1) + 1 = 2 * i - 1 /\ 2 * (i - 1) + 2 = 2 * i
      BY <3>1
    <3> QED
      BY <3>2
  <2> QED
    BY <1>5, <2>1
<1>7. Pairs(p, sep) = CHOOSE k \in 0..len : Ends(k)
  BY DEF Pairs
<1>8. PICK k \in 0..len : k = Pairs(p, sep) /\ Ends(k)
  <2> HIDE DEF Ends
  <2> QED
    BY <1>6, <1>7
<1>9. ASSUME NEW i \in 1..k
      PROVE  /\ 2 * i - 1 \in 1..len /\ p.tokens[2 * i - 1] # "colon"
             /\ 2 * i \in 1..len /\ p.tokens[2 * i] # "colon"
  <2>1. Pair(i)
    BY <1>8, <1>9
  <2>2. Ahead(p, 2 * i - 1) # "nothing" /\ Ahead(p, 2 * i) # "nothing"
    BY <1>3, <2>1
  <2>3. 2 * i - 1 \in Int /\ 2 * i \in Int
    OBVIOUS
  <2> QED
    BY <1>2, <1>3, <2>1, <2>2, <2>3
<1>10. 2 * k \in 0..len
  <2>1. CASE k = 0
    BY <1>1, <2>1
  <2>2. CASE k # 0
    <3>1. k \in 1..k
      BY <2>2
    <3> QED
      BY <1>9, <3>1
  <2> QED
    BY <2>1, <2>2
<1>11. ASSUME NEW i \in 1..2 * k PROVE p.tokens[i] # "colon"
  <2>1. \E j \in 1..k : i = 2 * j - 1 \/ i = 2 * j
    <3>1. CASE i % 2 = 0
      <4>1. i \div 2 \in 1..k /\ i = 2 * (i \div 2)
        BY <3>1
      <4> QED
        BY <4>1
    <3>2. CASE i % 2 = 1
      <4>1. (i + 1) \div 2 \in 1..k /\ i = 2 * ((i + 1) \div 2) - 1
        BY <3>2
      <4> QED
        BY <4>1
    <3> QED
      BY <3>1, <3>2
  <2> QED
    BY <1>9, <2>1
<1> QED
  BY <1>8, <1>10, <1>11

-----------------------------------------------------------------------------
(* Steps of the lexer on its record *)

LEMMA KeepsSame == ASSUME NEW p, WellMade(p) PROVE Keeps(p, p)
  BY DEF Keeps

LEMMA KeepsBoth ==
  ASSUME NEW p, NEW q, NEW r, Keeps(p, q), Keeps(q, r) PROVE Keeps(p, r)
  BY DEF Keeps

LEMMA ReadKeeps ==
  ASSUME NEW p, WellMade(p), NEW n \in 0..Len(p.tokens), \A i \in 1..n : p.tokens[i] # "colon"
  PROVE  Keeps(p, Read(p, n)) /\ Read(p, n).status = p.status
<1> DEFINE q == Read(p, n)
<1>1. p \in LexerRec /\ p.tokens \in Seq(Kinds)
  BY DEF WellMade, LexerRec
<1>2. /\ q.tokens = SubSeq(p.tokens, n + 1, Len(p.tokens)) /\ q.line = p.line
      /\ q.blocks = p.blocks /\ q.stack = p.stack /\ q.status = p.status
  BY <1>1 DEF Read, LexerRec
<1>3. q.tokens \in Seq(Kinds)
  BY <1>1, <1>2, ColonsLeft
<1>4. q \in LexerRec
  BY <1>1, <1>3 DEF Read, LexerRec
<1>5. StoredLines(q) = StoredLines(p)
  BY <1>2 DEF StoredLines
<1> HIDE DEF q
<1>6. WellMade(q)
  BY <1>2, <1>4, <1>5 DEF WellMade
<1>7. (Uncalled(p) => Uncalled(q)) /\ (Called(p) => Called(q))
  BY <1>2, <1>5 DEF Uncalled, Called
<1>8. (NoColon(p.tokens) => NoColon(q.tokens)) /\ (OneColon(p.tokens) => OneColon(q.tokens))
  BY <1>1, <1>2, ColonsLeft
<1> QED
  BY <1>2, <1>6, <1>7, <1>8 DEF Keeps, q

\* A step that leaves the tokens and the lines that were made.
LEMMA SameLinesKeep ==
  ASSUME NEW p, WellMade(p), NEW q \in LexerRec, q.tokens = p.tokens,
         StoredLines(q) = StoredLines(p), Structs(q.stack),
         HeldBy(p.blocks, p.stack) \subseteq HeldBy(q.blocks, q.stack),
         Cardinality(SignaturesIn(p.blocks)) <= Cardinality(SignaturesIn(q.blocks)),
         Popped(q.line, Cardinality(SignaturesIn(q.blocks))),
         \A l \in StoredLines(p) : Popped(l, Cardinality(SignaturesIn(q.blocks))),
         HasCall(q.line) <=> HasCall(p.line), OneCall(q.line) <=> OneCall(p.line)
  PROVE  Keeps(p, q)
<1>1. WellMade(q)
  BY DEF WellMade
<1>2. (Uncalled(p) => Uncalled(q)) /\ (Called(p) => Called(q))
  BY DEF Uncalled, Called
<1> QED
  BY <1>1, <1>2 DEF Keeps

\* What was popped of a line stays what it was when a token is added.
LEMMA PoppedLonger ==
  ASSUME NEW l \in LineRec, NEW t \in LineTokens, NEW n, Popped(l, n)
  PROVE  LET m == [tokens |-> Append(l.tokens, t), popped |-> l.popped]
         IN m \in LineRec /\ Popped(m, n)
<1> DEFINE m == [tokens |-> Append(l.tokens, t), popped |-> l.popped]
<1>1. /\ l.tokens \in Seq(LineTokens) /\ l.popped \in Nat /\ Len(l.tokens) \in Nat
      /\ l.popped <= Len(l.tokens)
  BY DEF LineRec, Popped
<1>2. /\ Append(l.tokens, t) \in Seq(LineTokens)
      /\ Len(Append(l.tokens, t)) = Len(l.tokens) + 1
      /\ \A i \in 1..Len(l.tokens) : Append(l.tokens, t)[i] = l.tokens[i]
  BY <1>1, Appended
<1>3. SubSeq(m.tokens, 1, l.popped) = SubSeq(l.tokens, 1, l.popped)
  BY <1>1, <1>2, SubSeqProperties
<1>4. l.popped > 0 => l.tokens[l.popped] = m.tokens[l.popped]
  BY <1>1, <1>2
<1>5. m \in LineRec /\ m.popped = l.popped
  BY <1>1, <1>2 DEF LineRec
<1>6. \A i \in 1..l.popped : m.tokens[i] = l.tokens[i]
  BY <1>1, <1>2
<1>7. l.popped <= Len(m.tokens)
  BY <1>1, <1>2
<1> HIDE DEF m
<1> QED
  BY <1>3, <1>4, <1>5, <1>6, <1>7 DEF Popped, m

LEMMA Counted ==
  ASSUME NEW bs \in Seq(EntryRec)
  PROVE  IsFiniteSet(SignaturesIn(bs)) /\ Cardinality(SignaturesIn(bs)) \in Nat
<1>1. IsFiniteSet(1..Len(bs))
  BY FS_Interval, LenProperties
<1>2. SignaturesIn(bs) \in SUBSET (1..Len(bs))
  BY LenProperties DEF SignaturesIn
<1>3. IsFiniteSet(SignaturesIn(bs))
  BY <1>1, <1>2, FS_Subset
<1> QED
  BY <1>3, FS_CardinalityType

LEMMA PushTokenKeeps ==
  ASSUME NEW p, WellMade(p), NEW t \in LineTokens \ CallTokens
  PROVE  /\ Keeps(p, PushToken(p, t)) /\ PushToken(p, t).status = p.status
         /\ PushToken(p, t).tokens = p.tokens
<1> DEFINE q == PushToken(p, t)  m == [tokens |-> Append(p.line.tokens, t), popped |-> p.line.popped]
<1>1. p \in LexerRec /\ p.line \in LineRec /\ Popped(p.line, Cardinality(SignaturesIn(p.blocks)))
  BY DEF WellMade, LexerRec
<1>2. /\ q.line = m /\ q.tokens = p.tokens
      /\ q.blocks = p.blocks /\ q.stack = p.stack /\ q.status = p.status
  BY <1>1 DEF PushToken, LexerRec, LineRec
<1>3. m \in LineRec /\ Popped(m, Cardinality(SignaturesIn(p.blocks)))
  BY <1>1, PoppedLonger
<1>4. q \in LexerRec
  BY <1>1, <1>2, <1>3 DEF PushToken, LexerRec
<1>5. p.line.tokens \in Seq(LineTokens)
  BY <1>1 DEF LineRec
<1>6. /\ DOMAIN p.line.tokens = 1..Len(p.line.tokens) /\ Len(p.line.tokens) \in Nat
      /\ DOMAIN m.tokens = 1..Len(p.line.tokens) + 1
      /\ \A i \in 1..Len(p.line.tokens) : m.tokens[i] = p.line.tokens[i]
      /\ m.tokens[Len(p.line.tokens) + 1] = t
  BY <1>5, Appended
<1> HIDE DEF m, q
<1>7. HasCall(m) <=> HasCall(p.line)
  BY <1>6, SMTT(30) DEF HasCall
<1>8. OneCall(m) <=> OneCall(p.line)
  <2>1. ASSUME NEW j \in DOMAIN m.tokens
        PROVE  m.tokens[j] \in CallTokens <=> j \in DOMAIN p.line.tokens /\ p.line.tokens[j] \in CallTokens
    BY <1>6
  <2>2. \A j \in DOMAIN p.line.tokens : j \in DOMAIN m.tokens
    BY <1>6
  <2> QED
    BY <2>1, <2>2 DEF OneCall
<1>9. /\ HeldBy(q.blocks, q.stack) = HeldBy(p.blocks, p.stack)
      /\ Cardinality(SignaturesIn(p.blocks)) <= Cardinality(SignaturesIn(q.blocks))
      /\ \A l \in StoredLines(p) : Popped(l, Cardinality(SignaturesIn(q.blocks)))
      /\ Popped(q.line, Cardinality(SignaturesIn(q.blocks))) /\ Structs(q.stack)
  <2>1. Cardinality(SignaturesIn(p.blocks)) \in Nat
    BY <1>1, Counted DEF LexerRec
  <2> QED
    BY <1>2, <1>3, <2>1 DEF WellMade
<1>10. q.tokens = p.tokens /\ (HasCall(q.line) <=> HasCall(p.line)) /\ (OneCall(q.line) <=> OneCall(p.line))
  BY <1>2, <1>7, <1>8
<1>11. StoredLines(q) = StoredLines(p)
  BY <1>9 DEF StoredLines
<1> QED
  BY <1>2, <1>4, <1>9, <1>10, <1>11, SameLinesKeep DEF q

-----------------------------------------------------------------------------
(* What the queues hold *)

Here(x) == {[type |-> x.type, line |-> x.line]} \cup x.inside

LEMMA HeldAppend ==
  ASSUME NEW q \in Seq(EntryRec), NEW x \in EntryRec
  PROVE  Held(Append(q, x)) = Held(q) \cup Here(x)
<1> DEFINE r == Append(q, x)  n == Len(q)
<1>1. /\ n \in Nat /\ DOMAIN q = 1..n /\ DOMAIN r = 1..n + 1 /\ r[n + 1] = x
      /\ \A i \in 1..n : r[i] = q[i]
  BY Appended
<1>2. DOMAIN r = DOMAIN q \cup {n + 1} /\ \A i \in DOMAIN q : r[i] = q[i]
  BY <1>1
<1>3. r[n + 1] = x
  BY <1>1
<1> HIDE DEF r, n
<1>4. Held(r) = Held(q) \cup Here(x)
  BY <1>2, <1>3 DEF Held, Here
<1> QED
  BY <1>4 DEF r

LEMMA HeldFront ==
  ASSUME NEW q \in Seq(EntryRec), q # <<>>
  PROVE  Held(q) = Held(Front(q)) \cup Here(Last(q))
<1>1. Front(q) \in Seq(EntryRec) /\ Last(q) \in EntryRec /\ q = Append(Front(q), Last(q))
  BY FrontLast
<1>2. Held(Append(Front(q), Last(q))) = Held(Front(q)) \cup Here(Last(q))
  BY <1>1, HeldAppend
<1> QED
  BY <1>1, <1>2

LEMMA StackPushed ==
  ASSUME NEW b, NEW st \in Seq(OpenRec), NEW o \in OpenRec
  PROVE  HeldBy(b, Append(st, o)) = HeldBy(b, st) \cup Held(o.items)
<1> DEFINE r == Append(st, o)  n == Len(st)
<1>1. /\ n \in Nat /\ DOMAIN st = 1..n /\ DOMAIN r = 1..n + 1 /\ r[n + 1] = o
      /\ \A i \in 1..n : r[i] = st[i]
  BY Appended
<1>2. DOMAIN r = DOMAIN st \cup {n + 1} /\ \A i \in DOMAIN st : r[i] = st[i]
  BY <1>1
<1>3. r[n + 1] = o
  BY <1>1
<1> HIDE DEF r, n
<1>4. HeldBy(b, r) = HeldBy(b, st) \cup Held(o.items)
  BY <1>2, <1>3 DEF HeldBy
<1> QED
  BY <1>4 DEF r

LEMMA StackFront ==
  ASSUME NEW b, NEW st \in Seq(OpenRec), st # <<>>
  PROVE  HeldBy(b, st) = HeldBy(b, Front(st)) \cup Held(Last(st).items)
<1>1. Front(st) \in Seq(OpenRec) /\ Last(st) \in OpenRec /\ st = Append(Front(st), Last(st))
  BY FrontLast
<1>2. HeldBy(b, Append(Front(st), Last(st))) = HeldBy(b, Front(st)) \cup Held(Last(st).items)
  BY <1>1, StackPushed
<1> QED
  BY <1>1, <1>2

\* Only what is in the queue of the program counts as a signature.
LEMMA SignaturesAppend ==
  ASSUME NEW q \in Seq(EntryRec), NEW x \in EntryRec
  PROVE  SignaturesIn(Append(q, x)) =
           IF x.type = "signature" THEN SignaturesIn(q) \cup {Len(q) + 1} ELSE SignaturesIn(q)
<1> DEFINE r == Append(q, x)  n == Len(q)
<1>1. /\ n \in Nat /\ DOMAIN q = 1..n /\ DOMAIN r = 1..n + 1 /\ r[n + 1] = x
      /\ \A i \in 1..n : r[i] = q[i]
  BY Appended
<1>2. DOMAIN r = DOMAIN q \cup {n + 1} /\ (\A i \in DOMAIN q : r[i] = q[i]) /\ r[n + 1] = x
      /\ n + 1 \notin DOMAIN q
  BY <1>1
<1> HIDE DEF r, n
<1>3. SignaturesIn(r) = IF x.type = "signature" THEN SignaturesIn(q) \cup {n + 1} ELSE SignaturesIn(q)
  BY <1>2 DEF SignaturesIn
<1> QED
  BY <1>3 DEF r, n

LEMMA SignaturesFront ==
  ASSUME NEW q \in Seq(EntryRec), q # <<>>, Last(q).type # "signature"
  PROVE  SignaturesIn(Front(q)) = SignaturesIn(q)
<1>1. Front(q) \in Seq(EntryRec) /\ Last(q) \in EntryRec /\ q = Append(Front(q), Last(q))
  BY FrontLast
<1>2. SignaturesIn(Append(Front(q), Last(q))) = SignaturesIn(Front(q))
  BY <1>1, SignaturesAppend
<1> QED
  BY <1>1, <1>2

LEMMA EnqueueHolds ==
  ASSUME NEW p \in LexerRec, NEW x \in EntryRec, x.type # "signature", Structs(p.stack),
         p.stack # <<>> /\ Last(p.stack).keyword = "struct" => \A e \in Here(x) : e.type = "line"
  PROVE  LET q == Enqueue(p, x)
         IN /\ q \in LexerRec /\ Structs(q.stack)
            /\ HeldBy(q.blocks, q.stack) = HeldBy(p.blocks, p.stack) \cup Here(x)
            /\ SignaturesIn(q.blocks) = SignaturesIn(p.blocks)
            /\ q.tokens = p.tokens /\ q.line = p.line /\ q.status = p.status
<1> DEFINE q == Enqueue(p, x)
<1>1. p.blocks \in Seq(EntryRec) /\ p.stack \in Seq(OpenRec)
  BY DEF LexerRec
<1>2. CASE p.stack = <<>>
  <2>1. q = [p EXCEPT !.blocks = Append(@, x)]
    BY <1>2 DEF Enqueue
  <2>2. /\ q.blocks = Append(p.blocks, x) /\ q.stack = p.stack
        /\ q.tokens = p.tokens /\ q.line = p.line /\ q.status = p.status
    BY <2>1 DEF LexerRec
  <2>3. Append(p.blocks, x) \in Seq(EntryRec)
    BY <1>1, Appended
  <2>4. q \in LexerRec
    BY <2>1, <2>3 DEF LexerRec
  <2> HIDE DEF q
  <2>5. HeldBy(q.blocks, q.stack) = HeldBy(p.blocks, p.stack) \cup Here(x)
    BY <1>1, <2>2, HeldAppend DEF HeldBy
  <2>6. SignaturesIn(q.blocks) = SignaturesIn(p.blocks)
    BY <1>1, <2>2, SignaturesAppend
  <2> QED
    BY <2>2, <2>4, <2>5, <2>6 DEF q
<1>3. CASE p.stack # <<>>
  <2> DEFINE n == Len(p.stack)  old == p.stack[n]
             o == [keyword |-> old.keyword, items |-> Append(old.items, x)]
             s == [p.stack EXCEPT ![n] = o]
  <2>1. n \in Nat /\ n >= 1 /\ DOMAIN p.stack = 1..n /\ Last(p.stack) = old /\ old \in OpenRec
    <3>1. n \in Nat /\ n >= 1 /\ DOMAIN p.stack = 1..n /\ Last(p.stack) = old
      BY <1>1, <1>3, Shortened, LenProperties
    <3> QED
      BY <1>1, <3>1
  <2>2. old.items \in Seq(EntryRec) /\ o \in OpenRec
    BY <2>1, Appended DEF OpenRec
  <2>3. q = [p EXCEPT !.stack = s]
    <3>1. [old EXCEPT !.items = Append(@, x)] = o
      BY <2>1 DEF OpenRec
    <3>2. q = [p EXCEPT !.stack = [p.stack EXCEPT ![n] = [old EXCEPT !.items = Append(@, x)]]]
      BY <1>3 DEF Enqueue, LexerRec
    <3> QED
      BY <3>1, <3>2
  <2>4. s \in Seq(OpenRec) /\ DOMAIN s = 1..n /\ Len(s) = n
        /\ s[n] = o /\ \A i \in 1..n : i # n => s[i] = p.stack[i]
    BY <1>1, <2>1, <2>2, ExceptSeq
  <2>5. /\ q.blocks = p.blocks /\ q.stack = s
        /\ q.tokens = p.tokens /\ q.line = p.line /\ q.status = p.status
    BY <2>3 DEF LexerRec
  <2>6. q \in LexerRec
    BY <2>3, <2>4 DEF LexerRec
  <2>7. o.keyword = old.keyword /\ Held(o.items) = Held(old.items) \cup Here(x)
    BY <2>2, HeldAppend
  <2> HIDE DEF q, s, o, old, n
  <2>8. HeldBy(p.blocks, s) = HeldBy(p.blocks, p.stack) \cup Here(x)
    <3>1. \A i \in 1..n : Held(s[i].items) = IF i = n THEN Held(p.stack[i].items) \cup Here(x)
                                             ELSE Held(p.stack[i].items)
      BY <2>4, <2>7 DEF old
    <3>2. n \in 1..n
      BY <2>1
    <3>3. \A e : (\E i \in 1..n : e \in Held(s[i].items))
                 <=> (\E i \in 1..n : e \in Held(p.stack[i].items)) \/ e \in Here(x)
      BY <3>1, <3>2
    <3>4. \A e : e \in HeldBy(p.blocks, s) <=>
                 e \in Held(p.blocks) \/ \E i \in 1..n : e \in Held(s[i].items)
      BY <2>4 DEF HeldBy
    <3>5. \A e : e \in HeldBy(p.blocks, p.stack) <=>
                 e \in Held(p.blocks) \/ \E i \in 1..n : e \in Held(p.stack[i].items)
      BY <2>1 DEF HeldBy
    <3> QED
      BY <3>3, <3>4, <3>5
  <2>9. Structs(s)
    <3>1. ASSUME NEW i \in 1..n, s[i].keyword = "struct"
          PROVE  i = n /\ \A e \in Held(s[i].items) : e.type = "line"
      <4>1. p.stack[i].keyword = "struct"
        BY <2>4, <2>7, <3>1 DEF old
      <4>2. i = n /\ \A e \in Held(p.stack[i].items) : e.type = "line"
        BY <2>1, <4>1 DEF Structs, n
      <4>3. \A e \in Here(x) : e.type = "line"
        BY <1>3, <2>1, <4>1, <4>2 DEF old
      <4> QED
        BY <2>4, <2>7, <4>2, <4>3 DEF old
    <3> QED
      BY <2>4, <3>1 DEF Structs
  <2> QED
    BY <2>5, <2>6, <2>8, <2>9 DEF q
<1> QED
  BY <1>2, <1>3

LEMMA NewLineFacts ==
  /\ NewLine \in LineRec /\ ~ HasCall(NewLine) /\ ~ OneCall(NewLine)
  /\ \A n \in Nat : Popped(NewLine, n)
<1>1. NewLine \in LineRec /\ NewLine.tokens = <<>> /\ NewLine.popped = 0
  BY DEF NewLine, LineRec
<1>2. ~ HasCall(NewLine) /\ ~ OneCall(NewLine)
  BY <1>1 DEF HasCall, OneCall
<1>3. \A n \in Nat : Popped(NewLine, n)
  BY <1>1, EmptySeq DEF Popped
<1> QED
  BY <1>1, <1>2, <1>3

LEMMA OneIsSome == ASSUME NEW l, OneCall(l) PROVE HasCall(l)
  BY DEF OneCall, HasCall

LEMMA FinishLineKeeps ==
  ASSUME NEW p, WellMade(p)
  PROVE  Keeps(p, FinishLine(p)) /\ FinishLine(p).status = p.status
<1>1. CASE Empty(p.line)
  BY <1>1, KeepsSame DEF FinishLine
<1>2. CASE ~ Empty(p.line)
  <2> DEFINE x == Entry("line", p.line, {})  e == Enqueue(p, x)  q == FinishLine(p)
  <2>1. p \in LexerRec /\ Structs(p.stack) /\ x \in EntryRec /\ x.type = "line"
        /\ Here(x) = {[type |-> "line", line |-> p.line]}
    BY DEF WellMade, LexerRec, EntryRec, Entry, Here
  <2>2. /\ e \in LexerRec /\ Structs(e.stack)
        /\ HeldBy(e.blocks, e.stack) = HeldBy(p.blocks, p.stack) \cup Here(x)
        /\ SignaturesIn(e.blocks) = SignaturesIn(p.blocks)
        /\ e.tokens = p.tokens /\ e.line = p.line /\ e.status = p.status
    <3>1. \A d \in Here(x) : d.type = "line"
      BY <2>1
    <3> HIDE DEF x
    <3> QED
      BY <2>1, <3>1, EnqueueHolds
  <2>3. q = [e EXCEPT !.line = NewLine]
    BY <1>2 DEF FinishLine
  <2> HIDE DEF e
  <2>4. /\ q \in LexerRec /\ q.line = NewLine /\ q.blocks = e.blocks /\ q.stack = e.stack
        /\ q.tokens = p.tokens /\ q.status = p.status
    BY <2>2, <2>3, NewLineFacts DEF LexerRec
  <2> HIDE DEF q, x
  <2>5. StoredLines(q) = StoredLines(p) \cup {p.line}
    <3> DEFINE d == [type |-> "line", line |-> p.line]
    <3>1. d.type = "line" /\ d.line = p.line
      OBVIOUS
    <3> HIDE DEF d
    <3>2. HeldBy(q.blocks, q.stack) = HeldBy(p.blocks, p.stack) \cup {d}
      BY <2>1, <2>2, <2>4 DEF d
    <3> QED
      BY <3>1, <3>2 DEF StoredLines
  <2>6. Cardinality(SignaturesIn(p.blocks)) \in Nat
    BY <2>1, Counted DEF LexerRec
  <2>7. WellMade(q)
    BY <2>2, <2>4, <2>5, <2>6, NewLineFacts DEF WellMade
  <2>8. Uncalled(p) => Uncalled(q)
    BY <2>4, <2>5, NewLineFacts DEF Uncalled
  <2>9. ASSUME Called(p) PROVE Called(q)
    <3>1. CASE OneCall(p.line) /\ \A l \in StoredLines(p) : ~ HasCall(l)
      BY <2>4, <2>5, <3>1, NewLineFacts DEF Called
    <3>2. CASE /\ ~ HasCall(p.line)
               /\ \E m \in StoredLines(p) : OneCall(m) /\ \A l \in StoredLines(p) \ {m} : ~ HasCall(l)
      BY <2>4, <2>5, <3>2, NewLineFacts DEF Called
    <3>3. CASE Uncalled(p) /\ \E d \in HeldBy(p.blocks, p.stack) : d.type = "function"
      BY <2>2, <2>4, <2>8, <3>3 DEF Called
    <3> QED
      BY <2>9, <3>1, <3>2, <3>3 DEF Called
  <2>10. Keeps(p, q)
    BY <2>4, <2>7, <2>8, <2>9 DEF Keeps
  <2> QED
    BY <2>4, <2>10 DEF q
<1> QED
  BY <1>1, <1>2

\* Lines may be taken from the queues when none had a call, or when they made a
\* function.
LEMMA TakenKeeps ==
  ASSUME NEW p, WellMade(p), NEW q \in LexerRec, q.tokens = p.tokens, q.line = p.line,
         Structs(q.stack), SignaturesIn(q.blocks) = SignaturesIn(p.blocks),
         StoredLines(q) \subseteq StoredLines(p),
         (\E d \in HeldBy(p.blocks, p.stack) : d.type = "function")
           => \E d \in HeldBy(q.blocks, q.stack) : d.type = "function",
         \/ \A l \in StoredLines(p) \ StoredLines(q) : ~ HasCall(l)
         \/ \E d \in HeldBy(q.blocks, q.stack) : d.type = "function"
  PROVE  Keeps(p, q)
<1>1. WellMade(q) /\ (Uncalled(p) => Uncalled(q))
  BY DEF WellMade, Uncalled
<1>2. ASSUME Called(p) PROVE Called(q)
  <2>1. CASE OneCall(p.line) /\ \A l \in StoredLines(p) : ~ HasCall(l)
    BY <2>1 DEF Called
  <2>2. CASE /\ ~ HasCall(p.line)
             /\ \E m \in StoredLines(p) : OneCall(m) /\ \A l \in StoredLines(p) \ {m} : ~ HasCall(l)
    BY <2>2, OneIsSome DEF Called, Uncalled
  <2>3. CASE Uncalled(p) /\ \E d \in HeldBy(p.blocks, p.stack) : d.type = "function"
    BY <1>1, <2>3 DEF Called
  <2> QED
    BY <1>2, <2>1, <2>2, <2>3 DEF Called
<1> QED
  BY <1>1, <1>2 DEF Keeps

\* A line has its calls among the tokens that were not popped.
LEMMA CallsLeft ==
  ASSUME NEW l \in LineRec, NEW n, Popped(l, n),
         \A i \in DOMAIN Left(l) : Left(l)[i] \notin CallTokens
  PROVE  ~ HasCall(l)
<1>1. /\ l.tokens \in Seq(LineTokens) /\ l.popped \in Nat /\ l.popped <= Len(l.tokens)
      /\ \A i \in 1..l.popped : l.tokens[i] \notin CallTokens
  BY DEF LineRec, Popped
<1>2. /\ Left(l) \in Seq(LineTokens) /\ Len(Left(l)) = Len(l.tokens) - l.popped
      /\ \A i \in 1..Len(l.tokens) - l.popped : Left(l)[i] = l.tokens[l.popped + i]
  <2>1. l.popped \in 0..Len(l.tokens)
    BY <1>1
  <2> QED
    BY <1>1, <2>1, LeftBehind DEF Left
<1>3. ASSUME NEW i \in DOMAIN l.tokens PROVE l.tokens[i] \notin CallTokens
  <2>1. i \in 1..Len(l.tokens) /\ Len(l.tokens) \in Nat
    BY <1>1
  <2>2. CASE i <= l.popped
    BY <1>1, <2>1, <2>2
  <2>3. CASE i > l.popped
    <3>1. i - l.popped \in 1..Len(l.tokens) - l.popped /\ l.popped + (i - l.popped) = i
      BY <1>1, <2>1, <2>3
    <3>2. i - l.popped \in DOMAIN Left(l)
      BY <1>2, <3>1
    <3> QED
      BY <1>2, <3>1, <3>2
  <2> QED
    BY <1>1, <2>1, <2>2, <2>3
<1> QED
  BY <1>3 DEF HasCall

-----------------------------------------------------------------------------
(* Blocks are opened and closed *)

LEMMA HeldType == ASSUME NEW q \in Seq(EntryRec) PROVE Held(q) \subseteq HeldRec
<1>1. \A i \in DOMAIN q : q[i] \in EntryRec
  BY LenProperties
<1>2. \A x \in EntryRec : [type |-> x.type, line |-> x.line] \in HeldRec /\ x.inside \subseteq HeldRec
  BY DEF EntryRec, HeldRec
<1> QED
  BY <1>1, <1>2 DEF Held

LEMMA Stopped == ASSUME NEW p \in LexerRec, NEW s PROVE Stop(p, s).status = s
  BY DEF Stop, LexerRec

LEMMA StackPopped ==
  ASSUME NEW p, WellMade(p), p.stack # <<>>
  PROVE  LET b == Last(p.stack)  q == [p EXCEPT !.stack = Front(@)]
         IN /\ b \in OpenRec /\ q \in LexerRec /\ q.stack \in Seq(OpenRec)
            /\ q.tokens = p.tokens /\ q.line = p.line /\ q.blocks = p.blocks /\ q.status = p.status
            /\ HeldBy(p.blocks, p.stack) = HeldBy(q.blocks, q.stack) \cup Held(b.items)
            /\ Structs(q.stack) /\ (q.stack # <<>> => Last(q.stack).keyword # "struct")
            /\ b.keyword = "struct" => \A e \in Held(b.items) : e.type = "line"
<1> DEFINE b == Last(p.stack)  f == Front(p.stack)  q == [p EXCEPT !.stack = Front(@)]
<1>1. p \in LexerRec /\ p.stack \in Seq(OpenRec) /\ Structs(p.stack)
  BY DEF WellMade, LexerRec
<1>2. /\ Len(p.stack) \in Nat /\ Len(p.stack) >= 1 /\ b = p.stack[Len(p.stack)]
      /\ f \in Seq(OpenRec) /\ Len(f) = Len(p.stack) - 1
      /\ \A i \in 1..Len(p.stack) - 1 : f[i] = p.stack[i]
      /\ DOMAIN f = 1..Len(p.stack) - 1 /\ DOMAIN p.stack = 1..Len(p.stack)
  BY <1>1, Shortened, LenProperties
<1>3. b \in OpenRec /\ HeldBy(p.blocks, p.stack) = HeldBy(p.blocks, f) \cup Held(b.items)
  BY <1>1, FrontLast, StackFront
<1>4. /\ q.tokens = p.tokens /\ q.line = p.line /\ q.blocks = p.blocks /\ q.status = p.status
      /\ q.stack = f /\ q \in LexerRec
  BY <1>1, <1>2 DEF LexerRec
<1> HIDE DEF q, f, b
<1>5. \A i \in DOMAIN f : f[i].keyword # "struct"
  BY <1>1, <1>2 DEF Structs
<1>6. ASSUME f # <<>> PROVE Last(f).keyword # "struct"
  <2>1. Last(f) = f[Len(f)] /\ Len(f) \in Nat /\ Len(f) >= 1
    BY <1>2, <1>6, Shortened
  <2>2. Len(f) \in DOMAIN f
    BY <1>2, <2>1
  <2> QED
    BY <1>5, <2>1, <2>2
<1>7. Structs(f)
  BY <1>5 DEF Structs
<1>8. b.keyword = "struct" => \A e \in Held(b.items) : e.type = "line"
  BY <1>1, <1>2 DEF Structs
<1> QED
  BY <1>2, <1>3, <1>4, <1>6, <1>7, <1>8 DEF q, f, b

\* The declaration is the last line of the program.
LEMMA LineTaken ==
  ASSUME NEW p \in LexerRec, p.blocks # <<>>, Last(p.blocks).type = "line"
  PROVE  LET f == [p EXCEPT !.blocks = Front(@)]  l == Last(p.blocks).line
         IN /\ f \in LexerRec /\ l \in LineRec
            /\ f.tokens = p.tokens /\ f.line = p.line /\ f.stack = p.stack /\ f.status = p.status
            /\ SignaturesIn(f.blocks) = SignaturesIn(p.blocks)
            /\ HeldBy(p.blocks, p.stack)
                 = HeldBy(f.blocks, f.stack) \cup {[type |-> "line", line |-> l]}
<1> DEFINE f == [p EXCEPT !.blocks = Front(@)]  x == Last(p.blocks)
<1>1. p.blocks \in Seq(EntryRec)
  BY DEF LexerRec
<1>2. Front(p.blocks) \in Seq(EntryRec) /\ x \in EntryRec
  BY <1>1, FrontLast
<1>3. /\ f \in LexerRec /\ f.blocks = Front(p.blocks)
      /\ f.tokens = p.tokens /\ f.line = p.line /\ f.stack = p.stack /\ f.status = p.status
  BY <1>2 DEF LexerRec
<1>4. Here(x) = {[type |-> "line", line |-> x.line]} /\ x.line \in LineRec
  BY <1>2 DEF EntryRec, Here
<1>5. Held(p.blocks) = Held(Front(p.blocks)) \cup Here(x)
  BY <1>1, HeldFront
<1>6. SignaturesIn(Front(p.blocks)) = SignaturesIn(p.blocks)
  BY <1>1, SignaturesFront
<1> HIDE DEF f, x
<1>7. HeldBy(p.blocks, p.stack)
        = HeldBy(f.blocks, f.stack) \cup {[type |-> "line", line |-> x.line]}
  BY <1>3, <1>4, <1>5 DEF HeldBy
<1> QED
  BY <1>3, <1>4, <1>6, <1>7 DEF f, x

LEMMA CodeKeeps ==
  ASSUME NEW p, WellMade(p), p.stack # <<>>,
         NEW q, q = [p EXCEPT !.stack = Front(@)],
         NEW r, r = Enqueue(q, Entry("code", NewLine, Held(Last(p.stack).items)))
  PROVE  Keeps(p, r)
<1> DEFINE b == Last(p.stack)  x == Entry("code", NewLine, Held(b.items))
           d == [type |-> "code", line |-> NewLine]
<1>1. /\ b \in OpenRec /\ q \in LexerRec
      /\ q.tokens = p.tokens /\ q.line = p.line /\ q.blocks = p.blocks
      /\ HeldBy(p.blocks, p.stack) = HeldBy(q.blocks, q.stack) \cup Held(b.items)
      /\ Structs(q.stack) /\ (q.stack # <<>> => Last(q.stack).keyword # "struct")
  BY StackPopped
<1>2. x \in EntryRec /\ x.type = "code" /\ Here(x) = Held(b.items) \cup {d}
  BY <1>1, HeldType, NewLineFacts DEF EntryRec, OpenRec, Entry, Here
<1> HIDE DEF x, b
<1>3. /\ r \in LexerRec /\ Structs(r.stack)
      /\ HeldBy(r.blocks, r.stack) = HeldBy(q.blocks, q.stack) \cup Here(x)
      /\ SignaturesIn(r.blocks) = SignaturesIn(q.blocks)
      /\ r.tokens = q.tokens /\ r.line = q.line
  BY <1>1, <1>2, EnqueueHolds DEF x, b
<1>4. HeldBy(r.blocks, r.stack) = HeldBy(p.blocks, p.stack) \cup {d}
  BY <1>1, <1>2, <1>3
<1>5. d.type = "code"
  OBVIOUS
<1> HIDE DEF d
<1>6. StoredLines(r) = StoredLines(p)
  BY <1>4, <1>5 DEF StoredLines
<1> QED
  BY <1>1, <1>3, <1>4, <1>6, TakenKeeps

LEMMA FunctionMade ==
  ASSUME NEW p, WellMade(p), p.stack # <<>>,
         NEW q, q = [p EXCEPT !.stack = Front(@)],
         NEW r, r = MakeFunction(q, Last(p.stack)), r.status = "reading"
  PROVE  Keeps(p, r)
<1> DEFINE b == Last(p.stack)  x == Entry("function", NewLine, Held(b.items))
           d == [type |-> "function", line |-> NewLine]
           f == [q EXCEPT !.blocks = Front(@)]
           e == [type |-> "line", line |-> Last(q.blocks).line]
<1>1. /\ b \in OpenRec /\ q \in LexerRec
      /\ q.tokens = p.tokens /\ q.line = p.line /\ q.blocks = p.blocks
      /\ HeldBy(p.blocks, p.stack) = HeldBy(q.blocks, q.stack) \cup Held(b.items)
      /\ Structs(q.stack) /\ (q.stack # <<>> => Last(q.stack).keyword # "struct")
  BY StackPopped
<1>2. q.blocks # <<>> /\ Last(q.blocks).type = "line" /\ r = Enqueue(f, x)
  BY <1>1, Stopped DEF MakeFunction, Fail
<1>3. /\ f \in LexerRec
      /\ f.tokens = q.tokens /\ f.line = q.line /\ f.stack = q.stack
      /\ SignaturesIn(f.blocks) = SignaturesIn(q.blocks)
      /\ HeldBy(q.blocks, q.stack) = HeldBy(f.blocks, f.stack) \cup {e}
  BY <1>1, <1>2, LineTaken
<1>4. x \in EntryRec /\ x.type = "function" /\ Here(x) = Held(b.items) \cup {d}
  BY <1>1, HeldType, NewLineFacts DEF EntryRec, OpenRec, Entry, Here
<1> HIDE DEF x, b, f
<1>5. /\ r \in LexerRec /\ Structs(r.stack)
      /\ HeldBy(r.blocks, r.stack) = HeldBy(f.blocks, f.stack) \cup Here(x)
      /\ SignaturesIn(r.blocks) = SignaturesIn(f.blocks)
      /\ r.tokens = f.tokens /\ r.line = f.line
  BY <1>1, <1>2, <1>3, <1>4, EnqueueHolds
<1>6. /\ d \in HeldBy(r.blocks, r.stack)
      /\ HeldBy(r.blocks, r.stack) \subseteq HeldBy(p.blocks, p.stack) \cup {d}
  BY <1>1, <1>3, <1>4, <1>5
<1>7. d.type = "function"
  OBVIOUS
<1> HIDE DEF d, e
<1>8. StoredLines(r) \subseteq StoredLines(p)
  BY <1>6, <1>7 DEF StoredLines
<1>9. SignaturesIn(r.blocks) = SignaturesIn(p.blocks) /\ r.tokens = p.tokens /\ r.line = p.line
  BY <1>1, <1>3, <1>5
<1> QED
  BY <1>5, <1>6, <1>7, <1>8, <1>9, TakenKeeps

LEMMA StructMade ==
  ASSUME NEW p, WellMade(p), p.stack # <<>>, Last(p.stack).keyword = "struct",
         NEW q, q = [p EXCEPT !.stack = Front(@)],
         NEW r, r = ParseStruct(q, Last(p.stack)), r.status = "reading"
  PROVE  Keeps(p, r)
<1> DEFINE b == Last(p.stack)  l == Last(q.blocks).line
           e == [type |-> "line", line |-> l]
<1>1. /\ b \in OpenRec /\ q \in LexerRec
      /\ q.tokens = p.tokens /\ q.line = p.line /\ q.blocks = p.blocks
      /\ HeldBy(p.blocks, p.stack) = HeldBy(q.blocks, q.stack) \cup Held(b.items)
      /\ Structs(q.stack) /\ \A d \in Held(b.items) : d.type = "line"
  BY StackPopped
<1>2. /\ q.blocks # <<>> /\ Last(q.blocks).type = "line"
      /\ Left(l) = <<"STRUCT_NAME">> /\ r = [q EXCEPT !.blocks = Front(@)]
      /\ \A m \in LinesOf(b.items) : Left(m) = <<"LITERAL", "ARROW", "TYPE">>
  BY <1>1, Stopped DEF ParseStruct, Fail
<1>3. /\ r \in LexerRec /\ l \in LineRec
      /\ r.tokens = q.tokens /\ r.line = q.line /\ r.stack = q.stack
      /\ SignaturesIn(r.blocks) = SignaturesIn(q.blocks)
      /\ HeldBy(q.blocks, q.stack) = HeldBy(r.blocks, r.stack) \cup {e}
  BY <1>1, <1>2, LineTaken
<1>4. e.type = "line" /\ e.line = l
  OBVIOUS
<1> HIDE DEF e, b
<1>5. HeldBy(p.blocks, p.stack) = HeldBy(r.blocks, r.stack) \cup {e} \cup Held(b.items)
  BY <1>1, <1>3
<1>6. \A m \in Held(b.items) : m \in HeldRec
  BY <1>1, HeldType DEF OpenRec
<1>7. ASSUME NEW m \in StoredLines(p) \ StoredLines(r) PROVE ~ HasCall(m)
  <2>1. m \in StoredLines(p) /\ Popped(m, Cardinality(SignaturesIn(p.blocks)))
    BY DEF WellMade
  <2>2. PICK d \in {e} \cup Held(b.items) : d.type = "line" /\ d.line = m
    BY <1>5 DEF StoredLines
  <2>3. CASE d = e
    <3>1. m = l
      BY <1>4, <2>2, <2>3
    <3>2. \A i \in DOMAIN Left(m) : Left(m)[i] \notin CallTokens
      BY <1>2, <3>1 DEF CallTokens
    <3> QED
      BY <1>3, <2>1, <3>1, <3>2, CallsLeft
  <2>4. CASE d \in Held(b.items)
    <3>1. m \in LineRec /\ m \in LinesOf(b.items)
      BY <1>6, <2>2, <2>4 DEF HeldRec, LinesOf
    <3>2. \A i \in DOMAIN Left(m) : Left(m)[i] \notin CallTokens
      BY <1>2, <3>1 DEF CallTokens
    <3> QED
      BY <2>1, <3>1, <3>2, CallsLeft
  <2> QED
    BY <2>2, <2>3, <2>4
<1>8. StoredLines(r) \subseteq StoredLines(p)
  BY <1>5 DEF StoredLines
<1>9. (\E d \in HeldBy(p.blocks, p.stack) : d.type = "function")
        => \E d \in HeldBy(r.blocks, r.stack) : d.type = "function"
  BY <1>1, <1>4, <1>5
<1>10. /\ SignaturesIn(r.blocks) = SignaturesIn(p.blocks) /\ r.tokens = p.tokens
       /\ r.line = p.line /\ Structs(r.stack)
  BY <1>1, <1>3
<1> QED
  BY <1>3, <1>7, <1>8, <1>9, <1>10, TakenKeeps

LEMMA CloserKeeps ==
  ASSUME NEW p, WellMade(p), NEW k, ParseCloser(p, k).status = "reading"
  PROVE  Keeps(p, ParseCloser(p, k))
<1> DEFINE b == Last(p.stack)  q == [p EXCEPT !.stack = Front(@)]  r == ParseCloser(p, k)
<1>1. p \in LexerRec
  BY DEF WellMade
<1>2. /\ p.stack # <<>>
      /\ r = CASE b.keyword = "fun"    -> MakeFunction(q, b)
               [] b.keyword = "struct" -> ParseStruct(q, b)
               [] b.keyword = "if"     -> Enqueue(q, Entry("code", NewLine, Held(b.items)))
  BY <1>1, Stopped DEF ParseCloser, Fail
<1>3. b.keyword \in {"fun", "if", "struct"}
  BY <1>2, StackPopped DEF OpenRec, OpeningWords
<1> HIDE DEF r
<1>4. CASE b.keyword = "fun"
  <2>1. r = MakeFunction(q, b)
    BY <1>2, <1>4
  <2> QED
    BY <1>2, <2>1, FunctionMade DEF r
<1>5. CASE b.keyword = "struct"
  <2>1. r = ParseStruct(q, b)
    BY <1>2, <1>5
  <2> QED
    BY <1>2, <1>5, <2>1, StructMade DEF r
<1>6. CASE b.keyword = "if"
  <2>1. r = Enqueue(q, Entry("code", NewLine, Held(b.items)))
    BY <1>2, <1>6
  <2> QED
    BY <1>2, <2>1, CodeKeeps DEF r
<1> QED
  BY <1>3, <1>4, <1>5, <1>6 DEF r

LEMMA OpenerKeeps ==
  ASSUME NEW p, WellMade(p), NEW k \in OpeningWords, ParseOpener(p, k).status = "reading"
  PROVE  Keeps(p, ParseOpener(p, k))
<1> DEFINE q == FinishLine(p)  o == [keyword |-> k, items |-> <<>>]  r == ParseOpener(p, k)
<1>1. Keeps(p, q) /\ WellMade(q) /\ q \in LexerRec /\ q.stack \in Seq(OpenRec)
  BY FinishLineKeeps DEF Keeps, WellMade, LexerRec
<1>2. /\ r = [q EXCEPT !.stack = Append(@, o)]
      /\ q.stack # <<>> => Last(q.stack).keyword # "struct"
  BY <1>1, Stopped DEF ParseOpener, Fail
<1>3. o \in OpenRec /\ Held(o.items) = {}
  BY EmptySeq DEF OpenRec, Held
<1> HIDE DEF q, o
<1>4. /\ Append(q.stack, o) \in Seq(OpenRec) /\ Len(q.stack) \in Nat
      /\ DOMAIN q.stack = 1..Len(q.stack) /\ DOMAIN Append(q.stack, o) = 1..Len(q.stack) + 1
      /\ \A i \in 1..Len(q.stack) : Append(q.stack, o)[i] = q.stack[i]
      /\ Append(q.stack, o)[Len(q.stack) + 1] = o
      /\ Len(Append(q.stack, o)) = Len(q.stack) + 1
  BY <1>1, <1>3, Appended
<1>5. /\ r \in LexerRec /\ r.stack = Append(q.stack, o) /\ r.tokens = q.tokens
      /\ r.blocks = q.blocks /\ r.line = q.line
  BY <1>1, <1>2, <1>4 DEF LexerRec
<1> HIDE DEF r
<1>6. HeldBy(r.blocks, r.stack) = HeldBy(q.blocks, q.stack)
  <2>1. HeldBy(q.blocks, Append(q.stack, o)) = HeldBy(q.blocks, q.stack) \cup Held(o.items)
    BY <1>1, <1>3, StackPushed
  <2> QED
    BY <1>3, <1>5, <2>1
<1>7. Structs(r.stack)
  <2>1. \A i \in 1..Len(q.stack) : q.stack[i].keyword # "struct"
    <3>1. ASSUME NEW i \in 1..Len(q.stack), q.stack[i].keyword = "struct" PROVE FALSE
      <4>1. i = Len(q.stack)
        BY <1>1, <1>4, <3>1 DEF WellMade, Structs
      <4>2. q.stack # <<>> /\ Last(q.stack) = q.stack[i]
        BY <1>4, <4>1, EmptySeq DEF Last
      <4> QED
        BY <1>2, <3>1, <4>2
    <3> QED
      BY <3>1
  <2>2. ASSUME NEW i \in 1..Len(q.stack) + 1, r.stack[i].keyword = "struct"
        PROVE  i = Len(r.stack) /\ \A e \in Held(r.stack[i].items) : e.type = "line"
    <3>1. i = Len(q.stack) + 1
      BY <1>4, <1>5, <2>1, <2>2
    <3> QED
      BY <1>3, <1>4, <1>5, <3>1
  <2> QED
    BY <1>4, <1>5, <2>2 DEF Structs
<1>8. Keeps(q, r)
  BY <1>1, <1>5, <1>6, <1>7, TakenKeeps DEF StoredLines
<1> QED
  BY <1>1, <1>8, KeepsBoth DEF r

\* The tokens of a signature: one arrow, and no call.
LEMMA SignedTokens ==
  ASSUME NEW ts \in Seq(LineTokens), Signs(ts)
  PROVE  /\ Len(ts) \in Nat /\ Len(ts) >= 2 /\ IsReturnType(ts[Len(ts)])
         /\ \A i \in 1..Len(ts) : ts[i] \notin CallTokens
         /\ \A i \in 1..Len(ts) : ts[i] = "ARROW" <=> i = Len(ts) - 1
<1>1. Len(ts) \in Nat
  OBVIOUS
<1>2. PICK a \in 2..(Len(ts) - 1) :
        /\ ts[1] = "LITERAL" /\ ts[a] = "ARROW"
        /\ \A i \in 2..(a - 1) : IsParameterType(ts[i])
        /\ Len(ts) = a + 1 /\ IsReturnType(ts[a + 1])
  BY DEF Signs
<1>3. \A i \in 1..Len(ts) : i = 1 \/ i \in 2..(a - 1) \/ i = a \/ i = a + 1
  BY <1>1, <1>2
<1>4. ASSUME NEW i \in 1..Len(ts)
      PROVE  ts[i] \notin CallTokens /\ (ts[i] = "ARROW" <=> i = a)
  <2>1. CASE i = 1
    BY <1>2, <2>1 DEF CallTokens
  <2>2. CASE i \in 2..(a - 1)
    BY <1>2, <2>2 DEF CallTokens, IsParameterType
  <2>3. CASE i = a
    BY <1>2, <2>3 DEF CallTokens
  <2>4. CASE i = a + 1
    BY <1>2, <2>4 DEF CallTokens, IsReturnType
  <2> QED
    BY <1>3, <2>1, <2>2, <2>3, <2>4
<1> QED
  BY <1>1, <1>2, <1>4

\* The line goes on behind a signature: what was popped is one more.
LEMMA SignedPopped ==
  ASSUME NEW l \in LineRec, NEW n \in Nat, Popped(l, n), Signs(Left(l))
  PROVE  LET m == [tokens |-> l.tokens, popped |-> Len(l.tokens)]
         IN m \in LineRec /\ Popped(m, n + 1)
<1> DEFINE ts == Left(l)  w == l.tokens  k == l.popped  old == SubSeq(w, 1, k)
           m == [tokens |-> w, popped |-> Len(w)]
<1>1. w \in Seq(LineTokens) /\ k \in Nat /\ Len(w) \in Nat /\ k <= Len(w) /\ DOMAIN w = 1..Len(w)
  BY DEF LineRec, Popped
<1>2. /\ ts \in Seq(LineTokens) /\ Len(ts) = Len(w) - k
      /\ \A i \in 1..Len(w) - k : ts[i] = w[k + i]
  <2>1. k \in 0..Len(w)
    BY <1>1
  <2> QED
    BY <1>1, <2>1, LeftBehind DEF Left
<1>3. /\ Len(ts) \in Nat /\ Len(ts) >= 2
      /\ \A i \in 1..Len(ts) : ts[i] = "ARROW" <=> i = Len(ts) - 1
  BY <1>2, SignedTokens
<1>11. IsReturnType(ts[Len(ts)]) /\ \A i \in 1..Len(ts) : ts[i] \notin CallTokens
  BY <1>2, SignedTokens
<1>12. Signs(ts)
  OBVIOUS
<1>13. Len(w) \in Nat /\ k \in Nat /\ k + Len(ts) = Len(w) /\ Len(ts) >= 2 /\ Len(ts) \in Nat
  <2>1. Len(ts) = Len(w) - k
    BY <1>2
  <2>2. Len(w) \in Nat /\ k \in Nat /\ Len(ts) \in Nat /\ Len(ts) >= 2
    BY <1>1, <1>3
  <2> HIDE DEF ts, w, k
  <2> QED
    BY <2>1, <2>2
<1>4. SubSeq(w, 1, Len(w)) = w /\ m \in LineRec /\ m.tokens = w /\ m.popped = Len(w)
  BY <1>1 DEF LineRec
<1>5. old \in Seq(LineTokens) /\ DOMAIN old = 1..k /\ \A i \in 1..k : old[i] = w[i]
  BY <1>1
<1> HIDE DEF m, ts, w, k, old
<1>6. \A i \in k + 1..Len(w) : i - k \in 1..Len(ts) /\ w[i] = ts[i - k]
  BY <1>1, <1>2
<1>7. IsReturnType(w[Len(w)])
  <2>1. Len(w) \in k + 1..Len(w) /\ Len(w) - k = Len(ts)
    BY <1>13
  <2>2. w[Len(w)] = ts[Len(ts)]
    BY <1>6, <2>1
  <2> QED
    BY <1>11, <2>2
<1>8. \A i \in 1..Len(w) : w[i] \notin CallTokens
  <2>1. \A i \in 1..k : k > 0 => w[i] \notin CallTokens
    BY DEF Popped, w, k
  <2> QED
    BY <1>1, <1>11, <1>6, <2>1, SMTT(30)
<1>9. \E j \in 1..Len(w) : Signs(SubSeq(w, 1, j))
  <2>1. CASE k = 0
    <3>1. ts = w
      BY <1>1, <1>4, <2>1 DEF ts, Left, w, k
    <3>2. Len(w) \in 1..Len(w)
      BY <1>13
    <3>3. Signs(SubSeq(w, 1, Len(w)))
      BY <1>4, <1>12, <3>1
    <3> QED
      BY <3>2, <3>3
  <2>2. CASE k > 0
    <3>1. PICK j \in 1..k : Signs(SubSeq(old, 1, j))
      BY <2>2 DEF Popped, old, w, k
    <3>2. SubSeq(old, 1, j) = SubSeq(w, 1, j)
      BY <1>1, <1>5, <3>1, SubSeqProperties
    <3>3. j \in 1..Len(w)
      BY <1>1
    <3> QED
      BY <3>1, <3>2, <3>3
  <2> QED
    BY <1>1, <2>1, <2>2
<1>10. Cardinality(Arrows(w)) <= n + 1
  <2>1. Arrows(w) = Arrows(old) \cup {Len(w) - 1}
    <3>1. \A i \in 1..k : i \in Arrows(w) <=> i \in Arrows(old)
      BY <1>1, <1>5 DEF Arrows
    <3>2. ASSUME NEW i \in k + 1..Len(w) PROVE i \in Arrows(w) <=> i = Len(w) - 1
      <4>1. i - k \in 1..Len(ts) /\ w[i] = ts[i - k] /\ i \in DOMAIN w
        BY <1>1, <1>6
      <4>2. ts[i - k] = "ARROW" <=> i - k = Len(ts) - 1
        BY <1>3, <4>1
      <4>3. i - k = Len(ts) - 1 <=> i = Len(w) - 1
        BY <1>1, <1>2
      <4> QED
        BY <4>1, <4>2, <4>3 DEF Arrows
    <3>3. Arrows(w) \subseteq 1..Len(w) /\ Arrows(old) \subseteq 1..k
      BY <1>1, <1>5 DEF Arrows
    <3>4. Len(w) - 1 \in k + 1..Len(w) /\ \A i \in 1..Len(w) : i \in 1..k \/ i \in k + 1..Len(w)
      BY <1>13
    <3>5. \A i \in k + 1..Len(w) : i \notin 1..k
      BY <1>1
    <3> QED
      BY <3>1, <3>2, <3>3, <3>4, <3>5
  <2>2. IsFiniteSet(Arrows(old)) /\ Cardinality(Arrows(old)) \in Nat
    <3>1. IsFiniteSet(1..k) /\ Arrows(old) \in SUBSET (1..k)
      BY <1>1, <1>5, FS_Interval DEF Arrows
    <3> QED
      BY <3>1, FS_Subset, FS_CardinalityType
  <2>3. Cardinality(Arrows(old)) <= n
    <3>1. CASE k = 0
      BY <1>5, <3>1, FS_EmptySet DEF Arrows
    <3>2. CASE k > 0
      BY <3>2 DEF Popped, old, w, k
    <3> QED
      BY <1>1, <3>1, <3>2
  <2>4. Cardinality(Arrows(w)) <= Cardinality(Arrows(old)) + 1
    <3>1. Cardinality(Arrows(old) \cup {Len(w) - 1}) =
            IF Len(w) - 1 \in Arrows(old) THEN Cardinality(Arrows(old)) ELSE Cardinality(Arrows(old)) + 1
      BY <2>2, FS_AddElement
    <3> QED
      BY <2>1, <2>2, <3>1
  <2>5. Cardinality(Arrows(w)) \in Nat
    BY <2>1, <2>2, FS_AddElement, FS_CardinalityType
  <2> QED
    BY <2>2, <2>3, <2>4, <2>5
<1> QED
  <2>1. /\ m.popped <= Len(m.tokens) /\ SubSeq(m.tokens, 1, m.popped) = w
        /\ m.tokens = w /\ m.popped = Len(w)
    BY <1>1, <1>4
  <2>2. Popped(m, n + 1)
    BY <1>7, <1>8, <1>9, <1>10, <2>1 DEF Popped
  <2> QED
    BY <1>4, <2>2 DEF m, w

LEMMA PoppedMore ==
  ASSUME NEW l \in LineRec, NEW n \in Nat, Popped(l, n) PROVE Popped(l, n + 1)
<1> DEFINE unseen == SubSeq(l.tokens, 1, l.popped)
<1>1. l.tokens \in Seq(LineTokens) /\ l.popped \in Nat /\ l.popped <= Len(l.tokens)
  BY DEF LineRec, Popped
<1>2. unseen \in Seq(LineTokens)
  BY <1>1
<1> HIDE DEF unseen
<1>3. Arrows(unseen) \in SUBSET (1..Len(unseen)) /\ IsFiniteSet(1..Len(unseen))
  <2>1. Len(unseen) \in Nat /\ DOMAIN unseen = 1..Len(unseen)
    BY <1>2, LenProperties
  <2>2. IsFiniteSet(1..Len(unseen))
    BY <2>1, FS_Interval
  <2> QED
    BY <2>1, <2>2 DEF Arrows
<1>4. Cardinality(Arrows(unseen)) \in Nat
  BY <1>3, FS_Subset, FS_CardinalityType
<1>5. Cardinality(Arrows(unseen)) <= n => Cardinality(Arrows(unseen)) <= n + 1
  BY <1>4
<1> QED
  BY <1>5 DEF Popped, unseen

LEMMA StoredType == ASSUME NEW p \in LexerRec PROVE StoredLines(p) \subseteq LineRec
<1>1. p.blocks \in Seq(EntryRec) /\ p.stack \in Seq(OpenRec)
  BY DEF LexerRec
<1>2. ASSUME NEW i \in DOMAIN p.stack PROVE p.stack[i].items \in Seq(EntryRec)
  <2>1. p.stack[i] \in OpenRec
    BY <1>1
  <2> QED
    BY <2>1 DEF OpenRec
<1>3. \A e \in HeldBy(p.blocks, p.stack) : e \in HeldRec
  BY <1>1, <1>2, HeldType DEF HeldBy
<1> QED
  BY <1>3 DEF StoredLines, HeldRec

LEMMA SignatureKeeps ==
  ASSUME NEW p, WellMade(p), NEW r, r = ParseFunctionSignature(p), r.status = "reading"
  PROVE  Keeps(p, r)
<1> DEFINE x == Entry("signature", NewLine, {})  n == Cardinality(SignaturesIn(p.blocks))
           m == [tokens |-> p.line.tokens, popped |-> Len(p.line.tokens)]
           d == [type |-> "signature", line |-> NewLine]
<1>1. p \in LexerRec /\ p.line \in LineRec /\ Popped(p.line, n) /\ p.blocks \in Seq(EntryRec)
  BY DEF WellMade, LexerRec
<1>2. Signs(Left(p.line)) /\ r = [p EXCEPT !.line.popped = Len(p.line.tokens),
                                           !.blocks = Append(@, x)]
  BY <1>1, Stopped DEF ParseFunctionSignature, SignatureOf, Fail
<1>3. n \in Nat /\ IsFiniteSet(SignaturesIn(p.blocks))
  BY <1>1, Counted
<1>4. m \in LineRec /\ Popped(m, n + 1)
  BY <1>1, <1>2, <1>3, SignedPopped
<1>5. x \in EntryRec /\ x.type = "signature" /\ Here(x) = {d}
  BY NewLineFacts DEF EntryRec, Entry, Here
<1>6. r.line = m
  BY <1>1, <1>2 DEF LexerRec, LineRec
<1> HIDE DEF x, m, n, d
<1>7. Append(p.blocks, x) \in Seq(EntryRec)
  BY <1>1, <1>5, Appended
<1>8. /\ r.blocks = Append(p.blocks, x) /\ r.stack = p.stack
      /\ r.tokens = p.tokens /\ r.status = p.status
  BY <1>1, <1>2 DEF LexerRec
<1>9. r \in LexerRec
  BY <1>1, <1>2, <1>4, <1>6, <1>7 DEF LexerRec, LineRec
<1>10. Cardinality(SignaturesIn(r.blocks)) = n + 1
  <2>1. Len(p.blocks) + 1 \notin SignaturesIn(p.blocks)
    BY <1>1, LenProperties DEF SignaturesIn
  <2>2. SignaturesIn(r.blocks) = SignaturesIn(p.blocks) \cup {Len(p.blocks) + 1}
    BY <1>1, <1>5, <1>8, SignaturesAppend
  <2> QED
    BY <1>3, <2>1, <2>2, FS_AddElement DEF n
<1>11. HeldBy(r.blocks, r.stack) = HeldBy(p.blocks, p.stack) \cup {d}
  <2>1. Held(Append(p.blocks, x)) = Held(p.blocks) \cup {d}
    BY <1>1, <1>5, HeldAppend
  <2> QED
    BY <1>8, <2>1 DEF HeldBy
<1>12. StoredLines(r) = StoredLines(p)
  <2>1. d.type # "line"
    BY DEF d
  <2> QED
    BY <1>11, <2>1 DEF StoredLines
<1>13. \A l \in StoredLines(p) : Popped(l, n + 1)
  <2>1. \A l \in StoredLines(p) : l \in LineRec /\ Popped(l, n)
    BY <1>1, StoredType DEF WellMade, n
  <2> QED
    BY <1>3, <2>1, PoppedMore
<1>14. Structs(r.stack) /\ n <= n + 1
  BY <1>3, <1>8 DEF WellMade
<1>15. (HasCall(m) <=> HasCall(p.line)) /\ (OneCall(m) <=> OneCall(p.line))
  BY DEF HasCall, OneCall, m
<1>16. /\ Cardinality(SignaturesIn(p.blocks)) <= Cardinality(SignaturesIn(r.blocks))
       /\ Popped(r.line, Cardinality(SignaturesIn(r.blocks)))
       /\ \A l \in StoredLines(p) : Popped(l, Cardinality(SignaturesIn(r.blocks)))
       /\ HeldBy(p.blocks, p.stack) \subseteq HeldBy(r.blocks, r.stack)
       /\ HasCall(r.line) <=> HasCall(p.line)
       /\ OneCall(r.line) <=> OneCall(p.line)
  BY <1>4, <1>6, <1>10, <1>11, <1>13, <1>14, <1>15 DEF n
<1> QED
  BY <1>8, <1>9, <1>12, <1>14, <1>16, SameLinesKeep

-----------------------------------------------------------------------------
(* The rounds of the loop *)

LEMMA AheadRead ==
  ASSUME NEW p \in LexerRec, NEW i \in Nat \ {0}, Ahead(p, i) # "nothing"
  PROVE  /\ i \in 1..Len(p.tokens) /\ Ahead(p, i) = p.tokens[i] /\ Len(p.tokens) \in Nat
         /\ Ahead(p, i) \in Kinds
<1>1. p.tokens \in Seq(Kinds)
  BY DEF LexerRec
<1>2. Len(p.tokens) \in Nat /\ DOMAIN p.tokens = 1..Len(p.tokens)
  BY <1>1
<1>3. i \in 1..Len(p.tokens) /\ Ahead(p, i) = p.tokens[i]
  BY <1>2 DEF Ahead
<1> QED
  BY <1>1, <1>2, <1>3

LEMMA ChainReads ==
  ASSUME NEW p, WellMade(p), NEW sep \in {"dot", "arrow"}, NEW t \in {"PATH", "ACCESS"},
         Chain(p, sep, t).status = "reading"
  PROVE  Keeps(p, Chain(p, sep, t))
<1> DEFINE n == Pairs(p, sep)  q == Read(p, 2 * n)
<1>1. p \in LexerRec
  BY DEF WellMade
<1>2. Chain(p, sep, t) = PushToken(q, t)
  BY <1>1, Stopped DEF Chain, Fail
<1>3. 2 * n \in 0..Len(p.tokens) /\ \A i \in 1..2 * n : p.tokens[i] # "colon"
  BY <1>1, PairsRead
<1>4. Keeps(p, q)
  BY <1>3, ReadKeeps
<1> HIDE DEF q
<1>5. Keeps(q, PushToken(q, t))
  BY <1>4, PushTokenKeeps DEF Keeps, LineTokens, CallTokens, Kinds
<1> QED
  BY <1>2, <1>4, <1>5, KeepsBoth

LEMMA AccessKeeps ==
  ASSUME NEW p, WellMade(p), ParseStructAccess(p).status = "reading"
  PROVE  Keeps(p, ParseStructAccess(p))
<1>1. p \in LexerRec
  BY DEF WellMade
<1>2. CASE Ahead(p, 1) \in {"type", "list", "STRUCT_NAME"}
  BY <1>2, PushTokenKeeps DEF ParseStructAccess, LineTokens, CallTokens
<1>3. CASE Ahead(p, 1) \notin {"type", "list", "STRUCT_NAME"}
  <2> DEFINE q == Read(p, 1)
  <2>1. IsLiteral(Ahead(p, 1)) /\ ParseStructAccess(p) = Chain(q, "arrow", "ACCESS")
    BY <1>1, <1>3, Stopped DEF ParseStructAccess, Fail
  <2>2. Ahead(p, 1) # "nothing" /\ Ahead(p, 1) # "colon"
    BY <2>1 DEF IsLiteral, Keywords, OpeningWords, Closers, CloserOf
  <2>3. 1 \in 0..Len(p.tokens) /\ \A i \in 1..1 : p.tokens[i] # "colon"
    BY <1>1, <2>2, AheadRead
  <2>4. Keeps(p, q)
    BY <2>3, ReadKeeps
  <2> HIDE DEF q
  <2>5. Keeps(q, Chain(q, "arrow", "ACCESS"))
    BY <2>1, <2>4, ChainReads DEF Keeps
  <2> QED
    BY <2>1, <2>4, <2>5, KeepsBoth
<1> QED
  BY <1>2, <1>3

LEMMA TypeKeeps ==
  ASSUME NEW p, WellMade(p), NEW k, ParseType(p, k).status = "reading"
  PROVE  Keeps(p, ParseType(p, k))
<1> DEFINE q == PushToken(p, "TYPE")
<1>1. p \in LexerRec /\ p.tokens \in Seq(Kinds)
  BY DEF WellMade, LexerRec
<1>2. Keeps(p, q) /\ q.tokens = p.tokens
  BY PushTokenKeeps DEF LineTokens, CallTokens
<1>3. CASE k # "list"
  BY <1>2, <1>3 DEF ParseType
<1>4. CASE k = "list"
  <2>1. /\ Len(p.tokens) >= 3
        /\ Ahead(p, 1) = "BRACKET_OPEN" /\ Ahead(p, 3) = "BRACKET_CLOSE"
        /\ Ahead(p, 2) \in {"type", "STRUCT_NAME"}
        /\ ParseType(p, k) = Read(q, 3)
    BY <1>1, <1>4, Stopped DEF ParseType, Fail
  <2>2. Len(p.tokens) \in Nat
    BY <1>1
  <2>3. \A i \in 1..3 : i \in DOMAIN p.tokens
    BY <1>1, <2>1, <2>2
  <2>4. \A i \in 1..3 : q.tokens[i] # "colon"
    <3>1. p.tokens[1] # "colon" /\ p.tokens[2] # "colon" /\ p.tokens[3] # "colon"
      BY <2>1, <2>3 DEF Ahead
    <3> QED
      BY <1>2, <3>1
  <2>5. 3 \in 0..Len(q.tokens)
    BY <1>2, <2>1, <2>2
  <2> HIDE DEF q
  <2>6. Keeps(q, Read(q, 3))
    BY <1>2, <2>4, <2>5, ReadKeeps DEF Keeps
  <2> QED
    BY <1>2, <2>1, <2>6, KeepsBoth
<1> QED
  BY <1>3, <1>4

LEMMA KeywordKeeps ==
  ASSUME NEW p, WellMade(p), NEW k \in Keywords, ParseKeyword(p, k).status = "reading"
  PROVE  Keeps(p, ParseKeyword(p, k))
<1> DEFINE r == ParseKeyword(p, k)
<1>1. p \in LexerRec
  BY DEF WellMade
<1>2. /\ OpeningWords = {"fun", "if", "struct"} /\ Closers = {"nuf", "fi", "tcurts"}
      /\ k \in OpeningWords \cup Closers \cup {"return", "get", "funsig"}
  BY DEF OpeningWords, Closers, CloserOf, Keywords
<1>3. CASE k \in Closers
  <2>1. r = ParseCloser(p, k)
    BY <1>2, <1>3 DEF ParseKeyword
  <2> QED
    BY <2>1, CloserKeeps
<1>4. CASE k \in OpeningWords
  <2>1. r = ParseOpener(p, k)
    BY <1>2, <1>4 DEF ParseKeyword
  <2> QED
    BY <1>4, <2>1, OpenerKeeps
<1>5. CASE k = "funsig"
  <2>1. r = ParseFunctionSignature(p)
    BY <1>2, <1>5 DEF ParseKeyword
  <2> QED
    BY <2>1, SignatureKeeps
<1>6. CASE k \in {"get", "return"}
  <2>1. r = PushToken(p, "KEYWORD")
    BY <1>1, <1>2, <1>6, Stopped DEF ParseKeyword, Fail
  <2> QED
    BY <2>1, PushTokenKeeps DEF LineTokens, CallTokens
<1> QED
  BY <1>2, <1>3, <1>4, <1>5, <1>6

LEMMA LiteralKeeps ==
  ASSUME NEW p, WellMade(p), NEW k, IsLiteral(k), ParseLiteral(p, k).status = "reading"
  PROVE  Keeps(p, ParseLiteral(p, k))
<1>1. CASE k \in Keywords
  BY <1>1, KeywordKeeps DEF ParseLiteral
<1>2. CASE k \notin Keywords /\ Ahead(p, 1) = "dot"
  BY <1>2, ChainReads DEF ParseLiteral, ParsePath
<1>3. CASE k \notin Keywords /\ Ahead(p, 1) # "dot"
  BY <1>3, PushTokenKeeps DEF ParseLiteral, LineTokens, CallTokens
<1> QED
  BY <1>1, <1>2, <1>3

\* The last token of the line is made the call; it was not popped.
LEMMA CallMade ==
  ASSUME NEW l \in LineRec, NEW n, Popped(l, n), ~ Empty(l), NEW t \in CallTokens
  PROVE  LET m == [tokens |-> [l.tokens EXCEPT ![Len(l.tokens)] = t], popped |-> l.popped]
         IN /\ m \in LineRec /\ Popped(m, n)
            /\ ~ HasCall(l) => OneCall(m)
<1> DEFINE w == l.tokens  k == l.popped  u == [w EXCEPT ![Len(w)] = t]
           m == [tokens |-> u, popped |-> k]
<1>1. /\ w \in Seq(LineTokens) /\ k \in Nat /\ k < Len(w) /\ Len(w) \in Nat /\ Len(w) \in 1..Len(w)
      /\ DOMAIN w = 1..Len(w) /\ t \in LineTokens
  BY DEF LineRec, Empty, LineTokens
<1>2. /\ u \in Seq(LineTokens) /\ DOMAIN u = 1..Len(w) /\ Len(u) = Len(w) /\ u[Len(w)] = t
      /\ \A i \in 1..Len(w) : i # Len(w) => u[i] = w[i]
  BY <1>1, ExceptSeq
<1>3. m \in LineRec /\ m.tokens = u /\ m.popped = k
  BY <1>1, <1>2, SMTT(30) DEF LineRec
<1> HIDE DEF m, u, w, k
<1>4. \A i \in 1..k : u[i] = w[i]
  <2>1. \A i \in 1..k : i \in 1..Len(w) /\ i # Len(w)
    <3>1. k \in Nat /\ k < Len(w) /\ Len(w) \in Nat
      BY <1>1
    <3> QED
      BY <3>1
  <2> QED
    BY <1>2, <2>1
<1>5. SubSeq(u, 1, k) = SubSeq(w, 1, k)
  <2>1. k \in Nat /\ Len(w) \in Nat /\ k < Len(w) /\ Len(u) = Len(w)
    BY <1>1, <1>2
  <2>2. k <= Len(u) /\ k <= Len(w)
    BY <2>1
  <2> QED
    BY <1>1, <1>2, <1>4, <2>2, SubSeqSame
<1>6. Popped(m, n)
  <2>1. /\ k <= Len(w) /\ k <= Len(u) /\ (k > 0 => u[k] = w[k])
    BY <1>1, <1>2, <1>4
  <2> QED
    BY <1>3, <1>4, <1>5, <2>1 DEF Popped, w, k
<1>7. ASSUME ~ HasCall(l) PROVE OneCall(m)
  <2>1. \A i \in DOMAIN w : w[i] \notin CallTokens
    BY <1>7 DEF HasCall, w
  <2>2. Len(w) \in DOMAIN u /\ \A j \in DOMAIN u : u[j] \in CallTokens <=> j = Len(w)
    BY <1>1, <1>2, <2>1
  <2> QED
    BY <1>3, <2>2 DEF OneCall
<1> QED
  BY <1>3, <1>6, <1>7 DEF m, u, w, k

LEMMA CallKeeps ==
  ASSUME NEW p, WellMade(p), NEW r, r = ParseFunctionCall(p), r.status = "reading"
  PROVE  /\ WellMade(r)
         /\ NoColon(p.tokens) /\ Uncalled(p) => NoColon(r.tokens) /\ Called(r)
<1> DEFINE a == Read(p, 1)  k == Ahead(p, 1)  q == ParseLiteral(a, k)  ts == q.line.tokens
           t == IF Last(ts) = "PATH" THEN "MODULE_CALL" ELSE "CALL"
           m == [tokens |-> [ts EXCEPT ![Len(ts)] = t], popped |-> q.line.popped]
<1>1. p \in LexerRec
  BY DEF WellMade
<1>2. IsLiteral(k)
  BY <1>1, Stopped DEF ParseFunctionCall, Fail
<1>3. k # "nothing" /\ k # "colon"
  BY <1>2 DEF IsLiteral, Keywords, OpeningWords, Closers, CloserOf
<1>4. 1 \in 0..Len(p.tokens) /\ \A i \in 1..1 : p.tokens[i] # "colon"
  BY <1>1, <1>3, AheadRead
<1>5. Keeps(p, a)
  BY <1>4, ReadKeeps
<1>6. q.status = "reading"
  BY <1>2 DEF ParseFunctionCall
<1>7. Keeps(p, q) /\ WellMade(q)
  <2> HIDE DEF a, k
  <2>1. Keeps(a, q)
    BY <1>2, <1>5, <1>6, LiteralKeeps DEF Keeps
  <2> QED
    BY <1>5, <2>1, KeepsBoth DEF Keeps
<1>8. q \in LexerRec /\ q.line \in LineRec /\ Popped(q.line, Cardinality(SignaturesIn(q.blocks)))
  BY <1>7 DEF WellMade, LexerRec
<1> HIDE DEF q
<1>9. ~ Empty(q.line) /\ r = [q EXCEPT !.line.tokens[Len(ts)] = t]
  <2>1. r = IF Empty(q.line) \/ Last(ts) \notin {"LITERAL", "PATH"} THEN Fail(q)
            ELSE [q EXCEPT !.line.tokens[Len(ts)] = t]
    BY <1>2, <1>6 DEF ParseFunctionCall, q
  <2> QED
    BY <1>8, <2>1, Stopped DEF Fail
<1>10. m \in LineRec /\ Popped(m, Cardinality(SignaturesIn(q.blocks))) /\ (~ HasCall(q.line) => OneCall(m))
  BY <1>8, <1>9, CallMade DEF CallTokens
<1>11. /\ r.line = m /\ r.tokens = q.tokens /\ r.blocks = q.blocks /\ r.stack = q.stack
       /\ r \in LexerRec
  BY <1>8, <1>9, <1>10 DEF LexerRec, LineRec
<1> HIDE DEF m
<1>12. StoredLines(r) = StoredLines(q)
  BY <1>11 DEF StoredLines
<1>13. WellMade(r)
  BY <1>7, <1>10, <1>11, <1>12 DEF WellMade
<1>14. ASSUME NoColon(p.tokens), Uncalled(p) PROVE NoColon(r.tokens) /\ Called(r)
  <2>1. NoColon(q.tokens) /\ Uncalled(q)
    BY <1>7, <1>14 DEF Keeps
  <2> QED
    BY <1>10, <1>11, <1>12, <2>1 DEF Called, Uncalled
<1> QED
  BY <1>13, <1>14

LEMMA LexedKeeps ==
  ASSUME NEW p, WellMade(p), NEW k \in Kinds, NEW r, r = Lexed(p, k), r.status = "reading"
  PROVE  /\ k # "colon" => Keeps(p, r)
         /\ k = "colon" => /\ WellMade(r)
                           /\ NoColon(p.tokens) /\ Uncalled(p) => NoColon(r.tokens) /\ Called(r)
<1>1. p \in LexerRec
  BY DEF WellMade
<1>2. ~ IsLiteral("eol") /\ ~ IsLiteral("colon") /\ ~ IsLiteral("type") /\ ~ IsLiteral("list")
      /\ ~ IsLiteral("dot") /\ ~ IsLiteral("arrow") /\ ~ IsLiteral("value") /\ ~ IsLiteral("fstring")
  BY DEF IsLiteral, Keywords, OpeningWords, Closers, CloserOf
<1>3. CASE k = "eol"
  <2>1. r = FinishLine(p)
    BY <1>2, <1>3 DEF Lexed
  <2> QED
    BY <1>3, <2>1, FinishLineKeeps
<1>4. CASE IsLiteral(k)
  <2>1. r = ParseLiteral(p, k) /\ k # "colon"
    BY <1>2, <1>4 DEF Lexed
  <2> QED
    BY <1>4, <2>1, LiteralKeeps
<1>5. CASE k = "colon"
  <2>1. r = ParseFunctionCall(p)
    BY <1>2, <1>5 DEF Lexed
  <2> QED
    BY <1>5, <2>1, CallKeeps
<1>6. CASE k \in {"type", "list"}
  <2>1. r = ParseType(p, k)
    BY <1>2, <1>6 DEF Lexed
  <2> QED
    BY <1>6, <2>1, TypeKeeps
<1>7. CASE k = "dot"
  <2>1. r = Fail(p)
    BY <1>2, <1>7 DEF Lexed
  <2> QED
    BY <1>1, <2>1, Stopped DEF Fail
<1>8. CASE k = "arrow"
  <2>1. r = ParseStructAccess(p)
    BY <1>2, <1>8 DEF Lexed
  <2> QED
    BY <1>8, <2>1, AccessKeeps
<1>9. CASE k = "value"
  <2>1. r = PushToken(p, "VALUE")
    BY <1>2, <1>9 DEF Lexed
  <2> QED
    BY <1>9, <2>1, PushTokenKeeps DEF LineTokens, CallTokens
<1>10. CASE k = "fstring"
  <2>1. r = PushToken(p, "FSTRING")
    BY <1>2, <1>10 DEF Lexed
  <2> QED
    BY <1>10, <2>1, PushTokenKeeps DEF LineTokens, CallTokens
<1>11. CASE k \in {"STRUCT_NAME", "FUN_SIGNATURE", "BRACKET_OPEN", "BRACKET_CLOSE", "OPERATOR", "ASSIGNMENT"}
  <2>1. ~ IsLiteral(k)
    BY <1>11 DEF IsLiteral, Keywords, OpeningWords, Closers, CloserOf
  <2>2. r = PushToken(p, k)
    BY <1>11, <2>1 DEF Lexed
  <2> QED
    BY <1>11, <2>2, PushTokenKeeps DEF LineTokens, CallTokens
<1> QED
  BY <1>3, <1>4, <1>5, <1>6, <1>7, <1>8, <1>9, <1>10, <1>11 DEF Kinds, IsLiteral

-----------------------------------------------------------------------------
(* What holds of every program *)

LEMMA LexerInvInit == LexerInit => LexerInv
<1> SUFFICES ASSUME LexerInit PROVE LexerInv
  OBVIOUS
<1>1. PICK p \in Programs : Starts(p)
  BY DEF LexerInit
<1>2. /\ written = p /\ tokens = p /\ current = NewLine /\ codeBlocks = <<>> /\ opened = <<>>
      /\ outcome = "reading" /\ p \in Seq(Kinds)
  BY <1>1, TokenLexerAssumption DEF Starts
<1>3. /\ Lexer.tokens = tokens /\ Lexer.line = NewLine /\ Lexer.blocks = <<>> /\ Lexer.stack = <<>>
      /\ Lexer.status = "reading"
  BY <1>2 DEF Lexer
<1>4. Lexer \in LexerRec
  <2>1. <<>> \in Seq(EntryRec) /\ <<>> \in Seq(OpenRec)
    BY EmptySeq
  <2>2. Lexer = [tokens |-> p, line |-> NewLine, blocks |-> <<>>, stack |-> <<>>,
                 status |-> "reading"]
    BY <1>2 DEF Lexer
  <2>3. p \in Seq(Kinds) /\ NewLine \in LineRec
    BY <1>2, NewLineFacts
  <2> QED
    BY <2>1, <2>2, <2>3 DEF LexerRec
<1>5. StoredLines(Lexer) = {} /\ Structs(Lexer.stack)
  BY <1>3, EmptySeq DEF StoredLines, HeldBy, Held, Structs
<1>6. Cardinality(SignaturesIn(Lexer.blocks)) \in Nat
  BY <1>4, Counted DEF LexerRec
<1>7. WellMade(Lexer) /\ Uncalled(Lexer)
  BY <1>3, <1>4, <1>5, <1>6, NewLineFacts DEF WellMade, Uncalled
<1> QED
  BY <1>1, <1>2, <1>7 DEF LexerInv

LEMMA BecomesLexer == ASSUME NEW p, p \in LexerRec, Becomes(p) PROVE Lexer' = p
<1>1. Lexer' = [tokens |-> p.tokens, line |-> p.line, blocks |-> p.blocks,
                stack |-> p.stack, status |-> p.status]
  BY DEF Becomes, Lexer
<1> QED
  BY <1>1 DEF LexerRec

\* It stops only with an error or with undefined behaviour.
Lexing(p) == /\ DOMAIN p = {"tokens", "line", "blocks", "stack", "status"}
             /\ p.status \in {"reading", "error", "behaviour"}

LEMMA LexedStops ==
  ASSUME NEW p, Lexing(p), p.stack \in Seq(OpenRec), NEW k PROVE Lexing(Lexed(p, k))
<1>1. ASSUME NEW q, Lexing(q) PROVE Lexing(Fail(q)) /\ Lexing(Stop(q, "behaviour"))
  BY <1>1 DEF Lexing, Fail, Stop
<1>2. ASSUME NEW q, Lexing(q), NEW n, NEW t
      PROVE  /\ Lexing(Read(q, n)) /\ Lexing(PushToken(q, t)) /\ Lexing(Enqueue(q, t))
             /\ Lexing([q EXCEPT !.blocks = n]) /\ Lexing([q EXCEPT !.stack = n])
             /\ Lexing([q EXCEPT !.line = n])
  BY <1>2 DEF Lexing, Read, PushToken, Enqueue
<1>3. ASSUME NEW q, Lexing(q), NEW sep, NEW t PROVE Lexing(Chain(q, sep, t))
  BY <1>1, <1>2, <1>3 DEF Chain
<1>4. ASSUME NEW q, Lexing(q) PROVE Lexing(FinishLine(q))
  BY <1>2, <1>4 DEF FinishLine
<1>5. ASSUME NEW q, Lexing(q), NEW b PROVE Lexing(MakeFunction(q, b)) /\ Lexing(ParseStruct(q, b))
  <2>1. Lexing(Fail(q)) /\ Lexing(Stop(q, "behaviour")) /\ Lexing([q EXCEPT !.blocks = Front(@)])
        /\ Lexing(Enqueue([q EXCEPT !.blocks = Front(@)], Entry("function", NewLine, Held(b.items))))
    BY <1>1, <1>2, <1>5
  <2> QED
    BY <2>1 DEF MakeFunction, ParseStruct
<1>6. ASSUME NEW q, Lexing(q), NEW c PROVE Lexing(ParseOpener(q, c))
  BY <1>1, <1>2, <1>4, <1>6 DEF ParseOpener
<1>7. ASSUME NEW q, Lexing(q), q.stack \in Seq(OpenRec), NEW c PROVE Lexing(ParseCloser(q, c))
  <2> DEFINE b == Last(q.stack)  f == [q EXCEPT !.stack = Front(@)]
             x == Entry("code", NewLine, Held(b.items))
  <2>1. Lexing(f)
    BY <1>2, <1>7
  <2>2. Lexing(Fail(q)) /\ Lexing(MakeFunction(f, b)) /\ Lexing(ParseStruct(f, b)) /\ Lexing(Enqueue(f, x))
    BY <1>1, <1>2, <1>5, <1>7, <2>1
  <2>3. ASSUME q.stack # <<>> PROVE b.keyword \in {"fun", "struct", "if"}
    <3>1. Last(q.stack) \in OpenRec
      BY <1>7, <2>3, FrontLast
    <3> QED
      BY <3>1 DEF OpenRec, OpeningWords
  <2> HIDE DEF b, f, x
  <2>4. ParseCloser(q, c) \in {Fail(q), MakeFunction(f, b), ParseStruct(f, b), Enqueue(f, x)}
    BY <2>3 DEF ParseCloser, b, f, x
  <2> QED
    BY <2>2, <2>4
<1>8. ASSUME NEW q, Lexing(q) PROVE Lexing(ParseFunctionSignature(q))
  <2>1. ParseFunctionSignature(q) \in
          {Fail(q), Stop(q, "behaviour"),
           [q EXCEPT !.line.popped = Len(q.line.tokens),
                     !.blocks = Append(@, Entry("signature", NewLine, {}))]}
    BY DEF ParseFunctionSignature, SignatureOf
  <2>2. Lexing([q EXCEPT !.line.popped = Len(q.line.tokens),
                         !.blocks = Append(@, Entry("signature", NewLine, {}))])
    BY <1>8 DEF Lexing
  <2> QED
    BY <1>1, <1>8, <2>1, <2>2
<1>9. ASSUME NEW q, Lexing(q), q.stack \in Seq(OpenRec), NEW c, IsLiteral(c)
      PROVE  Lexing(ParseLiteral(q, c))
  <2>1. c \in Keywords => c \in Closers \/ c \in OpeningWords \/ c \in {"return", "get", "funsig"}
    BY DEF Keywords
  <2>2. CASE c \in Keywords
    <3>1. ParseKeyword(q, c) \in {ParseCloser(q, c), ParseOpener(q, c), ParseFunctionSignature(q),
                                  PushToken(q, "KEYWORD"), Fail(q)}
      BY <2>1, <2>2 DEF ParseKeyword
    <3>2. Lexing(ParseCloser(q, c)) /\ Lexing(ParseOpener(q, c)) /\ Lexing(ParseFunctionSignature(q))
      BY <1>6, <1>7, <1>8, <1>9
    <3>3. Lexing(PushToken(q, "KEYWORD")) /\ Lexing(Fail(q))
      BY <1>1, <1>2, <1>9
    <3>4. Lexing(ParseKeyword(q, c))
      BY <3>1, <3>2, <3>3
    <3> QED
      BY <2>2, <3>4 DEF ParseLiteral
  <2>3. CASE c \notin Keywords
    BY <1>2, <1>3, <1>9, <2>3 DEF ParseLiteral, ParsePath
  <2> QED
    BY <2>2, <2>3
<1>10. Lexing(ParseFunctionCall(p))
  <2> DEFINE q == ParseLiteral(Read(p, 1), Ahead(p, 1))
  <2>1. Lexing(Read(p, 1)) /\ Read(p, 1).stack = p.stack
    BY <1>2 DEF Lexing, Read
  <2>2. CASE IsLiteral(Ahead(p, 1))
    <3>1. Lexing(q)
      BY <1>9, <2>1, <2>2
    <3> HIDE DEF q
    <3>2. \A i, t : Lexing([q EXCEPT !.line.tokens[i] = t])
      BY <3>1 DEF Lexing
    <3> QED
      BY <1>1, <2>2, <3>1, <3>2 DEF ParseFunctionCall, q
  <2>3. CASE ~ IsLiteral(Ahead(p, 1))
    BY <1>1, <2>3 DEF ParseFunctionCall
  <2> QED
    BY <2>2, <2>3
<1>11. Lexing(ParseStructAccess(p)) /\ Lexing(ParseType(p, k))
  BY <1>1, <1>2, <1>3 DEF ParseStructAccess, ParseType
<1>12. \/ IsLiteral(k) /\ Lexed(p, k) = ParseLiteral(p, k)
       \/ Lexed(p, k) \in {FinishLine(p), ParseFunctionCall(p), ParseType(p, k), Fail(p),
                           ParseStructAccess(p), PushToken(p, "VALUE"),
                           PushToken(p, "FSTRING"), PushToken(p, k)}
  <2>1. IsLiteral(k) /\ k # "eol" => Lexed(p, k) = ParseLiteral(p, k)
    <3>1. IsLiteral(k) => k \notin {"colon", "type", "list", "dot", "arrow", "value", "fstring"}
      BY DEF IsLiteral, Keywords, OpeningWords, Closers, CloserOf
    <3> QED
      BY <3>1 DEF Lexed
  <2>2. CASE ~ IsLiteral(k) \/ k = "eol"
    <3>1. CASE k = "eol"
      BY <3>1 DEF Lexed
    <3>2. CASE ~ IsLiteral(k) /\ k \notin {"type", "list"}
      BY <3>2 DEF Lexed
    <3>3. CASE ~ IsLiteral(k) /\ k \in {"type", "list"}
      BY <3>3 DEF Lexed
    <3> QED
      BY <2>2, <3>1, <3>2, <3>3
  <2> QED
    BY <2>1, <2>2
<1>13. Lexing(FinishLine(p)) /\ Lexing(Fail(p)) /\ \A t : Lexing(PushToken(p, t))
  BY <1>1, <1>2, <1>4
<1>14. IsLiteral(k) => Lexing(ParseLiteral(p, k))
  BY <1>9
<1> QED
  BY <1>10, <1>11, <1>12, <1>13, <1>14

LEMMA LexerInvTake == ASSUME LexerInv, TakeToken PROVE LexerInv'
<1> DEFINE a == Read(Lexer, 1)  k == Head(tokens)  r == Lexed(a, k)
<1>1. outcome = "reading" /\ tokens # <<>> /\ Becomes(r) /\ written' = written
  BY DEF TakeToken
<1>2. WellMade(Lexer) /\ Lexer.tokens = tokens /\ Lexer.status = outcome /\ tokens \in Seq(Kinds)
  BY <1>1 DEF LexerInv, WellMade, LexerRec, Lexer
<1>3. Len(tokens) \in Nat /\ Len(tokens) >= 1 /\ k = tokens[1] /\ k \in Kinds /\ DOMAIN tokens = 1..Len(tokens)
  BY <1>1, <1>2, EmptySeq, LenProperties
<1>4. outcome' = r.status
  BY <1>1 DEF Becomes
<1>5. CASE r.status = "reading"
  <2>1. a.tokens = SubSeq(tokens, 2, Len(tokens)) /\ a.line = current /\ a.blocks = codeBlocks
        /\ a.stack = opened
    BY <1>2 DEF Read, Lexer
  <2>2. /\ a \in LexerRec /\ WellMade(a) /\ (Uncalled(Lexer) => Uncalled(a)) /\ (Called(Lexer) => Called(a))
    <3>1. SubSeq(tokens, 1 + 1, Len(tokens)) \in Seq(Kinds)
      BY <1>2, <1>3, LeftBehind
    <3>2. a \in LexerRec
      BY <1>2, <3>1 DEF Read, Lexer, LexerRec, WellMade
    <3>3. StoredLines(a) = StoredLines(Lexer) /\ Lexer.line = current /\ Lexer.blocks = codeBlocks
          /\ Lexer.stack = opened
      BY <2>1 DEF StoredLines, Lexer
    <3> HIDE DEF a
    <3> QED
      BY <1>2, <2>1, <3>2, <3>3 DEF WellMade, Uncalled, Called
  <2>3. k # "colon" => (NoColon(tokens) => NoColon(a.tokens)) /\ (OneColon(tokens) => OneColon(a.tokens))
    <3>1. ASSUME k # "colon" PROVE Keeps(Lexer, a)
      BY <1>2, <1>3, <3>1, ReadKeeps
    <3> QED
      BY <1>2, <3>1 DEF Keeps
  <2>4. k = "colon" => (OneColon(tokens) => NoColon(a.tokens)) /\ ~ NoColon(tokens)
    <3>1. ASSUME k = "colon" PROVE tokens[1] = "colon" /\ 1 \in DOMAIN tokens
      BY <1>3, <3>1
    <3>2. ASSUME k = "colon", OneColon(tokens) PROVE NoColon(SubSeq(tokens, 2, Len(tokens)))
      BY <1>1, <1>2, <3>1, <3>2, ColonRead
    <3> QED
      BY <2>1, <3>1, <3>2 DEF NoColon
  <2> HIDE DEF a, k
  <2>5. /\ k # "colon" => Keeps(a, r)
        /\ k = "colon" => /\ WellMade(r)
                          /\ NoColon(a.tokens) /\ Uncalled(a) => NoColon(r.tokens) /\ Called(r)
    BY <1>3, <1>5, <2>2, LexedKeeps
  <2>6. WellMade(r) /\ r \in LexerRec
    BY <2>5 DEF Keeps, WellMade
  <2>7. Lexer' = r /\ tokens' = r.tokens
    BY <1>1, <2>6, BecomesLexer DEF Becomes
  <2>8. OneColon(written) => \/ OneColon(r.tokens) /\ Uncalled(r)
                             \/ NoColon(r.tokens) /\ Called(r)
    <3>1. SUFFICES ASSUME \/ OneColon(tokens) /\ Uncalled(Lexer)
                          \/ NoColon(tokens) /\ Called(Lexer)
                   PROVE  \/ OneColon(r.tokens) /\ Uncalled(r)
                          \/ NoColon(r.tokens) /\ Called(r)
      BY <1>1 DEF LexerInv
    <3> HIDE DEF r
    <3> QED
      BY <2>2, <2>3, <2>4, <2>5, <3>1 DEF Keeps
  <2> HIDE DEF r
  <2>9. WellMade(Lexer)' /\ (Uncalled(r) => Uncalled(Lexer)') /\ (Called(r) => Called(Lexer)')
    BY <2>6, <2>7
  <2>10. outcome' = "reading" /\ written' \in Programs
    BY <1>1, <1>4, <1>5 DEF LexerInv
  <2> QED
    BY <1>1, <2>7, <2>8, <2>9, <2>10 DEF LexerInv
<1>6. CASE r.status # "reading"
  <2>1. Lexing(a) /\ a.stack \in Seq(OpenRec)
    BY <1>1, <1>2 DEF Lexing, Read, Lexer, WellMade, LexerRec
  <2>2. Lexing(r)
    BY <2>1, LexedStops
  <2>3. outcome' \notin {"reading", "done"} /\ written' \in Programs
    BY <1>1, <1>4, <1>6, <2>2 DEF Lexing, LexerInv
  <2> QED
    BY <2>3 DEF LexerInv
<1> QED
  BY <1>5, <1>6

LEMMA LexerInvEnd == ASSUME LexerInv, EndOfTokens PROVE LexerInv'
<1> DEFINE p == FinishLine(Lexer)
<1>1. outcome = "reading" /\ WellMade(Lexer) /\ written' = written /\ written \in Programs
  BY DEF EndOfTokens, LexerInv
<1>2. Keeps(Lexer, p)
  BY <1>1, FinishLineKeeps
<1>3. /\ p \in LexerRec
      /\ \A l \in StoredLines(p) : l \in LineRec /\ Popped(l, Cardinality(SignaturesIn(p.blocks)))
  BY <1>2, StoredType DEF Keeps, WellMade
<1>4. PICK s \in {"error", "refused", "done", "threw"} : Becomes(Stop(p, s))
  BY DEF EndOfTokens, Fail
<1> HIDE DEF p
<1>5. outcome' = s /\ codeBlocks' = p.blocks
  BY <1>3, <1>4 DEF Becomes, Stop, LexerRec
<1>6. LinesOf(p.blocks) \subseteq StoredLines(p)
  BY DEF LinesOf, StoredLines, HeldBy
<1>7. \A l \in LinesOf(codeBlocks') :
        l \in LineRec /\ Popped(l, Cardinality(SignaturesIn(codeBlocks')))
  BY <1>3, <1>5, <1>6
<1> QED
  BY <1>1, <1>5, <1>7 DEF LexerInv

LEMMA LexerInvStep == LexerInv /\ [LexerNext]_lexerVars => LexerInv'
<1> SUFFICES ASSUME LexerInv, [LexerNext]_lexerVars PROVE LexerInv'
  OBVIOUS
<1>1. CASE TakeToken
  BY <1>1, LexerInvTake
<1>2. CASE EndOfTokens
  BY <1>2, LexerInvEnd
<1>3. CASE UNCHANGED lexerVars
  <2>1. Lexer' = Lexer /\ outcome' = outcome /\ codeBlocks' = codeBlocks /\ tokens' = tokens
        /\ written' = written
    BY <1>3 DEF lexerVars, Lexer
  <2> QED
    BY <2>1 DEF LexerInv
<1> QED
  BY <1>1, <1>2, <1>3 DEF LexerNext

LEMMA LexerInvAlways == LexerSpec => []LexerInv
  BY LexerInvInit, LexerInvStep, PTL DEF LexerSpec

\* What a line was run with and not analyzed is signatures.
LEMMA LinesSeen == LexerInv => LinesRunAsAnalyzed
<1> SUFFICES ASSUME LexerInv, outcome = "done", NEW l \in LinesOf(codeBlocks),
                    SubSeq(l.tokens, 1, l.popped) # <<>>
             PROVE  LET unseen == SubSeq(l.tokens, 1, l.popped)
                        arrows == {i \in DOMAIN unseen : unseen[i] = "ARROW"}
                    IN /\ \E n \in DOMAIN unseen : Signs(SubSeq(unseen, 1, n))
                       /\ IsReturnType(Last(unseen))
                       /\ Cardinality(arrows) <= Cardinality({i \in DOMAIN codeBlocks :
                                                               codeBlocks[i].type = "signature"})
  BY DEF LinesRunAsAnalyzed
<1> DEFINE unseen == SubSeq(l.tokens, 1, l.popped)
<1>1. l \in LineRec /\ Popped(l, Cardinality(SignaturesIn(codeBlocks)))
  BY DEF LexerInv
<1>2. l.tokens \in Seq(LineTokens) /\ l.popped \in Nat /\ l.popped <= Len(l.tokens)
  BY <1>1 DEF LineRec, Popped
<1>3. /\ unseen \in Seq(LineTokens) /\ Len(unseen) = l.popped
      /\ \A i \in 1..l.popped : unseen[i] = l.tokens[i]
  BY <1>2, SubSeqProperties
<1>4. l.popped > 0
  BY <1>2, <1>3, EmptySeq
<1>5. /\ \E k \in 1..l.popped : Signs(SubSeq(unseen, 1, k))
      /\ IsReturnType(l.tokens[l.popped])
      /\ Cardinality(Arrows(unseen)) <= Cardinality(SignaturesIn(codeBlocks))
  BY <1>1, <1>4 DEF Popped
<1> HIDE DEF unseen
<1>6. DOMAIN unseen = 1..l.popped /\ Last(unseen) = l.tokens[l.popped]
  <2>1. DOMAIN unseen = 1..l.popped /\ Last(unseen) = unseen[l.popped]
    BY <1>3, LenProperties DEF Last
  <2>2. l.popped \in 1..l.popped
    BY <1>2, <1>4
  <2> QED
    BY <1>3, <2>1, <2>2
<1> QED
  BY <1>5, <1>6 DEF unseen, Arrows, SignaturesIn

LEMMA CallsCounted ==
  ASSUME NEW l PROVE (~ HasCall(l) => Calls(l) = 0) /\ (OneCall(l) => Calls(l) = 1)
<1> DEFINE S == {i \in DOMAIN l.tokens : l.tokens[i] \in CallTokens}
<1>1. Calls(l) = Cardinality(S)
  BY DEF Calls, CallTokens
<1>2. ASSUME ~ HasCall(l) PROVE Cardinality(S) = 0
  <2>1. S = {}
    BY <1>2 DEF HasCall
  <2> QED
    BY <2>1, FS_EmptySet
<1>3. ASSUME OneCall(l) PROVE Cardinality(S) = 1
  <2>1. PICK i \in DOMAIN l.tokens : \A j \in DOMAIN l.tokens : l.tokens[j] \in CallTokens <=> j = i
    BY <1>3 DEF OneCall
  <2>2. S = {i}
    BY <2>1
  <2> QED
    BY <2>2, FS_Singleton
<1> QED
  BY <1>1, <1>2, <1>3

LEMMA ColonsCounted ==
  ASSUME NEW ts \in Seq(Kinds)
  PROVE  /\ NoColon(ts) => Colons(ts) = 0
         /\ OneColon(ts) => Colons(ts) = 1
         /\ Colons(ts) = 1 => OneColon(ts)
<1> DEFINE S == {i \in DOMAIN ts : ts[i] = "colon"}
<1>1. Colons(ts) = Cardinality(S)
  BY DEF Colons
<1>2. IsFiniteSet(S)
  <2>1. DOMAIN ts = 1..Len(ts) /\ Len(ts) \in Nat
    OBVIOUS
  <2>2. IsFiniteSet(1..Len(ts)) /\ S \subseteq 1..Len(ts)
    BY <2>1, FS_Interval
  <2> QED
    BY <2>2, FS_Subset
<1>3. ASSUME NoColon(ts) PROVE Cardinality(S) = 0
  <2>1. S = {}
    BY <1>3 DEF NoColon
  <2> QED
    BY <2>1, FS_EmptySet
<1>4. ASSUME OneColon(ts) PROVE Cardinality(S) = 1
  <2>1. PICK i \in DOMAIN ts : \A j \in DOMAIN ts : ts[j] = "colon" <=> j = i
    BY <1>4 DEF OneColon
  <2>2. S = {i}
    BY <2>1
  <2> QED
    BY <2>2, FS_Singleton
<1>5. ASSUME Cardinality(S) = 1 PROVE OneColon(ts)
  <2>1. PICK i : S = {i}
    BY <1>2, <1>5, FS_Singleton
  <2> QED
    BY <2>1 DEF OneColon
<1> QED
  BY <1>1, <1>3, <1>4, <1>5

\* The call stands on one line, where the colon was read.
LEMMA CallsSeen == LexerInv => CallsAsWritten
<1> DEFINE read == Colons(written) - Colons(tokens)
           made == {l \in Lines : Calls(l) > 0}
<1> SUFFICES ASSUME LexerInv, outcome = "reading", Colons(written) = 1
             PROVE  \/ read = 0 /\ made = {}
                    \/ read = 1 /\ \E l \in Lines : made = {l} /\ Calls(l) = 1
                    \/ read = 1 /\ made = {} /\ \E e \in HeldBy(codeBlocks, opened) : e.type = "function"
  BY DEF CallsAsWritten
<1>1. WellMade(Lexer) /\ written \in Programs
  BY DEF LexerInv
<1>2. tokens \in Seq(Kinds) /\ written \in Seq(Kinds)
  BY <1>1, TokenLexerAssumption DEF WellMade, LexerRec, Lexer
<1>3. \/ OneColon(tokens) /\ Uncalled(Lexer)
      \/ NoColon(tokens) /\ Called(Lexer)
  BY <1>2, ColonsCounted DEF LexerInv
<1>4. Lines = StoredLines(Lexer) \cup {Lexer.line}
  BY DEF Lines, StoredLines, Lexer
<1>5. \A l : (HasCall(l) \/ Calls(l) = 0) /\ (OneCall(l) => Calls(l) = 1)
  BY CallsCounted
<1>6. ASSUME Uncalled(Lexer) PROVE made = {}
  BY <1>4, <1>5, <1>6 DEF Uncalled
<1>7. CASE OneColon(tokens) /\ Uncalled(Lexer)
  <2>1. Colons(tokens) = 1
    BY <1>2, <1>7, ColonsCounted
  <2> QED
    BY <1>6, <1>7, <2>1
<1>8. CASE NoColon(tokens) /\ Called(Lexer)
  <2>1. read = 1
    <3>1. Colons(tokens) = 0
      BY <1>2, <1>8, ColonsCounted
    <3> QED
      BY <3>1
  <2>2. ASSUME NEW m \in Lines, OneCall(m), \A l \in Lines \ {m} : ~ HasCall(l)
        PROVE  made = {m} /\ Calls(m) = 1
    BY <1>5, <2>2
  <2>3. CASE OneCall(Lexer.line) /\ \A l \in StoredLines(Lexer) : ~ HasCall(l)
    BY <1>4, <2>1, <2>2, <2>3
  <2>4. CASE /\ ~ HasCall(Lexer.line)
             /\ \E m \in StoredLines(Lexer) : OneCall(m) /\ \A l \in StoredLines(Lexer) \ {m} : ~ HasCall(l)
    BY <1>4, <2>1, <2>2, <2>4
  <2>5. CASE Uncalled(Lexer) /\ \E e \in HeldBy(Lexer.blocks, Lexer.stack) : e.type = "function"
    BY <1>6, <2>1, <2>5 DEF Lexer
  <2> QED
    BY <1>8, <2>3, <2>4, <2>5 DEF Called
<1> QED
  BY <1>3, <1>7, <1>8

\* For all programs: what the interpreter runs of a line and the analyzer has
\* not seen is whole signatures, no more than the program has (pushLine,
\* parseFunctionSignature).
THEOREM LinesAlwaysRunAsAnalyzed == LexerSpec => []LinesRunAsAnalyzed
  BY LexerInvAlways, LinesSeen, PTL

\* For all programs with one colon: the call is made once, on one line, where
\* the colon is read, and no later token makes another or loses it
\* (parseFunctionCall, parseLiteral, parseFunction).
THEOREM CallsAlwaysAsWritten == LexerSpec => []CallsAsWritten
  BY LexerInvAlways, CallsSeen, PTL

-----------------------------------------------------------------------------
(* The programs documented *)

GrammarWords == {"VALUE", "FSTRING", "LITERAL", "TYPE", "KEYWORD", "ARROW", "PATH", "ACCESS",
                 "CALL", "MODULE_CALL", "STRUCT_NAME", "FUN_SIGNATURE", "OPERATOR", "ASSIGNMENT"}
Asked == {"nothing", "name", "member", "function", "of", "type", "end", "correction"}
Results == {"line", "function", "code", "signature"}

\* Functions and structures are defined outside of all blocks.
DefinedOutside(open) == \A i \in DOMAIN open : i > 1 => open[i] = "if" /\ open[1] # "struct"

GrammarRec == {g \in [line : Seq(GrammarWords), awaits : Asked, open : Seq(OpeningWords),
                      members : BOOLEAN, items : Seq(Results)] : DefinedOutside(g.open)}

Member == <<"LITERAL", "ARROW", "TYPE">>
Announces(k, ts) == (k = "fun" => Declaration(ts)) /\ (k = "struct" => ts = <<"STRUCT_NAME">>)

\* The queue of the program, without the line that a function or struct which is
\* open takes when it closes.
Defines(stack) == stack # <<>> /\ stack[1].keyword # "if"
Outside(p) == IF Defines(p.stack) THEN Front(p.blocks) ELSE p.blocks

Suits(k, l) == IF k = "struct" THEN Left(l) = Member ELSE Readable(l)

\* The blocks of the lexer are those of the grammar.
Stacked(p, g) ==
  /\ Len(g.open) = Len(p.stack) /\ \A i \in 1..Len(p.stack) : g.open[i] = p.stack[i].keyword
  /\ Len(g.items) = Len(Outside(p))
  /\ \A i \in 1..Len(g.items) : g.items[i] = Outside(p)[i].type
  /\ \A l \in LinesOf(Outside(p)) : Readable(l)
  /\ \A i \in 1..Len(p.stack) : \A l \in LinesOf(p.stack[i].items) : Suits(p.stack[i].keyword, l)
  /\ Defines(p.stack) => /\ p.blocks # <<>> /\ Last(p.blocks).type = "line"
                         /\ Announces(p.stack[1].keyword, Left(Last(p.blocks).line))
                         /\ p.stack[1].keyword = "struct" /\ g.members => p.stack[1].items # <<>>

Agree(p, g) == p.status = "reading" /\ g \in GrammarRec /\ g.line = Left(p.line) /\ Stacked(p, g)

\* A run of the grammar that ends as documented.
Along(w, r) ==
  /\ r[0] = Blank
  /\ \A i \in 1..Len(w) : r[i] = Understand(r[i - 1], w[i]) /\ r[i].awaits # "correction"
  /\ r[Len(w)].awaits = "nothing"

\* What is left of a program behind its first i tokens.
At(ts, w, i) ==
  i \in 0..Len(w) /\ Len(ts) = Len(w) - i /\ \A j \in 1..Len(w) - i : ts[j] = w[i + j]

Named == {"LITERAL", "PATH", "CALL", "MODULE_CALL"}

\* The lexer has read no less than the words it made: no name follows the last one.
Settled(ts, g) ==
  /\ ts # <<>> => /\ ts[1] = "dot" => LastWord(g) \notin Named
                  /\ ts[1] = "arrow" => LastWord(g) # "ACCESS"
  /\ \/ g.awaits = "nothing"
     \/ g.awaits = "member" /\ ts # <<>> /\ ts[1] \in {"type", "list", "STRUCT_NAME"}

Follows(p, w, r) ==
  \E i \in 0..Len(w) : At(p.tokens, w, i) /\ Agree(p, r[i]) /\ Settled(p.tokens, r[i])

GrammarInv ==
  /\ LexerInv /\ GrammarAccepted
  /\ outcome = "reading" /\ Documented(Understood(written)) =>
       \E r : /\ Along(written, r) /\ Understood(written) = EndStatement(r[Len(written)])
              /\ Follows(Lexer, written, r)

-----------------------------------------------------------------------------
(* The run of the grammar *)

LEMMA UnderstandingIs ==
  ASSUME NEW w \in Seq(Kinds)
  PROVE  /\ Understanding(w)[0] = Blank
         /\ \A i \in 1..Len(w) : Understanding(w)[i] = Understand(Understanding(w)[i - 1], w[i])
<1> DEFINE n == Len(w)
           Solves(f) == f = [i \in 0..n |-> IF i = 0 THEN Blank ELSE Understand(f[i - 1], w[i])]
<1>1. n \in Nat
  OBVIOUS
<1>2. \E f : Solves(f)
  <2> DEFINE S == {m \in Nat : m <= n => \E f : f = [i \in 0..m |-> IF i = 0 THEN Blank ELSE Understand(f[i - 1], w[i])]}
  <2>1. 0 \in S
    <3>1. [i \in 0..0 |-> Blank]
            = [i \in 0..0 |-> IF i = 0 THEN Blank ELSE Understand([j \in 0..0 |-> Blank][i - 1], w[i])]
      OBVIOUS
    <3> QED
      BY <3>1
  <2>2. ASSUME NEW m \in S PROVE m + 1 \in S
    <3>1. SUFFICES ASSUME m + 1 <= n
                   PROVE  \E f : f = [i \in 0..m + 1 |-> IF i = 0 THEN Blank ELSE Understand(f[i - 1], w[i])]
      OBVIOUS
    <3>2. m \in Nat /\ m <= n
      BY <1>1, <3>1
    <3>3. PICK f : f = [i \in 0..m |-> IF i = 0 THEN Blank ELSE Understand(f[i - 1], w[i])]
      BY <3>2
    <3> DEFINE g == [i \in 0..m + 1 |-> IF i <= m THEN f[i] ELSE Understand(f[m], w[m + 1])]
    <3>4. /\ g = [i \in 0..m + 1 |-> g[i]] /\ (\A i \in 0..m : g[i] = f[i])
          /\ g[m + 1] = Understand(f[m], w[m + 1])
      BY <3>2
    <3> HIDE DEF g, S
    <3>5. ASSUME NEW i \in 0..m + 1
          PROVE  g[i] = IF i = 0 THEN Blank ELSE Understand(g[i - 1], w[i])
      <4>1. CASE i = 0
        BY <3>2, <3>3, <3>4, <4>1, SMTT(30)
      <4>2. CASE i > 0 /\ i <= m
        <5>1. i - 1 \in 0..m /\ i \in 0..m /\ i # 0
          BY <3>2, <4>2
        <5>2. f[i] = Understand(f[i - 1], w[i])
          BY <3>3, <5>1
        <5> QED
          BY <3>4, <5>1, <5>2
      <4>3. CASE i = m + 1
        <5>1. i # 0 /\ i - 1 = m /\ m \in 0..m
          BY <3>2, <4>3
        <5> QED
          BY <3>4, <4>3, <5>1
      <4> QED
        BY <3>2, <4>1, <4>2, <4>3
    <3>6. g = [i \in 0..m + 1 |-> IF i = 0 THEN Blank ELSE Understand(g[i - 1], w[i])]
      <4>1. [i \in 0..m + 1 |-> g[i]] = [i \in 0..m + 1 |-> IF i = 0 THEN Blank ELSE Understand(g[i - 1], w[i])]
        BY <3>5, Zenon
      <4> QED
        BY <3>4, <4>1, Zenon
    <3> QED
      BY <3>6
  <2>3. S \in SUBSET Nat
    OBVIOUS
  <2> HIDE DEF S
  <2>4. S = Nat
    BY <2>1, <2>2, <2>3, Induct
  <2> QED
    BY <1>1, <2>4 DEF S
<1> DEFINE r == CHOOSE f : Solves(f)
<1>3. Understanding(w) = r
  BY DEF Understanding
<1>4. Solves(r)
  <2> HIDE DEF Solves
  <2> QED
    BY <1>2
<1> HIDE DEF r
<1>5. PICK f : f = Understanding(w) /\ f = [i \in 0..n |-> IF i = 0 THEN Blank ELSE Understand(f[i - 1], w[i])]
  BY <1>3, <1>4
<1>6. 0 \in 0..n /\ \A i \in 1..n : i \in 0..n /\ i # 0
  BY <1>1
<1>7. f[0] = Blank /\ \A i \in 1..n : f[i] = Understand(f[i - 1], w[i])
  BY <1>5, <1>6
<1> QED
  BY <1>5, <1>7

Shaped(g) == g \in [line : {g.line}, awaits : {g.awaits}, open : {g.open}, members : {g.members},
                    items : {g.items}]

LEMMA StatementShaped ==
  ASSUME NEW g, Shaped(g)
  PROVE  Shaped(EndStatement(g)) /\ EndStatement(g).awaits \in {g.awaits, "correction"}
<1>1. Shaped(Wrong) /\ Wrong.awaits = "correction"
  BY DEF Shaped, Wrong, Blank
<1>2. EndStatement(g) \in {g, [g EXCEPT !.line = <<>>, !.members = TRUE], Wrong,
                          [[g EXCEPT !.items = Append(@, "line")] EXCEPT !.line = <<>>],
                          [g EXCEPT !.line = <<>>]}
  BY DEF EndStatement, Made
<1> QED
  BY <1>1, <1>2 DEF Shaped

LEMMA UnderstandShaped == ASSUME NEW g, Shaped(g), NEW t PROVE Shaped(Understand(g, t))
<1>1. Shaped(Wrong)
  BY DEF Shaped, Wrong, Blank
<1>2. ASSUME NEW h, Shaped(h)
      PROVE  /\ \A w : Shaped(AddWord(h, w)) /\ Shaped(Await(h, w)) /\ Shaped(Made(h, w))
             /\ \A w : /\ Shaped([h EXCEPT !.line = w]) /\ Shaped([h EXCEPT !.open = w])
                      /\ Shaped([h EXCEPT !.members = w])
  BY <1>2 DEF Shaped, AddWord, Await, Made
<1>3. ASSUME NEW h, Shaped(h), NEW k PROVE Shaped(OpenBlock(h, k))
  <2>1. OpenBlock(h, k) \in {[h EXCEPT !.line = <<>>, !.open = <<k>>],
                            [h EXCEPT !.line = <<>>, !.open = <<k>>, !.members = FALSE],
                            [EndStatement(h) EXCEPT !.open = Append(@, k)], Wrong}
    BY DEF OpenBlock
  <2> QED
    BY <1>1, <1>3, <2>1, StatementShaped DEF Shaped
<1>4. ASSUME NEW h, Shaped(h), NEW k \in Closers PROVE Shaped(CloseBlock(h, k))
  <2> DEFINE around == [h EXCEPT !.open = Front(@)]
  <2>1. Shaped(around)
    BY <1>4 DEF Shaped
  <2>2. CloseBlock(h, k) \in {Made(around, "function"), Made(around, "code"), around, Wrong}
    <3>1. k \in {"nuf", "fi", "tcurts"}
      BY DEF Closers, CloserOf, OpeningWords
    <3> QED
      BY <3>1 DEF CloseBlock
  <2> QED
    BY <1>1, <1>2, <2>1, <2>2
<1>5. ASSUME NEW h, Shaped(h) PROVE Shaped(Begin(h, t))
  <2>1. \/ Begin(h, t) \in {EndStatement(h), [Made(h, "signature") EXCEPT !.line = <<>>], Wrong,
                           OpenBlock(h, t), Await(h, "of"), Await(h, "function"), Await(h, "name"),
                           Await(AddWord(h, "ARROW"), "member"), AddWord(h, WordOf[t])}
        \/ t \in Closers /\ Begin(h, t) = CloseBlock(h, t)
    BY DEF Begin
  <2>2. Shaped([Made(h, "signature") EXCEPT !.line = <<>>]) /\ Shaped(Await(AddWord(h, "ARROW"), "member"))
    BY <1>2, <1>5
  <2> QED
    BY <1>1, <1>2, <1>3, <1>4, <1>5, <2>1, <2>2, StatementShaped
<1>6. Understand(g, t) \in {Begin(g, t), Begin(Await(g, "nothing"), t), AddWord(g, "CALL"), Await(g, "type"),
                           Await(g, "end"), AddWord(g, "TYPE"), Wrong,
                           [g EXCEPT !.line[Len(g.line)] = Joined[@], !.awaits = "nothing"]}
  BY DEF Understand
<1>7. Shaped([g EXCEPT !.line[Len(g.line)] = Joined[@], !.awaits = "nothing"])
  BY DEF Shaped
<1> QED
  BY <1>1, <1>2, <1>5, <1>6, <1>7

\* What is wrong stays wrong.
LEMMA RunDocumented ==
  ASSUME NEW w \in Seq(Kinds), Documented(Understood(w))
  PROVE  /\ Along(w, Understanding(w))
         /\ Understood(w) = EndStatement(Understanding(w)[Len(w)])
<1> DEFINE r == Understanding(w)  n == Len(w)
<1>1. n \in Nat /\ r[0] = Blank /\ \A i \in 1..n : r[i] = Understand(r[i - 1], w[i])
  BY UnderstandingIs
<1>2. Understood(w) = EndStatement(r[n]) /\ Understood(w).awaits = "nothing"
  BY DEF Understood, Documented
<1> HIDE DEF r
<1>3. Wrong.awaits = "correction"
  BY DEF Wrong, Blank
<1>4. \A g, t : g.awaits = "correction" => Understand(g, t).awaits = "correction"
  BY <1>3 DEF Understand
<1>5. ASSUME NEW k \in 0..n, r[k].awaits = "correction"
      PROVE  r[n].awaits = "correction"
  <2> DEFINE P == {j \in 0..n - k : r[k + j].awaits = "correction"}
  <2>1. 0 \in P /\ n - k \in Nat
    BY <1>1, <1>5
  <2>2. ASSUME NEW j \in 0..(n - k) - 1, j \in P PROVE j + 1 \in P
    <3>1. k + (j + 1) \in 1..n /\ (k + (j + 1)) - 1 = k + j /\ j + 1 \in 0..n - k
      BY <1>1
    <3> QED
      BY <1>1, <1>4, <2>2, <3>1
  <2> HIDE DEF P
  <2>3. n - k \in P
    <3>1. \A j \in 0..n - k : j \in P
      BY <2>1, <2>2, InductTo
    <3> QED
      BY <2>1, <3>1
  <2>4. k + (n - k) = n
    BY <1>1
  <2> QED
    BY <2>3, <2>4 DEF P
<1>6. r[n].awaits = "nothing"
  <2>1. Shaped(r[n])
    <3> DEFINE P == {j \in 0..n : Shaped(r[j])}
    <3>1. 0 \in P
      BY <1>1 DEF Shaped, Blank
    <3>2. ASSUME NEW j \in 0..n - 1, j \in P PROVE j + 1 \in P
      <4>1. j + 1 \in 1..n /\ (j + 1) - 1 = j /\ j + 1 \in 0..n
        BY <1>1
      <4> QED
        BY <1>1, <3>2, <4>1, UnderstandShaped
    <3> HIDE DEF P
    <3>3. \A j \in 0..n : j \in P
      BY <1>1, <3>1, <3>2, InductTo
    <3> QED
      BY <1>1, <3>3 DEF P
  <2> QED
    BY <1>2, <2>1, StatementShaped
<1>7. \A i \in 1..n : r[i].awaits # "correction"
  BY <1>1, <1>5, <1>6
<1> QED
  BY <1>1, <1>2, <1>6, <1>7 DEF Along, r

-----------------------------------------------------------------------------
(* Its blocks are those of the lexer *)

LinesHere(x) == {e.line : e \in {d \in Here(x) : d.type = "line"}}

LEMMA LinesAppend ==
  ASSUME NEW q \in Seq(EntryRec), NEW x \in EntryRec
  PROVE  LinesOf(Append(q, x)) = LinesOf(q) \cup LinesHere(x)
<1>1. Held(Append(q, x)) = Held(q) \cup Here(x)
  BY HeldAppend
<1> QED
  BY <1>1 DEF LinesOf, LinesHere

\* The first of the open blocks.
LEMMA FirstOpen ==
  ASSUME NEW p \in LexerRec
  PROVE  /\ p.stack \in Seq(OpenRec) /\ p.blocks \in Seq(EntryRec)
         /\ p.stack # <<>> => 1 \in 1..Len(p.stack) /\ p.stack[1] \in OpenRec
         /\ Outside(p) \in Seq(EntryRec) \/ p.blocks = <<>>
<1>1. p.stack \in Seq(OpenRec) /\ p.blocks \in Seq(EntryRec)
  BY DEF LexerRec
<1>2. p.stack # <<>> => 1 \in 1..Len(p.stack)
  BY <1>1, EmptySeq
<1>3. p.blocks # <<>> => Front(p.blocks) \in Seq(EntryRec)
  BY <1>1, FrontLast
<1> QED
  BY <1>1, <1>2, <1>3 DEF Outside

LEMMA ItemAppended ==
  ASSUME NEW o \in OpenRec, NEW x
  PROVE  [o EXCEPT !.items = Append(@, x)] = [keyword |-> o.keyword, items |-> Append(o.items, x)]
  BY SMTT(30) DEF OpenRec

\* An item goes to the queue of the block around; outside of all blocks it counts.
LEMMA EnqueueAgrees ==
  ASSUME NEW p \in LexerRec, NEW g \in GrammarRec, Stacked(p, g), NEW x \in EntryRec,
         p.stack = <<>> => \A l \in LinesHere(x) : Readable(l),
         p.stack # <<>> => \A l \in LinesHere(x) : Suits(Last(p.stack).keyword, l),
         NEW h, h.open = g.open, h.items = Made(g, x.type).items,
         h.members => g.members \/ p.stack # <<>>
  PROVE  /\ Enqueue(p, x).line = p.line /\ Enqueue(p, x).tokens = p.tokens
         /\ Enqueue(p, x).status = p.status /\ Stacked(Enqueue(p, x), h)
<1> DEFINE q == Enqueue(p, x)
<1>1. p.stack \in Seq(OpenRec) /\ p.blocks \in Seq(EntryRec) /\ Len(p.stack) \in Nat
      /\ g.open \in Seq(OpeningWords) /\ g.items \in Seq(Results) /\ x.type \in Results
  BY DEF LexerRec, GrammarRec, EntryRec, Results
<1>2. CASE p.stack = <<>>
  <2>1. q = [p EXCEPT !.blocks = Append(@, x)]
    BY <1>2 DEF Enqueue
  <2>2. /\ q.blocks = Append(p.blocks, x) /\ q.stack = <<>>
        /\ q.tokens = p.tokens /\ q.line = p.line /\ q.status = p.status
    BY <1>2, <2>1 DEF LexerRec
  <2> HIDE DEF q
  <2>3. ~ Defines(p.stack) /\ ~ Defines(q.stack) /\ Outside(p) = p.blocks /\ Outside(q) = q.blocks
        /\ Len(p.stack) = 0 /\ Len(q.stack) = 0
    BY <1>2, <2>2, EmptySeq DEF Defines, Outside
  <2>4. g.open = <<>>
    <3>1. Len(g.open) = 0
      BY <2>3 DEF Stacked
    <3> QED
      BY <1>1, <3>1, EmptySeq
  <2>5. h.items = Append(g.items, x.type)
    BY <2>4 DEF Made, GrammarRec
  <2>6. /\ Len(g.items) = Len(p.blocks) /\ Len(p.blocks) \in Nat
        /\ \A i \in 1..Len(p.blocks) : g.items[i] = p.blocks[i].type
    BY <1>1, <2>3 DEF Stacked
  <2>7. /\ Len(q.blocks) = Len(p.blocks) + 1 /\ q.blocks[Len(p.blocks) + 1] = x
        /\ \A i \in 1..Len(p.blocks) : q.blocks[i] = p.blocks[i]
    BY <1>1, <2>2, Appended
  <2>8. /\ Len(h.items) = Len(p.blocks) + 1 /\ h.items[Len(p.blocks) + 1] = x.type
        /\ \A i \in 1..Len(p.blocks) : h.items[i] = p.blocks[i].type
    <3>1. /\ Len(Append(g.items, x.type)) = Len(g.items) + 1
          /\ \A i \in 1..Len(g.items) : Append(g.items, x.type)[i] = g.items[i]
          /\ Append(g.items, x.type)[Len(g.items) + 1] = x.type
      BY <1>1, Appended
    <3> QED
      BY <2>5, <2>6, <3>1
  <2>9. Len(h.items) = Len(q.blocks) /\ \A i \in 1..Len(h.items) : h.items[i] = q.blocks[i].type
    <3>1. \A i \in 1..Len(p.blocks) + 1 : i \in 1..Len(p.blocks) \/ i = Len(p.blocks) + 1
      BY <2>6
    <3> QED
      BY <2>7, <2>8, <3>1
  <2>10. \A l \in LinesOf(q.blocks) : Readable(l)
    <3>1. LinesOf(q.blocks) = LinesOf(p.blocks) \cup LinesHere(x)
      BY <1>1, <2>2, LinesAppend
    <3> QED
      BY <1>2, <2>3, <3>1 DEF Stacked
  <2>11. Stacked(q, h)
    <3>1. Len(h.open) = 0 /\ 1..Len(q.stack) = {}
      BY <2>3, <2>4, EmptySeq
    <3> QED
      BY <2>3, <2>9, <2>10, <3>1 DEF Stacked
  <2> QED
    BY <2>2, <2>11 DEF q
<1>3. CASE p.stack # <<>>
  <2> DEFINE n == Len(p.stack)  old == p.stack[n]
             o == [keyword |-> old.keyword, items |-> Append(old.items, x)]
             s == [p.stack EXCEPT ![n] = o]
  <2>1. n \in Nat /\ n >= 1 /\ Last(p.stack) = old /\ old \in OpenRec
    <3>1. n \in Nat /\ n >= 1 /\ DOMAIN p.stack = 1..n /\ Last(p.stack) = old
      BY <1>1, <1>3, Shortened, LenProperties
    <3> QED
      BY <1>1, <3>1
  <2>2. old.items \in Seq(EntryRec) /\ o \in OpenRec
    BY <2>1, Appended DEF OpenRec
  <2>3. q = [p EXCEPT !.stack = s]
    <3>1. [old EXCEPT !.items = Append(@, x)] = o
      BY <2>1, ItemAppended
    <3>2. q = [p EXCEPT !.stack = [p.stack EXCEPT ![n] = [old EXCEPT !.items = Append(@, x)]]]
      BY <1>3 DEF Enqueue, LexerRec
    <3> QED
      BY <3>1, <3>2
  <2>4. s \in Seq(OpenRec) /\ Len(s) = n /\ s[n] = o /\ \A i \in 1..n : i # n => s[i] = p.stack[i]
    BY <1>1, <2>1, <2>2, ExceptSeq
  <2>5. /\ q.blocks = p.blocks /\ q.stack = s
        /\ q.tokens = p.tokens /\ q.line = p.line /\ q.status = p.status
    BY <2>3 DEF LexerRec
  <2>6. o.keyword = old.keyword /\ LinesOf(o.items) = LinesOf(old.items) \cup LinesHere(x)
        /\ o.items # <<>>
    <3>1. LinesOf(Append(old.items, x)) = LinesOf(old.items) \cup LinesHere(x)
      BY <2>2, LinesAppend
    <3>2. Append(old.items, x) # <<>>
      <4>1. Len(Append(old.items, x)) = Len(old.items) + 1 /\ Len(old.items) \in Nat
        BY <2>2, Appended
      <4>2. Len(Append(old.items, x)) # 0
        BY <4>1
      <4> QED
        BY <4>2, EmptySeq
    <3> QED
      BY <3>1, <3>2
  <2> HIDE DEF q, s, o
  <2>7. \A i \in 1..n : s[i].keyword = p.stack[i].keyword
    BY <2>4, <2>6
  <2>8. 1 \in 1..n /\ s # <<>>
    BY <2>1, <2>4, EmptySeq
  <2>9. Defines(s) <=> Defines(p.stack)
    BY <1>3, <2>7, <2>8 DEF Defines
  <2>10. Outside(q) = Outside(p)
    BY <2>5, <2>9 DEF Outside
  <2>11. h.items = g.items
    <3>1. g.open # <<>>
      <4>1. Len(g.open) = n
        BY DEF Stacked
      <4> QED
        BY <2>1, <4>1, EmptySeq
    <3> QED
      BY <3>1 DEF Made
  <2>12. ASSUME NEW i \in 1..n, NEW l \in LinesOf(s[i].items) PROVE Suits(s[i].keyword, l)
    <3>1. CASE i = n
      <4>1. l \in LinesOf(old.items) \/ l \in LinesHere(x)
        BY <2>4, <2>6, <2>12, <3>1
      <4>2. \A d \in LinesOf(old.items) : Suits(old.keyword, d)
        <5>1. n \in 1..n
          BY <2>1
        <5> QED
          BY <5>1 DEF Stacked
      <4> QED
        BY <1>3, <2>1, <2>4, <2>6, <3>1, <4>1, <4>2
    <3>2. CASE i # n
      BY <2>4, <2>12, <3>2 DEF Stacked
    <3> QED
      BY <3>1, <3>2
  <2>13. s[1].items # <<>> \/ s[1] = p.stack[1]
    BY <2>4, <2>6, <2>8
  <2>14. ASSUME Defines(s)
         PROVE  /\ p.blocks # <<>> /\ Last(p.blocks).type = "line"
                /\ Announces(s[1].keyword, Left(Last(p.blocks).line))
                /\ s[1].keyword = "struct" /\ h.members => s[1].items # <<>>
    <3>1. /\ p.blocks # <<>> /\ Last(p.blocks).type = "line"
          /\ Announces(p.stack[1].keyword, Left(Last(p.blocks).line))
          /\ p.stack[1].keyword = "struct" /\ g.members => p.stack[1].items # <<>>
      BY <2>9, <2>14 DEF Stacked
    <3>2. s[1].keyword = p.stack[1].keyword
      BY <2>7, <2>8
    <3>3. ASSUME s[1].keyword = "struct" PROVE s[1].items # <<>>
      <4>1. n = 1
        <5>1. DefinedOutside(g.open) /\ g.open[1] = "struct" /\ Len(g.open) = n
          BY <2>8, <3>2, <3>3 DEF GrammarRec, Stacked
        <5>2. DOMAIN g.open = 1..n /\ n \in 1..n
          BY <1>1, <2>1, <5>1
        <5>3. ~ (n > 1)
          BY <5>1, <5>2 DEF DefinedOutside
        <5> HIDE DEF n
        <5> QED
          BY <2>1, <5>3
      <4> QED
        BY <2>4, <2>6, <4>1
    <3> QED
      BY <3>1, <3>2, <3>3
  <2>15. /\ Len(g.open) = n /\ (\A i \in 1..n : g.open[i] = p.stack[i].keyword)
         /\ Len(g.items) = Len(Outside(p)) /\ (\A i \in 1..Len(g.items) : g.items[i] = Outside(p)[i].type)
         /\ \A l \in LinesOf(Outside(p)) : Readable(l)
    BY DEF Stacked
  <2>16. Stacked(q, h)
    BY <2>4, <2>5, <2>7, <2>10, <2>11, <2>12, <2>14, <2>15 DEF Stacked
  <2> QED
    BY <2>5, <2>16 DEF q
<1> QED
  BY <1>2, <1>3

\* A struct is open alone, and a function around all others.
LEMMA OpenFirst ==
  ASSUME NEW p \in LexerRec, NEW g \in GrammarRec, Stacked(p, g)
  PROVE  /\ (p.stack = <<>> <=> g.open = <<>>)
         /\ p.stack # <<>> => /\ Last(p.stack).keyword = Last(g.open) /\ Last(p.stack) \in OpenRec
                              /\ 1 \in 1..Len(p.stack) /\ p.stack[1].keyword = g.open[1]
         /\ p.stack # <<>> /\ Last(p.stack).keyword # "if" => Len(p.stack) = 1
         /\ p.stack # <<>> /\ p.stack[1].keyword = "struct" => g.open = <<"struct">>
         /\ g.open = <<"struct">> => Len(p.stack) = 1 /\ p.stack[1].keyword = "struct"
<1>1. p.stack \in Seq(OpenRec) /\ g.open \in Seq(OpeningWords) /\ DefinedOutside(g.open)
  BY DEF LexerRec, GrammarRec
<1>2. /\ Len(g.open) = Len(p.stack) /\ Len(p.stack) \in Nat /\ DOMAIN g.open = 1..Len(p.stack)
      /\ \A i \in 1..Len(p.stack) : g.open[i] = p.stack[i].keyword
  BY <1>1, LenProperties DEF Stacked
<1>3. p.stack = <<>> <=> g.open = <<>>
  BY <1>1, <1>2, EmptySeq
<1>4. ASSUME p.stack # <<>>
      PROVE  /\ Last(p.stack).keyword = Last(g.open) /\ Last(p.stack) \in OpenRec
             /\ 1 \in 1..Len(p.stack) /\ p.stack[1].keyword = g.open[1]
             /\ Last(p.stack).keyword # "if" => Len(p.stack) = 1
             /\ p.stack[1].keyword = "struct" => Len(p.stack) = 1
  <2>1. Len(p.stack) >= 1 /\ Last(p.stack) = p.stack[Len(p.stack)] /\ Last(g.open) = g.open[Len(p.stack)]
    BY <1>1, <1>2, <1>3, <1>4, Shortened
  <2>6. Len(p.stack) \in Nat /\ Len(p.stack) >= 1
    BY <1>2, <2>1
  <2>2. Len(p.stack) \in 1..Len(p.stack) /\ 1 \in 1..Len(p.stack)
    BY <2>6, OneOrMore
  <2>3. Len(p.stack) > 1 => g.open[Len(p.stack)] = "if" /\ g.open[1] # "struct"
    BY <1>1, <1>2, <2>2 DEF DefinedOutside
  <2>4. Last(p.stack) \in OpenRec
    BY <1>1, <1>4, FrontLast
  <2>5. Len(p.stack) > 1 \/ Len(p.stack) = 1
    BY <2>6, OneOrMore
  <2> QED
    BY <1>2, <2>1, <2>2, <2>3, <2>4, <2>5
<1>5. ASSUME p.stack # <<>>, p.stack[1].keyword = "struct"
      PROVE  g.open = <<"struct">>
  <2>1. Len(g.open) = 1 /\ g.open[1] = "struct"
    BY <1>2, <1>4, <1>5
  <2> QED
    BY <1>1, <2>1, OneLong
<1>6. ASSUME g.open = <<"struct">>
      PROVE  Len(p.stack) = 1 /\ p.stack[1].keyword = "struct"
  <2>1. Len(g.open) = 1 /\ g.open[1] = "struct"
    BY <1>6
  <2>2. Len(p.stack) = 1
    BY <1>2, <2>1
  <2>3. p.stack[1].keyword = g.open[1]
    BY <1>2, <2>2
  <2> QED
    BY <2>1, <2>2, <2>3
<1> QED
  BY <1>3, <1>4, <1>5, <1>6

LEMMA IfOpened ==
  ASSUME NEW p \in LexerRec, NEW g \in GrammarRec, Stacked(p, g), g.open # <<"struct">>,
         NEW q, q.blocks = p.blocks, q.stack = Append(p.stack, [keyword |-> "if", items |-> <<>>]),
         NEW h, h.open = Append(g.open, "if"), h.items = g.items
  PROVE  Stacked(q, h) /\ h.open \in Seq(OpeningWords) /\ DefinedOutside(h.open)
<1> DEFINE o == [keyword |-> "if", items |-> <<>>]  n == Len(p.stack)
<1>1. p.stack \in Seq(OpenRec) /\ g.open \in Seq(OpeningWords) /\ DefinedOutside(g.open) /\ n \in Nat
  BY DEF LexerRec, GrammarRec
<1>2. o \in OpenRec /\ o.keyword = "if" /\ LinesOf(o.items) = {} /\ "if" \in OpeningWords
  BY EmptySeq DEF OpenRec, OpeningWords, LinesOf, Held
<1> HIDE DEF o
<1>3. /\ q.stack \in Seq(OpenRec) /\ Len(q.stack) = n + 1 /\ q.stack[n + 1] = o
      /\ \A i \in 1..n : q.stack[i] = p.stack[i]
  BY <1>1, <1>2, Appended DEF o
<1>4. /\ Len(g.open) = n /\ \A i \in 1..n : g.open[i] = p.stack[i].keyword
  BY DEF Stacked
<1>5. /\ h.open \in Seq(OpeningWords) /\ Len(h.open) = n + 1 /\ h.open[n + 1] = "if"
      /\ \A i \in 1..n : h.open[i] = g.open[i]
  BY <1>1, <1>2, <1>4, Appended
<1> HIDE DEF n
<1>6. q.stack # <<>>
  <2>1. Len(q.stack) # 0
    BY <1>1, <1>3
  <2> QED
    BY <2>1, EmptySeq
<1>7. /\ p.stack = <<>> => n = 0 /\ q.stack[1] = o
      /\ p.stack # <<>> => q.stack[1] = p.stack[1] /\ p.stack[1].keyword # "struct" /\ 1 \in 1..n
  <2>1. p.stack = <<>> => n = 0
    BY EmptySeq DEF n
  <2>2. p.stack # <<>> => 1 \in 1..n /\ p.stack[1].keyword # "struct"
    BY OpenFirst DEF n
  <2> QED
    BY <1>3, <2>1, <2>2
<1>8. (Defines(q.stack) <=> Defines(p.stack)) /\ Outside(q) = Outside(p)
  <2>1. Defines(q.stack) <=> Defines(p.stack)
    BY <1>2, <1>6, <1>7 DEF Defines
  <2> QED
    BY <2>1 DEF Outside
<1>9. DefinedOutside(h.open)
  <2>1. DOMAIN h.open = 1..n + 1 /\ DOMAIN g.open = 1..n
    BY <1>1, <1>4, <1>5
  <2>2. ASSUME NEW i \in 1..n + 1, i > 1 PROVE h.open[i] = "if" /\ h.open[1] # "struct"
    <3>1. n # 0 /\ 1 \in 1..n /\ (i \in 1..n \/ i = n + 1)
      BY <1>1, <2>2
    <3>2. p.stack # <<>>
      BY <1>7, <3>1, EmptySeq DEF n
    <3>3. h.open[1] # "struct"
      BY <1>4, <1>5, <1>7, <3>1, <3>2
    <3>4. i \in 1..n => h.open[i] = "if"
      BY <1>1, <1>5, <2>1, <2>2 DEF DefinedOutside
    <3> QED
      BY <1>5, <3>1, <3>3, <3>4
  <2> QED
    BY <2>1, <2>2 DEF DefinedOutside
<1>10. \A i \in 1..n + 1 : i \in 1..n \/ i = n + 1
  BY <1>1
<1>11. /\ \A i \in 1..n + 1 : h.open[i] = q.stack[i].keyword
       /\ \A i \in 1..n + 1 : \A l \in LinesOf(q.stack[i].items) : Suits(q.stack[i].keyword, l)
  <2>1. \A i \in 1..n : \A l \in LinesOf(p.stack[i].items) : Suits(p.stack[i].keyword, l)
    BY DEF Stacked, n
  <2> QED
    BY <1>2, <1>3, <1>4, <1>5, <1>10, <2>1
<1>12. Defines(q.stack) => /\ q.blocks # <<>> /\ Last(q.blocks).type = "line"
                           /\ Announces(q.stack[1].keyword, Left(Last(q.blocks).line))
                           /\ q.stack[1].keyword # "struct"
  BY <1>7, <1>8 DEF Stacked, Defines
<1>13. /\ Len(g.items) = Len(Outside(p)) /\ (\A i \in 1..Len(g.items) : g.items[i] = Outside(p)[i].type)
       /\ \A l \in LinesOf(Outside(p)) : Readable(l)
  BY DEF Stacked
<1>14. Stacked(q, h)
  BY <1>3, <1>5, <1>8, <1>11, <1>12, <1>13 DEF Stacked
<1> QED
  BY <1>5, <1>9, <1>14

\* The line before a function or a struct waits for its end.
LEMMA HeadOpened ==
  ASSUME NEW p \in LexerRec, NEW g \in GrammarRec, Stacked(p, g), p.stack = <<>>,
         NEW x \in EntryRec, x.type = "line", NEW k \in {"fun", "struct"}, Announces(k, Left(x.line)),
         NEW q, q.blocks = Append(p.blocks, x), q.stack = <<[keyword |-> k, items |-> <<>>]>>,
         NEW h, h.open = <<k>>, h.items = g.items, k = "struct" => ~ h.members
  PROVE  Stacked(q, h) /\ h.open \in Seq(OpeningWords) /\ DefinedOutside(h.open)
<1> DEFINE o == [keyword |-> k, items |-> <<>>]
<1>1. p.blocks \in Seq(EntryRec)
  BY DEF LexerRec
<1>2. q.blocks # <<>> /\ Last(q.blocks) = x /\ Front(q.blocks) = p.blocks
  BY <1>1, FrontOfAppend
<1>3. o.keyword = k /\ LinesOf(o.items) = {}
  BY EmptySeq DEF LinesOf, Held
<1> HIDE DEF o
<1>4. Len(q.stack) = 1 /\ q.stack # <<>> /\ q.stack[1] = o /\ Len(h.open) = 1 /\ h.open[1] = k
  BY DEF o
<1>5. Defines(q.stack) /\ Outside(q) = p.blocks /\ Outside(p) = p.blocks
  BY <1>2, <1>3, <1>4 DEF Defines, Outside
<1>6. \A i \in 1..1 : i = 1
  OBVIOUS
<1>7. h.open \in Seq(OpeningWords) /\ DefinedOutside(h.open)
  BY DEF OpeningWords, DefinedOutside
<1>8. Announces(q.stack[1].keyword, Left(Last(q.blocks).line))
  BY <1>2, <1>3, <1>4
<1>9. /\ Len(g.items) = Len(Outside(p)) /\ (\A i \in 1..Len(g.items) : g.items[i] = Outside(p)[i].type)
      /\ \A l \in LinesOf(Outside(p)) : Readable(l)
  BY DEF Stacked
<1>10. Stacked(q, h)
  BY <1>2, <1>3, <1>4, <1>5, <1>6, <1>8, <1>9 DEF Stacked
<1> QED
  BY <1>7, <1>10

LEMMA HeadTaken ==
  ASSUME NEW p \in LexerRec, NEW g \in GrammarRec, Stacked(p, g), Defines(p.stack),
         NEW q, q.blocks = Front(p.blocks), q.stack = <<>>,
         NEW h, h.open = <<>>, h.items = g.items
  PROVE  Stacked(q, h)
<1>1. Outside(q) = Outside(p) /\ ~ Defines(q.stack) /\ Len(q.stack) = 0 /\ Len(h.open) = 0
  BY EmptySeq DEF Outside, Defines
<1>2. 1..0 = {}
  OBVIOUS
<1> QED
  BY <1>1, <1>2 DEF Stacked

LEMMA BlockClosed ==
  ASSUME NEW p \in LexerRec, NEW g \in GrammarRec, Stacked(p, g), p.stack # <<>>,
         Last(p.stack).keyword = "if",
         NEW q, q.blocks = p.blocks, q.stack = Front(p.stack),
         NEW h, h.open = Front(g.open), h.items = g.items
  PROVE  /\ Stacked(q, h) /\ h.open \in Seq(OpeningWords) /\ DefinedOutside(h.open)
         /\ q.stack # <<>> => Last(q.stack).keyword # "struct"
<1> DEFINE n == Len(p.stack)
<1>1. p.stack \in Seq(OpenRec) /\ g.open \in Seq(OpeningWords) /\ DefinedOutside(g.open) /\ g.open # <<>>
  BY OpenFirst DEF LexerRec, GrammarRec
<1>2. /\ n \in Nat /\ n >= 1 /\ Last(p.stack) = p.stack[n]
      /\ q.stack \in Seq(OpenRec) /\ Len(q.stack) = n - 1
      /\ \A i \in 1..n - 1 : q.stack[i] = p.stack[i]
  BY <1>1, Shortened
<1>3. /\ Len(g.open) = n /\ \A i \in 1..n : g.open[i] = p.stack[i].keyword
  BY DEF Stacked
<1>4. /\ h.open \in Seq(OpeningWords) /\ Len(h.open) = n - 1
      /\ \A i \in 1..n - 1 : h.open[i] = g.open[i]
  BY <1>1, <1>3, Shortened, SMTT(30)
<1> HIDE DEF n
<1>5. CASE n = 1
  <2>1. q.stack = <<>> /\ h.open = <<>> /\ Len(q.stack) = 0
    BY <1>2, <1>4, <1>5, EmptySeq
  <2>2. ~ Defines(p.stack) /\ ~ Defines(q.stack)
    BY <1>2, <1>5, <2>1 DEF Defines
  <2>3. Outside(q) = Outside(p) /\ Len(h.open) = 0 /\ 1..0 = {}
    BY <2>1, <2>2, EmptySeq DEF Outside
  <2>4. Stacked(q, h)
    BY <2>1, <2>2, <2>3 DEF Stacked
  <2>5. DefinedOutside(h.open)
    BY <2>1 DEF DefinedOutside
  <2> QED
    BY <1>4, <2>1, <2>4, <2>5
<1>6. CASE n > 1
  <2>1. 1 \in 1..n - 1 /\ n \in 1..n /\ \A i \in 1..n - 1 : i \in 1..n
    BY <1>2, <1>6
  <2>2. q.stack # <<>> /\ q.stack[1] = p.stack[1]
    <3>1. Len(q.stack) # 0
      BY <1>2, <1>6
    <3> QED
      BY <1>2, <2>1, <3>1, EmptySeq
  <2>3. (Defines(q.stack) <=> Defines(p.stack)) /\ Outside(q) = Outside(p)
    <3>1. Defines(q.stack) <=> Defines(p.stack)
      BY <2>2 DEF Defines
    <3> QED
      BY <3>1 DEF Outside
  <2>4. DOMAIN g.open = 1..n /\ DOMAIN h.open = 1..n - 1
    BY <1>1, <1>3, <1>4
  <2>5. g.open[1] # "struct" /\ \A i \in 1..n - 1 : i > 1 => g.open[i] = "if"
    BY <1>1, <1>6, <2>1, <2>4 DEF DefinedOutside
  <2>6. DefinedOutside(h.open)
    BY <1>4, <2>1, <2>4, <2>5 DEF DefinedOutside
  <2>7. p.stack[1].keyword # "struct" /\ q.stack[1].keyword # "struct"
    BY <1>3, <2>1, <2>2, <2>5
  <2>8. Last(q.stack).keyword # "struct"
    <3>1. Last(q.stack) = q.stack[Len(q.stack)]
      BY <1>2, <2>2, Shortened
    <3>4. Last(q.stack) = q.stack[n - 1] /\ n - 1 \in 1..n - 1
      BY <1>2, <1>6, <3>1
    <3>2. q.stack[n - 1].keyword = g.open[n - 1]
      BY <1>2, <1>3, <2>1, <3>4
    <3>3. n - 1 > 1 \/ n - 1 = 1
      BY <1>2, <1>6
    <3> QED
      BY <2>5, <3>2, <3>3, <3>4
  <2>9. /\ Len(g.items) = Len(Outside(p)) /\ (\A i \in 1..Len(g.items) : g.items[i] = Outside(p)[i].type)
        /\ \A l \in LinesOf(Outside(p)) : Readable(l)
        /\ \A i \in 1..n : \A l \in LinesOf(p.stack[i].items) : Suits(p.stack[i].keyword, l)
    BY DEF Stacked, n
  <2>10. Defines(q.stack) => /\ q.blocks # <<>> /\ Last(q.blocks).type = "line"
                             /\ Announces(q.stack[1].keyword, Left(Last(q.blocks).line))
    BY <2>2, <2>3 DEF Stacked
  <2>11. /\ \A i \in 1..n - 1 : h.open[i] = q.stack[i].keyword
         /\ \A i \in 1..n - 1 : \A l \in LinesOf(q.stack[i].items) : Suits(q.stack[i].keyword, l)
    BY <1>2, <1>3, <1>4, <2>1, <2>9
  <2>12. Stacked(q, h)
    BY <1>2, <1>4, <2>3, <2>7, <2>9, <2>10, <2>11 DEF Stacked
  <2> QED
    BY <1>4, <2>6, <2>8, <2>12
<1> QED
  BY <1>2, <1>5, <1>6

\* What is left of a line, and of one with a token more.
LEMMA LeftOf ==
  ASSUME NEW l \in LineRec, l.popped <= Len(l.tokens)
  PROVE  /\ Left(l) \in Seq(LineTokens) /\ Len(Left(l)) = Len(l.tokens) - l.popped
         /\ \A i \in 1..Len(l.tokens) - l.popped : Left(l)[i] = l.tokens[l.popped + i]
         /\ Empty(l) <=> Left(l) = <<>>
<1>1. l.tokens \in Seq(LineTokens) /\ l.popped \in 0..Len(l.tokens) /\ Len(l.tokens) \in Nat
  BY DEF LineRec
<1>2. /\ Left(l) \in Seq(LineTokens) /\ Len(Left(l)) = Len(l.tokens) - l.popped
      /\ \A i \in 1..Len(l.tokens) - l.popped : Left(l)[i] = l.tokens[l.popped + i]
  BY <1>1, LeftBehind DEF Left
<1>3. Left(l) = <<>> <=> Len(Left(l)) = 0
  BY <1>2, EmptySeq
<1>4. Empty(l) <=> Len(l.tokens) - l.popped = 0
  BY <1>1 DEF Empty
<1> QED
  BY <1>2, <1>3, <1>4

LEMMA LeftLonger ==
  ASSUME NEW l \in LineRec, l.popped <= Len(l.tokens), NEW t \in LineTokens,
         NEW m \in LineRec, m.tokens = Append(l.tokens, t), m.popped = l.popped
  PROVE  Left(m) = Append(Left(l), t) /\ ~ Empty(m)
<1> DEFINE u == Left(l)  v == Append(u, t)  k == l.popped  n == Len(l.tokens)
<1>1. l.tokens \in Seq(LineTokens) /\ k \in Nat /\ n \in Nat /\ k <= n
  BY DEF LineRec
<1>2. u \in Seq(LineTokens) /\ Len(u) = n - k /\ \A i \in 1..n - k : u[i] = l.tokens[k + i]
  BY LeftOf
<1>3. /\ Len(m.tokens) = n + 1 /\ m.tokens[n + 1] = t /\ \A i \in 1..n : m.tokens[i] = l.tokens[i]
  BY <1>1, Appended
<1>4. m.popped <= Len(m.tokens) /\ ~ Empty(m)
  BY <1>1, <1>3 DEF Empty
<1>5. /\ Left(m) \in Seq(LineTokens) /\ Len(Left(m)) = Len(m.tokens) - k
      /\ \A i \in 1..Len(m.tokens) - k : Left(m)[i] = m.tokens[k + i]
  BY <1>4, LeftOf
<1> HIDE DEF u, k, n
<1>6. v \in Seq(LineTokens) /\ Len(v) = Len(u) + 1 /\ v[Len(u) + 1] = t /\ \A i \in 1..Len(u) : v[i] = u[i]
  BY <1>2, Appended
<1> HIDE DEF v
<1>7. Len(Left(m)) = Len(v) /\ Len(v) = n - k + 1
  BY <1>1, <1>2, <1>3, <1>5, <1>6
<1>8. ASSUME NEW i \in 1..n - k + 1 PROVE Left(m)[i] = v[i]
  <2>1. CASE i = n - k + 1
    <3>1. k + i = n + 1 /\ i = Len(u) + 1 /\ i \in 1..Len(m.tokens) - k
      BY <1>1, <1>2, <1>3, <2>1
    <3> QED
      BY <1>3, <1>5, <1>6, <3>1
  <2>2. CASE i # n - k + 1
    <3>1. i \in 1..n - k /\ k + i \in 1..n /\ i \in 1..Len(m.tokens) - k
      BY <1>1, <1>3, <2>2
    <3> QED
      BY <1>2, <1>3, <1>5, <1>6, <3>1
  <2> QED
    BY <2>1, <2>2
<1>9. Left(m) = v
  BY <1>5, <1>6, <1>7, <1>8, SeqEqual
<1> QED
  BY <1>4, <1>9 DEF v, u

LEMMA PlainReadable ==
  ASSUME NEW l, Left(l) \in Seq(GrammarWords), Plain(Left(l))
  PROVE  Readable(l)
<1>1. \A i \in DOMAIN Left(l) : Left(l)[i] \in GrammarWords
  BY LenProperties
<1> QED
  BY <1>1 DEF Readable, Plain, Unknown, GrammarWords

LEMMA GrammarFields ==
  ASSUME NEW g \in GrammarRec
  PROVE  /\ Shaped(g) /\ g.line \in Seq(GrammarWords) /\ g.awaits \in Asked /\ g.open \in Seq(OpeningWords)
         /\ g.members \in BOOLEAN /\ g.items \in Seq(Results) /\ DefinedOutside(g.open)
  BY DEF GrammarRec, Shaped

\* Only what a step changes is to be shown.
LEMMA GrammarType ==
  ASSUME NEW g, Shaped(g), g.line \in Seq(GrammarWords), g.awaits \in Asked, g.open \in Seq(OpeningWords),
         g.members \in BOOLEAN, g.items \in Seq(Results), DefinedOutside(g.open)
  PROVE  g \in GrammarRec
<1>1. g \in [line : Seq(GrammarWords), awaits : Asked, open : Seq(OpeningWords),
             members : BOOLEAN, items : Seq(Results)]
  BY DEF Shaped
<1> QED
  BY <1>1 DEF GrammarRec

LEMMA AddWordIs ==
  ASSUME NEW g \in GrammarRec, NEW w \in GrammarWords
  PROVE  LET h == AddWord(g, w)
         IN /\ h \in GrammarRec /\ h.line = Append(g.line, w) /\ h.awaits = "nothing"
            /\ h.open = g.open /\ h.members = g.members /\ h.items = g.items
            /\ LastWord(h) = w /\ Len(h.line) = Len(g.line) + 1
<1> DEFINE h == AddWord(g, w)
<1>1. Shaped(g) /\ g.line \in Seq(GrammarWords)
  BY GrammarFields
<1>2. /\ Shaped(h) /\ h.line = Append(g.line, w) /\ h.awaits = "nothing"
      /\ h.open = g.open /\ h.members = g.members /\ h.items = g.items
  BY <1>1 DEF AddWord, Shaped
<1> HIDE DEF h
<1>3. h.line \in Seq(GrammarWords) /\ Len(h.line) = Len(g.line) + 1 /\ h.line[Len(g.line) + 1] = w
      /\ Len(g.line) \in Nat
  BY <1>1, <1>2, Appended
<1>4. h.line # <<>>
  <2>1. Len(h.line) # 0
    BY <1>3
  <2> QED
    BY <2>1, EmptySeq
<1>5. LastWord(h) = w
  BY <1>3, <1>4 DEF LastWord
<1>6. h \in GrammarRec
  BY <1>2, <1>3, GrammarFields, GrammarType DEF Asked
<1> QED
  BY <1>2, <1>3, <1>5, <1>6 DEF h

LEMMA MadeIs ==
  ASSUME NEW g \in GrammarRec, NEW t \in Results
  PROVE  LET h == Made(g, t)
         IN /\ h \in GrammarRec /\ h.line = g.line /\ h.awaits = g.awaits
            /\ h.open = g.open /\ h.members = g.members
<1> DEFINE h == Made(g, t)
<1>1. Shaped(g) /\ g.items \in Seq(Results)
  BY GrammarFields
<1>2. Append(g.items, t) \in Seq(Results)
  BY <1>1, Appended
<1>3. /\ Shaped(h) /\ h.line = g.line /\ h.awaits = g.awaits
      /\ h.open = g.open /\ h.members = g.members /\ h.items \in Seq(Results)
  BY <1>1, <1>2 DEF Made, Shaped
<1> HIDE DEF h
<1>4. h \in GrammarRec
  BY <1>3, GrammarFields, GrammarType
<1> QED
  BY <1>3, <1>4 DEF h

LEMMA StackedSame ==
  ASSUME NEW p, NEW g, Stacked(p, g), NEW q, q.blocks = p.blocks, q.stack = p.stack,
         NEW h, h.open = g.open, h.items = g.items, h.members = g.members
  PROVE  Stacked(q, h)
<1>1. Outside(q) = Outside(p)
  BY DEF Outside
<1> QED
  BY <1>1 DEF Stacked

\* A token more on the line.
LEMMA PushAgrees ==
  ASSUME NEW p \in LexerRec, p.line.popped <= Len(p.line.tokens), NEW g, Agree(p, g), NEW t \in GrammarWords
  PROVE  /\ Agree(PushToken(p, t), AddWord(g, t)) /\ PushToken(p, t).tokens = p.tokens
         /\ LastWord(AddWord(g, t)) = t /\ AddWord(g, t).awaits = "nothing"
<1> DEFINE q == PushToken(p, t)
<1>1. p.line \in LineRec /\ p.line.tokens \in Seq(LineTokens) /\ t \in LineTokens
      /\ g \in GrammarRec /\ p.status = "reading"
  BY DEF LexerRec, LineRec, Agree, GrammarWords, LineTokens, CallTokens, Kinds
<1>2. /\ q.line = [tokens |-> Append(p.line.tokens, t), popped |-> p.line.popped] /\ q.tokens = p.tokens
      /\ q.blocks = p.blocks /\ q.stack = p.stack /\ q.status = p.status
  BY <1>1 DEF PushToken, LexerRec, LineRec
<1>3. q.line \in LineRec /\ q.line.tokens = Append(p.line.tokens, t) /\ q.line.popped = p.line.popped
  <2>1. Append(p.line.tokens, t) \in Seq(LineTokens)
    BY <1>1, Appended
  <2> QED
    BY <1>1, <1>2, <2>1 DEF LineRec
<1> HIDE DEF q
<1>4. Left(q.line) = Append(Left(p.line), t)
  BY <1>1, <1>3, LeftLonger
<1>5. /\ AddWord(g, t) \in GrammarRec /\ AddWord(g, t).line = Append(g.line, t)
      /\ AddWord(g, t).open = g.open /\ AddWord(g, t).members = g.members /\ AddWord(g, t).items = g.items
      /\ LastWord(AddWord(g, t)) = t /\ AddWord(g, t).awaits = "nothing"
  BY <1>1, AddWordIs
<1>6. Stacked(q, AddWord(g, t))
  BY <1>2, <1>5, StackedSame DEF Agree
<1> QED
  BY <1>1, <1>2, <1>4, <1>5, <1>6 DEF Agree, q

\* The lexer ends a line where the grammar ends a statement.
LEMMA FinishAgrees ==
  ASSUME NEW p, WellMade(p), NEW g, Agree(p, g), g.awaits = "nothing",
         EndStatement(g).awaits # "correction"
  PROVE  LET h == EndStatement(g)
         IN /\ Agree(FinishLine(p), h) /\ FinishLine(p).tokens = p.tokens
            /\ h.line = <<>> /\ h.awaits = "nothing" /\ h.open = g.open
<1> DEFINE q == FinishLine(p)  h == EndStatement(g)
           x == Entry("line", p.line, {})  e == Enqueue(p, x)
<1>1. /\ p \in LexerRec /\ Structs(p.stack) /\ p.line \in LineRec /\ p.line.popped <= Len(p.line.tokens)
      /\ p.status = "reading" /\ g \in GrammarRec /\ g.line = Left(p.line) /\ Stacked(p, g)
      /\ p.stack \in Seq(OpenRec)
  BY DEF WellMade, LexerRec, Popped, Agree
<1>2. Empty(p.line) <=> g.line = <<>>
  BY <1>1, LeftOf
<1>3. CASE g.line = <<>>
  BY <1>2, <1>3 DEF EndStatement, FinishLine
<1>4. CASE g.line # <<>>
  <2>1. x \in EntryRec /\ x.type = "line" /\ Here(x) = {[type |-> "line", line |-> p.line]}
    BY <1>1 DEF EntryRec, Entry, Here
  <2>2. LinesHere(x) = {p.line}
    <3> DEFINE d == [type |-> "line", line |-> p.line]
    <3>1. d.type = "line" /\ d.line = p.line
      OBVIOUS
    <3> HIDE DEF d
    <3>2. Here(x) = {d}
      BY <2>1 DEF d
    <3> QED
      BY <3>1, <3>2 DEF LinesHere
  <2>3. e \in LexerRec
    <3>1. \A d \in Here(x) : d.type = "line"
      BY <2>1
    <3> HIDE DEF x
    <3> QED
      BY <1>1, <2>1, <3>1, EnqueueHolds
  <2>4. q = [e EXCEPT !.line = NewLine]
    BY <1>2, <1>4 DEF FinishLine
  <2> HIDE DEF e
  <2>5. q.line = NewLine /\ q.tokens = e.tokens /\ q.blocks = e.blocks /\ q.stack = e.stack
        /\ q.status = e.status
    BY <2>3, <2>4 DEF LexerRec
  <2>6. Left(NewLine) = <<>>
    BY NewLineFacts, LeftOf, EmptySeq DEF NewLine, Empty
  <2> HIDE DEF q, x
  <2>7. Wrong.awaits = "correction" /\ Shaped(g) /\ <<>> \in Seq(GrammarWords)
    BY <1>1, GrammarFields DEF Wrong, Blank
  <2>8. CASE g.open = <<"struct">>
    <3>1. g.line = Member /\ h = [g EXCEPT !.line = <<>>, !.members = TRUE]
      BY <1>4, <2>7, <2>8 DEF EndStatement, Member
    <3>2. /\ Shaped(h) /\ h.line = <<>> /\ h.members = TRUE /\ h.open = g.open /\ h.items = g.items
          /\ h.awaits = g.awaits
      BY <2>7, <3>1 DEF Shaped
    <3> HIDE DEF h
    <3>3. h \in GrammarRec
      BY <1>1, <2>7, <3>2, GrammarFields, GrammarType
    <3>4. p.stack # <<>> /\ Last(p.stack).keyword = "struct"
      <4>1. Len(p.stack) = 1 /\ p.stack[1].keyword = "struct"
        BY <1>1, <2>8, OpenFirst
      <4> QED
        BY <1>1, <4>1, OneLong
    <3>5. Made(g, x.type).items = g.items
      BY <2>8 DEF Made
    <3>6. \A l \in LinesHere(x) : Suits(Last(p.stack).keyword, l)
      BY <1>1, <2>2, <3>1, <3>4 DEF Suits
    <3>7. /\ e.line = p.line /\ e.tokens = p.tokens /\ e.status = p.status /\ Stacked(e, h)
      <4>1. h.items = Made(g, x.type).items
        BY <3>2, <3>5
      <4> QED
        BY <1>1, <2>1, <3>2, <3>4, <3>6, <4>1, EnqueueAgrees DEF e
    <3>8. Stacked(q, h)
      BY <2>5, <3>7, StackedSame
    <3> QED
      BY <1>1, <2>5, <2>6, <3>2, <3>3, <3>7, <3>8 DEF Agree, q, h
  <2>9. CASE g.open # <<"struct">>
    <3>1. Plain(g.line) /\ h = [Made(g, "line") EXCEPT !.line = <<>>]
      BY <1>4, <2>7, <2>9 DEF EndStatement
    <3>2. /\ Made(g, "line") \in GrammarRec /\ Made(g, "line").awaits = g.awaits
          /\ Made(g, "line").open = g.open /\ Made(g, "line").members = g.members
      BY <1>1, MadeIs DEF Results
    <3> DEFINE m == Made(g, "line")
    <3> HIDE DEF m
    <3>3. /\ Shaped(h) /\ h.line = <<>> /\ h.members = m.members /\ h.open = m.open /\ h.items = m.items
          /\ h.awaits = m.awaits
      <4>1. Shaped(m) /\ h = [m EXCEPT !.line = <<>>]
        BY <3>1, <3>2, GrammarFields DEF m
      <4> QED
        BY <4>1 DEF Shaped
    <3> HIDE DEF h
    <3>4. h \in GrammarRec
      BY <2>7, <3>2, <3>3, GrammarFields, GrammarType DEF m
    <3>5. Readable(p.line)
      BY <1>1, <3>1, GrammarFields, PlainReadable
    <3>6. p.stack # <<>> => Last(p.stack).keyword # "struct"
      <4>1. SUFFICES ASSUME p.stack # <<>>, Last(p.stack).keyword = "struct" PROVE FALSE
        OBVIOUS
      <4>2. Len(p.stack) = 1
        BY <1>1, <4>1, OpenFirst
      <4>3. Last(p.stack) = p.stack[1]
        BY <1>1, <4>2, OneLong
      <4> QED
        BY <1>1, <2>9, <4>1, <4>3, OpenFirst
    <3>7. /\ p.stack = <<>> => \A l \in LinesHere(x) : Readable(l)
          /\ p.stack # <<>> => \A l \in LinesHere(x) : Suits(Last(p.stack).keyword, l)
      BY <2>2, <3>5, <3>6 DEF Suits
    <3>8. /\ e.line = p.line /\ e.tokens = p.tokens /\ e.status = p.status /\ Stacked(e, h)
      <4>1. /\ h.open = g.open /\ h.items = Made(g, x.type).items
            /\ h.members => g.members \/ p.stack # <<>>
        BY <2>1, <3>2, <3>3 DEF m
      <4> QED
        BY <1>1, <2>1, <3>7, <4>1, EnqueueAgrees DEF e
    <3>9. Stacked(q, h)
      BY <2>5, <3>8, StackedSame
    <3> QED
      BY <1>1, <2>5, <2>6, <3>2, <3>3, <3>4, <3>8, <3>9 DEF Agree, q, h, m
  <2> QED
    BY <2>8, <2>9
<1> QED
  BY <1>3, <1>4

\* The declaration stops at its arrow.
LEMMA DeclarationDeclares ==
  ASSUME NEW S, NEW ts \in Seq(S), Declaration(ts)
  PROVE  Declares(ts) /\ ts # <<>>
<1>1. PICK n \in 0..Len(ts) :
        /\ Len(ts) = 2 * n + 3
        /\ ts[1] = "LITERAL" /\ ts[2 * n + 2] = "ARROW" /\ IsReturnType(ts[2 * n + 3])
        /\ \A i \in 1..n : IsParameterType(ts[2 * i]) /\ ts[2 * i + 1] = "LITERAL"
  BY DEF Declaration
<1>2. n \in Nat /\ Len(ts) \in Nat /\ 2 * n + 2 \in 2..Len(ts)
  BY <1>1, LenProperties
<1> DEFINE a == 2 * n + 2
           Halts(j) == /\ ts[j] = "ARROW" \/ Len(ts) - j < 2
                      /\ \A i \in 2..(j - 1) : ts[i] # "ARROW" /\ Len(ts) - i >= 2
<1>3. ASSUME NEW i \in 2..a - 1
      PROVE  /\ i % 2 = 0 => IsParameterType(ts[i])
             /\ i % 2 # 0 => ts[i] = "LITERAL"
             /\ ts[i] # "ARROW" /\ Len(ts) - i >= 2
  <2>1. Len(ts) - i >= 2
    BY <1>1, <1>2
  <2>2. CASE i % 2 = 0
    <3>1. PICK j \in 1..n : i = 2 * j
      <4>1. i \div 2 \in 1..n /\ i = 2 * (i \div 2)
        BY <1>2, <2>2
      <4> QED
        BY <4>1
    <3>2. IsParameterType(ts[i])
      BY <1>1, <3>1
    <3> QED
      BY <2>1, <2>2, <3>2 DEF IsParameterType
  <2>3. CASE i % 2 # 0
    <3>1. PICK j \in 1..n : i = 2 * j + 1
      <4>1. i \div 2 \in 1..n /\ i = 2 * (i \div 2) + 1
        BY <1>2, <2>3
      <4> QED
        BY <4>1
    <3>2. ts[i] = "LITERAL"
      BY <1>1, <3>1
    <3> QED
      BY <2>1, <2>3, <3>2
  <2> QED
    BY <2>2, <2>3
<1>4. a \in 2..Len(ts) /\ Halts(a)
  BY <1>1, <1>2, <1>3
<1>5. ASSUME NEW j \in 2..Len(ts), Halts(j) PROVE j = a
  <2>1. CASE j < a
    <3>1. j \in 2..a - 1
      BY <1>2, <2>1
    <3>2. ts[j] # "ARROW" /\ Len(ts) - j >= 2
      BY <1>3, <3>1
    <3>3. ~ (Len(ts) - j < 2)
      BY <1>2, <3>2
    <3> QED
      BY <1>5, <3>2, <3>3
  <2>2. CASE j > a
    <3>1. a \in 2..(j - 1)
      BY <1>2, <2>2
    <3> QED
      BY <1>1, <1>5, <3>1
  <2> QED
    BY <1>2, <2>1, <2>2
<1>6. Stops(ts) = a
  <2>1. Stops(ts) = CHOOSE j \in 2..Len(ts) : Halts(j)
    BY DEF Stops
  <2> HIDE DEF Halts, a
  <2> QED
    BY <1>4, <1>5, <2>1
<1>7. ts # <<>>
  <2>1. Len(ts) # 0
    BY <1>1, <1>2
  <2> QED
    BY <2>1, EmptySeq
<1>8. Stops(ts) % 2 = 0 /\ ts[Stops(ts)] = "ARROW" /\ IsReturnType(ts[Stops(ts) + 1]) /\ Len(ts) >= 3
  BY <1>1, <1>2, <1>6
<1>9. \A i \in 2..(Stops(ts) - 1) : IF i % 2 = 0 THEN IsParameterType(ts[i]) ELSE ts[i] = "LITERAL"
  <2> HIDE DEF a, Halts
  <2> QED
    BY <1>3, <1>6
<1> QED
  BY <1>1, <1>7, <1>8, <1>9 DEF Declares

\* A definition or a condition starts behind the line before.
LEMMA OpenerAgrees ==
  ASSUME NEW p, WellMade(p), NEW g, Agree(p, g), g.awaits = "nothing", NEW k \in OpeningWords,
         OpenBlock(g, k).awaits # "correction"
  PROVE  LET h == OpenBlock(g, k)
         IN Agree(ParseOpener(p, k), h) /\ ParseOpener(p, k).tokens = p.tokens
            /\ h.line = <<>> /\ h.awaits = "nothing"
<1> DEFINE q == FinishLine(p)  h == OpenBlock(g, k)  r == ParseOpener(p, k)
           o == [keyword |-> k, items |-> <<>>]
<1>1. /\ p \in LexerRec /\ p.stack \in Seq(OpenRec) /\ p.blocks \in Seq(EntryRec) /\ p.line \in LineRec
      /\ p.line.popped <= Len(p.line.tokens) /\ p.status = "reading" /\ g \in GrammarRec
      /\ g.line = Left(p.line) /\ Stacked(p, g) /\ Shaped(g) /\ k \in {"fun", "if", "struct"}
  BY GrammarFields DEF WellMade, LexerRec, Popped, Agree, OpeningWords
<1>2. Wrong.awaits = "correction" /\ <<>> \in Seq(GrammarWords)
  BY DEF Wrong, Blank
<1>3. q \in LexerRec /\ q.status = "reading" /\ q.stack \in Seq(OpenRec)
  BY <1>1, FinishLineKeeps DEF Keeps, WellMade, LexerRec
<1>4. o \in OpenRec
  BY EmptySeq DEF OpenRec
<1>5. ASSUME q.stack # <<>> => Last(q.stack).keyword # "struct"
      PROVE  /\ r.stack = Append(q.stack, o) /\ r.tokens = q.tokens /\ r.blocks = q.blocks
             /\ r.line = q.line /\ r.status = "reading"
  <2>1. r = [q EXCEPT !.stack = Append(@, o)]
    BY <1>5 DEF ParseOpener
  <2> HIDE DEF q, r, o
  <2> QED
    BY <1>3, <2>1 DEF LexerRec
<1>6. CASE k = "if"
  <2>1. g.open # <<"struct">> /\ Plain(g.line) /\ h = [EndStatement(g) EXCEPT !.open = Append(@, k)]
    BY <1>2, <1>6 DEF OpenBlock
  <2> DEFINE m == EndStatement(g)
  <2>2. m.awaits # "correction"
    <3>1. Shaped(m)
      BY <1>1, StatementShaped
    <3> HIDE DEF m
    <3>2. h.awaits = m.awaits
      BY <2>1, <3>1 DEF Shaped, m
    <3> QED
      BY <3>2
  <2>3. /\ Agree(q, m) /\ q.tokens = p.tokens
        /\ m.line = <<>> /\ m.awaits = "nothing" /\ m.open = g.open
    BY <2>2, FinishAgrees
  <2>4. Stacked(q, m) /\ m \in GrammarRec /\ Shaped(m) /\ m.line = Left(q.line)
    BY <2>3, GrammarFields DEF Agree
  <2> HIDE DEF m, q
  <2>5. /\ Shaped(h) /\ h.line = <<>> /\ h.awaits = "nothing" /\ h.open = Append(g.open, "if")
        /\ h.members = m.members /\ h.items = m.items
    BY <1>6, <2>1, <2>3, <2>4 DEF Shaped, m
  <2> HIDE DEF h
  <2>6. q.stack # <<>> => Last(q.stack).keyword # "struct"
    <3>1. SUFFICES ASSUME q.stack # <<>>, Last(q.stack).keyword = "struct" PROVE FALSE
      OBVIOUS
    <3>2. Len(q.stack) = 1
      BY <1>3, <2>4, <3>1, OpenFirst
    <3>3. Last(q.stack) = q.stack[1]
      BY <1>3, <3>2, OneLong
    <3> QED
      BY <1>3, <2>1, <2>3, <2>4, <3>1, <3>3, OpenFirst
  <2>7. /\ r.stack = Append(q.stack, o) /\ r.tokens = q.tokens /\ r.blocks = q.blocks
        /\ r.line = q.line /\ r.status = "reading"
    BY <1>5, <2>6 DEF q
  <2> HIDE DEF r
  <2>8. Stacked(r, h) /\ h.open \in Seq(OpeningWords) /\ DefinedOutside(h.open)
    <3>1. r.stack = Append(q.stack, [keyword |-> "if", items |-> <<>>]) /\ m.open # <<"struct">>
          /\ h.open = Append(m.open, "if")
      BY <1>6, <2>1, <2>3, <2>5, <2>7
    <3> QED
      BY <1>3, <2>4, <2>5, <2>7, <3>1, IfOpened
  <2>9. h \in GrammarRec
    BY <1>2, <2>4, <2>5, <2>8, GrammarFields, GrammarType DEF Asked
  <2> QED
    BY <2>3, <2>4, <2>5, <2>7, <2>8, <2>9 DEF Agree, h, r, q
<1>7. CASE k \in {"fun", "struct"}
  <2>1. /\ g.open = <<>> /\ Announces(k, g.line) /\ g.line # <<>>
        /\ h = IF k = "fun" THEN [g EXCEPT !.line = <<>>, !.open = <<k>>]
               ELSE [g EXCEPT !.line = <<>>, !.open = <<k>>, !.members = FALSE]
    <3>1. k = "fun" => g.open = <<>> /\ Declaration(g.line) /\ h = [g EXCEPT !.line = <<>>, !.open = <<k>>]
      BY <1>2 DEF OpenBlock
    <3>2. k = "struct" => /\ g.open = <<>> /\ g.line = <<"STRUCT_NAME">>
                          /\ h = [g EXCEPT !.line = <<>>, !.open = <<k>>, !.members = FALSE]
      BY <1>2 DEF OpenBlock
    <3>3. Declaration(g.line) => g.line # <<>>
      BY <1>1, GrammarFields, DeclarationDeclares
    <3> HIDE DEF h
    <3> QED
      BY <1>7, <3>1, <3>2, <3>3 DEF Announces
  <2>2. /\ Shaped(h) /\ h.line = <<>> /\ h.awaits = "nothing" /\ h.open = <<k>> /\ h.items = g.items
        /\ h.members \in BOOLEAN /\ (k = "struct" => ~ h.members)
    <3>1. g.members \in BOOLEAN
      BY <1>1, GrammarFields
    <3>2. CASE k = "fun"
      BY <1>1, <2>1, <3>1, <3>2 DEF Shaped
    <3>3. CASE k = "struct"
      BY <1>1, <2>1, <3>1, <3>3 DEF Shaped
    <3> QED
      BY <1>7, <3>2, <3>3
  <2> HIDE DEF h
  <2> DEFINE x == Entry("line", p.line, {})  e == [p EXCEPT !.blocks = Append(@, x)]
  <2>3. p.stack = <<>>
    BY <1>1, <2>1, OpenFirst
  <2>4. q = [e EXCEPT !.line = NewLine]
    <3>1. ~ Empty(p.line)
      BY <1>1, <2>1, LeftOf
    <3> QED
      BY <2>3, <3>1 DEF FinishLine, Enqueue
  <2>5. x \in EntryRec /\ x.type = "line" /\ x.line = p.line
    BY <1>1 DEF EntryRec, Entry
  <2> HIDE DEF x, q
  <2>6. /\ q.blocks = Append(p.blocks, x) /\ q.stack = <<>> /\ q.line = NewLine
        /\ q.tokens = p.tokens
    BY <1>1, <2>3, <2>4 DEF LexerRec
  <2>7. /\ r.stack = Append(q.stack, o) /\ r.tokens = q.tokens /\ r.blocks = q.blocks
        /\ r.line = q.line /\ r.status = "reading"
    BY <1>5, <2>6 DEF q
  <2>8. r.stack = <<[keyword |-> k, items |-> <<>>]>> /\ r.blocks = Append(p.blocks, x)
    BY <2>6, <2>7
  <2> HIDE DEF r
  <2>9. Stacked(r, h) /\ h.open \in Seq(OpeningWords) /\ DefinedOutside(h.open)
    <3>1. Announces(k, Left(x.line))
      BY <1>1, <2>1, <2>5
    <3> QED
      BY <1>1, <1>7, <2>2, <2>3, <2>5, <2>8, <3>1, HeadOpened
  <2>10. Left(NewLine) = <<>>
    BY NewLineFacts, LeftOf, EmptySeq DEF NewLine, Empty
  <2>11. h \in GrammarRec
    BY <1>1, <1>2, <2>2, <2>9, GrammarFields, GrammarType DEF Asked
  <2> QED
    BY <2>2, <2>6, <2>7, <2>9, <2>10, <2>11 DEF Agree, h, r, q
<1> QED
  BY <1>1, <1>6, <1>7

\* A signature is made of the line, whose tokens are popped.
LEMMA SignatureAgrees ==
  ASSUME NEW p, WellMade(p), NEW g, Agree(p, g), g.awaits = "nothing", g.open = <<>>, Signs(g.line)
  PROVE  LET h == [Made(g, "signature") EXCEPT !.line = <<>>]
         IN /\ Agree(ParseFunctionSignature(p), h) /\ ParseFunctionSignature(p).tokens = p.tokens
            /\ h.line = <<>> /\ h.awaits = "nothing"
<1> DEFINE h == [Made(g, "signature") EXCEPT !.line = <<>>]
           r == ParseFunctionSignature(p)  x == Entry("signature", NewLine, {})
           m == [tokens |-> p.line.tokens, popped |-> Len(p.line.tokens)]
           e == [p EXCEPT !.blocks = Append(@, x)]
<1>1. /\ p \in LexerRec /\ p.line \in LineRec /\ p.line.popped <= Len(p.line.tokens)
      /\ p.line.tokens \in Seq(LineTokens) /\ p.status = "reading" /\ g \in GrammarRec
      /\ g.line = Left(p.line) /\ Stacked(p, g) /\ Left(p.line) \in Seq(LineTokens)
  BY LeftOf DEF WellMade, LexerRec, LineRec, Popped, Agree
<1>2. Len(Left(p.line)) >= 2 /\ Left(p.line)[1] = "LITERAL" /\ Left(p.line) # <<>> /\ Len(Left(p.line)) # 1
  <2>1. Len(Left(p.line)) \in Nat /\ Len(Left(p.line)) >= 2
    BY <1>1, SignedTokens
  <2>2. Left(p.line)[1] = "LITERAL"
    BY <1>1 DEF Signs
  <2>3. Len(Left(p.line)) # 0 /\ Len(Left(p.line)) # 1
    BY <2>1, TwoOrMore
  <2>4. Left(p.line) # <<>>
    BY <2>3, EmptySeq
  <2> QED
    BY <2>1, <2>2, <2>3, <2>4
<1>3. r = [p EXCEPT !.line.popped = Len(p.line.tokens), !.blocks = Append(@, x)]
  BY <1>1, <1>2 DEF ParseFunctionSignature, SignatureOf
<1>4. /\ r.line = m /\ r.blocks = Append(p.blocks, x) /\ r.stack = p.stack
      /\ r.tokens = p.tokens /\ r.status = p.status
  BY <1>1, <1>3 DEF LexerRec, LineRec
<1>5. p.stack = <<>>
  BY <1>1, OpenFirst
<1>6. x \in EntryRec /\ x.type = "signature"
  BY NewLineFacts DEF EntryRec, Entry
<1>7. LinesHere(x) = {}
  <2>1. Here(x) = {[type |-> "signature", line |-> NewLine]}
    BY DEF Entry, Here
  <2> QED
    BY <2>1 DEF LinesHere
<1> HIDE DEF x
<1>8. Enqueue(p, x) = e /\ e.blocks = r.blocks /\ e.stack = r.stack
  BY <1>1, <1>4, <1>5 DEF Enqueue, LexerRec
<1>9. Left(r.line) = <<>>
  <2>1. m \in LineRec /\ m.tokens = p.line.tokens /\ m.popped = Len(p.line.tokens)
    BY <1>1 DEF LineRec
  <2> HIDE DEF m
  <2>2. m.popped <= Len(m.tokens) /\ Empty(m)
    <3>1. Len(p.line.tokens) \in Nat
      BY <1>1
    <3> QED
      BY <2>1, <3>1 DEF Empty
  <2>3. Left(m) = <<>>
    BY <2>1, <2>2, LeftOf
  <2> QED
    BY <1>4, <2>3 DEF m
<1> HIDE DEF r, e
<1> DEFINE a == Made(g, "signature")
<1>10. /\ a \in GrammarRec /\ a.line = g.line /\ a.awaits = g.awaits
       /\ a.open = g.open /\ a.members = g.members /\ Shaped(a)
  BY <1>1, MadeIs, GrammarFields DEF Results
<1> HIDE DEF a
<1>11. /\ Shaped(h) /\ h.line = <<>> /\ h.awaits = a.awaits /\ h.open = a.open /\ h.items = a.items
       /\ h.members = a.members
  BY <1>10 DEF Shaped, a
<1> HIDE DEF h
<1>12. h \in GrammarRec
  <2>1. <<>> \in Seq(GrammarWords)
    OBVIOUS
  <2> QED
    BY <1>10, <1>11, <2>1, GrammarFields, GrammarType
<1>13. Stacked(e, h)
  <2>1. /\ h.open = g.open /\ h.items = Made(g, x.type).items
        /\ h.members => g.members \/ p.stack # <<>>
    BY <1>6, <1>10, <1>11 DEF a
  <2>2. /\ p.stack = <<>> => \A l \in LinesHere(x) : Readable(l)
        /\ p.stack # <<>> => \A l \in LinesHere(x) : Suits(Last(p.stack).keyword, l)
    BY <1>7
  <2>3. Stacked(Enqueue(p, x), h)
    BY <1>1, <1>6, <2>1, <2>2, EnqueueAgrees
  <2> QED
    BY <1>8, <2>3
<1>14. Stacked(r, h)
  BY <1>8, <1>13, StackedSame
<1> QED
  BY <1>1, <1>4, <1>9, <1>10, <1>11, <1>12, <1>14 DEF Agree, r, h

LEMMA LinesInside ==
  ASSUME NEW t, t # "line", NEW q \in Seq(EntryRec)
  PROVE  LinesHere(Entry(t, NewLine, Held(q))) = LinesOf(q)
<1> DEFINE d == [type |-> t, line |-> NewLine]
<1>1. Here(Entry(t, NewLine, Held(q))) = Held(q) \cup {d} /\ d.type # "line"
  BY DEF Here, Entry
<1> HIDE DEF d
<1> QED
  BY <1>1 DEF LinesHere, LinesOf

LEMMA LeftType == ASSUME NEW l \in LineRec PROVE Left(l) \in Seq(LineTokens)
<1>1. l.tokens \in Seq(LineTokens) /\ l.popped + 1 \in Nat /\ Len(l.tokens) \in Nat
  BY DEF LineRec
<1>2. \A i \in l.popped + 1..Len(l.tokens) : l.tokens[i] \in LineTokens
  BY <1>1 DEF LineRec
<1> QED
  BY <1>1, <1>2, SubSeqProperties DEF Left, LineRec

\* The block that ends is the one the closer asks for.
LEMMA CloserAgrees ==
  ASSUME NEW p, WellMade(p), NEW g, Agree(p, g), g.awaits = "nothing", NEW k \in Closers,
         CloseBlock(g, k).awaits # "correction"
  PROVE  LET h == CloseBlock(g, k)
         IN Agree(ParseCloser(p, k), h) /\ ParseCloser(p, k).tokens = p.tokens
            /\ h.line = <<>> /\ h.awaits = "nothing"
<1> DEFINE h == CloseBlock(g, k)  r == ParseCloser(p, k)  b == Last(p.stack)
           q == [p EXCEPT !.stack = Front(@)]  f == [q EXCEPT !.blocks = Front(@)]
           around == [g EXCEPT !.open = Front(@)]
<1>1. /\ p \in LexerRec /\ p.stack \in Seq(OpenRec) /\ p.blocks \in Seq(EntryRec) /\ p.line \in LineRec
      /\ p.status = "reading" /\ g \in GrammarRec /\ g.open \in Seq(OpeningWords)
      /\ g.line = Left(p.line) /\ Stacked(p, g) /\ Shaped(g)
  BY GrammarFields DEF WellMade, LexerRec, Agree
<1>2. Wrong.awaits = "correction" /\ <<>> \in Seq(GrammarWords)
  BY DEF Wrong, Blank
<1>3. /\ g.line = <<>> /\ g.open # <<>> /\ CloserOf[Last(g.open)] = k
      /\ h = CASE k = "nuf" -> Made(around, "function")
               [] k = "fi"  -> Made(around, "code")
               [] k = "tcurts" -> IF g.members THEN around ELSE Wrong
  BY <1>2 DEF CloseBlock
<1>4. p.stack # <<>> /\ b.keyword = Last(g.open) /\ b \in OpenRec
  BY <1>1, <1>3, OpenFirst
<1>5. b.items \in Seq(EntryRec) /\ b.keyword \in {"fun", "if", "struct"}
  BY <1>4 DEF OpenRec, OpeningWords
<1>6. /\ q \in LexerRec /\ q.tokens = p.tokens /\ q.line = p.line /\ q.blocks = p.blocks
      /\ q.status = p.status /\ q.stack = Front(p.stack)
  <2>1. q.stack = Front(p.stack)
    BY <1>1 DEF LexerRec
  <2> QED
    BY <1>4, <2>1, StackPopped
<1>7. /\ Shaped(around) /\ around.line = <<>> /\ around.awaits = "nothing"
      /\ around.open = Front(g.open) /\ around.items = g.items /\ around.members = g.members
  BY <1>1, <1>3 DEF Shaped
<1>8. r = CASE b.keyword = "fun"    -> MakeFunction(q, b)
            [] b.keyword = "struct" -> ParseStruct(q, b)
            [] b.keyword = "if"     -> Enqueue(q, Entry("code", NewLine, Held(b.items)))
  BY <1>3, <1>4 DEF ParseCloser
<1>9. \A l \in LinesOf(b.items) : Suits(b.keyword, l)
  <2>1. b = p.stack[Len(p.stack)] /\ Len(p.stack) \in Nat /\ Len(p.stack) >= 1
    BY <1>1, <1>4, Shortened
  <2>2. Len(p.stack) \in 1..Len(p.stack)
    BY <2>1, OneOrMore
  <2> QED
    BY <1>1, <2>1, <2>2 DEF Stacked
<1>10. ASSUME around \in GrammarRec, NEW t \in Results
       PROVE  /\ Made(around, t) \in GrammarRec /\ Made(around, t).line = <<>>
              /\ Made(around, t).awaits = "nothing" /\ Made(around, t).open = around.open
              /\ Made(around, t).members = around.members
  BY <1>7, <1>10, MadeIs
<1>11. f \in LexerRec \/ ~ (p.blocks # <<>> /\ Last(p.blocks).type = "line")
  BY <1>6, LineTaken
<1>12. /\ f.tokens = p.tokens /\ f.line = p.line /\ f.blocks = Front(p.blocks)
       /\ f.status = p.status /\ f.stack = Front(p.stack)
  BY <1>6 DEF LexerRec
<1> HIDE DEF h, r, q, around, b, f
<1>13. CASE b.keyword = "if"
  <2> DEFINE x == Entry("code", NewLine, Held(b.items))
  <2>1. k = "fi" /\ h = Made(around, "code") /\ r = Enqueue(q, x)
    <3>1. k = "fi"
      BY <1>3, <1>4, <1>13 DEF CloserOf, OpeningWords
    <3> QED
      BY <1>3, <1>8, <1>13, <3>1
  <2>2. x \in EntryRec /\ x.type = "code"
    BY <1>5, HeldType, NewLineFacts DEF EntryRec, Entry
  <2>3. LinesHere(x) = LinesOf(b.items)
    BY <1>5, LinesInside
  <2> HIDE DEF x
  <2>4. /\ Stacked(q, around) /\ around.open \in Seq(OpeningWords) /\ DefinedOutside(around.open)
        /\ q.stack # <<>> => Last(q.stack).keyword # "struct"
    BY <1>1, <1>4, <1>6, <1>7, <1>13, BlockClosed DEF b
  <2>5. around \in GrammarRec
    BY <1>1, <1>2, <1>7, <2>4, GrammarFields, GrammarType DEF Asked
  <2>6. /\ h \in GrammarRec /\ h.line = <<>> /\ h.awaits = "nothing" /\ h.open = around.open
        /\ h.members = around.members
    BY <1>10, <2>1, <2>5 DEF Results
  <2>7. \A l \in LinesHere(x) : Readable(l)
    BY <1>9, <1>13, <2>3 DEF Suits
  <2>8. /\ q.stack = <<>> => \A l \in LinesHere(x) : Readable(l)
        /\ q.stack # <<>> => \A l \in LinesHere(x) : Suits(Last(q.stack).keyword, l)
    BY <2>4, <2>7 DEF Suits
  <2>9. r.line = q.line /\ r.tokens = q.tokens /\ r.status = q.status /\ Stacked(r, h)
    <3>1. /\ h.items = Made(around, x.type).items
          /\ h.members => around.members \/ q.stack # <<>>
      BY <2>1, <2>2, <2>6
    <3> QED
      BY <1>6, <2>1, <2>2, <2>4, <2>5, <2>6, <2>8, <3>1, EnqueueAgrees
  <2> QED
    BY <1>1, <1>3, <1>6, <2>6, <2>9 DEF Agree, h, r
<1>14. CASE b.keyword # "if"
  <2>1. Len(p.stack) = 1 /\ p.stack[1] = b /\ Front(p.stack) = <<>> /\ Front(g.open) = <<>>
    <3>1. Len(p.stack) = 1
      BY <1>1, <1>4, <1>14, OpenFirst DEF b
    <3>2. Len(g.open) = 1
      BY <1>1, <3>1 DEF Stacked
    <3>3. p.stack[1] = b /\ Front(p.stack) = <<>>
      BY <1>1, <3>1, OneLong DEF b
    <3>4. Front(g.open) = <<>>
      BY <1>1, <3>2, OneLong
    <3> QED
      BY <3>1, <3>3, <3>4
  <2>2. Defines(p.stack)
    BY <1>4, <1>14, <2>1 DEF Defines
  <2>3. /\ p.blocks # <<>> /\ Last(p.blocks).type = "line"
        /\ Announces(b.keyword, Left(Last(p.blocks).line))
        /\ b.keyword = "struct" /\ g.members => b.items # <<>>
    BY <1>1, <2>1, <2>2 DEF Stacked
  <2>4. Stacked(f, around) /\ f \in LexerRec
    BY <1>1, <1>7, <1>11, <1>12, <2>1, <2>2, <2>3, HeadTaken
  <2>5. around \in GrammarRec
    <3>1. DefinedOutside(<<>>) /\ <<>> \in Seq(OpeningWords)
      BY DEF DefinedOutside
    <3> QED
      BY <1>1, <1>2, <1>7, <2>1, <3>1, GrammarFields, GrammarType DEF Asked
  <2>6. CASE b.keyword = "fun"
    <3> DEFINE x == Entry("function", NewLine, Held(b.items))
    <3>1. k = "nuf" /\ h = Made(around, "function") /\ r = MakeFunction(q, b)
      <4>1. k = "nuf"
        BY <1>3, <1>4, <2>6 DEF CloserOf, OpeningWords
      <4> QED
        BY <1>3, <1>8, <2>6, <4>1
    <3>2. Declares(Left(Last(p.blocks).line))
      <4>1. Last(p.blocks).line \in LineRec
        BY <1>1, <2>3, FrontLast DEF EntryRec
      <4>2. Left(Last(p.blocks).line) \in Seq(LineTokens)
        BY <4>1, LeftType
      <4>3. Declaration(Left(Last(p.blocks).line))
        BY <2>3, <2>6 DEF Announces
      <4> QED
        BY <4>2, <4>3, DeclarationDeclares
    <3>3. r = Enqueue(f, x)
      BY <1>6, <2>3, <3>1, <3>2 DEF MakeFunction, f
    <3>4. x \in EntryRec /\ x.type = "function"
      BY <1>5, HeldType, NewLineFacts DEF EntryRec, Entry
    <3>5. LinesHere(x) = LinesOf(b.items)
      BY <1>5, LinesInside
    <3> HIDE DEF x
    <3>6. /\ h \in GrammarRec /\ h.line = <<>> /\ h.awaits = "nothing" /\ h.open = around.open
          /\ h.members = around.members
      BY <1>10, <2>5, <3>1 DEF Results
    <3>7. /\ f.stack = <<>> => \A l \in LinesHere(x) : Readable(l)
          /\ f.stack # <<>> => \A l \in LinesHere(x) : Suits(Last(f.stack).keyword, l)
      BY <1>9, <1>12, <2>1, <2>6, <3>5 DEF Suits
    <3>8. r.line = f.line /\ r.tokens = f.tokens /\ r.status = f.status /\ Stacked(r, h)
      <4>1. /\ h.items = Made(around, x.type).items
            /\ h.members => around.members \/ f.stack # <<>>
        BY <3>1, <3>4, <3>6
      <4> QED
        BY <2>4, <2>5, <3>3, <3>4, <3>6, <3>7, <4>1, EnqueueAgrees
    <3> QED
      BY <1>1, <1>3, <1>12, <3>6, <3>8 DEF Agree, h, r
  <2>7. CASE b.keyword = "struct"
    <3>1. k = "tcurts" /\ g.members /\ h = around /\ r = ParseStruct(q, b)
      <4>1. k = "tcurts"
        BY <1>3, <1>4, <2>7 DEF CloserOf, OpeningWords
      <4>2. r = ParseStruct(q, b)
        BY <1>8, <2>7
      <4>3. h = IF g.members THEN around ELSE Wrong
        BY <1>3, <4>1
      <4>4. h.awaits # "correction"
        BY DEF h
      <4> QED
        BY <1>2, <4>1, <4>2, <4>3, <4>4
    <3>2. /\ Left(Last(q.blocks).line) = <<"STRUCT_NAME">> /\ b.items # <<>>
          /\ \A l \in LinesOf(b.items) : Left(l) = Member
      BY <1>6, <1>9, <2>3, <2>7, <3>1 DEF Announces, Suits
    <3>3. r = f
      BY <1>6, <2>3, <3>1, <3>2 DEF ParseStruct, f, Member
    <3> QED
      BY <1>1, <1>3, <1>7, <1>12, <2>4, <2>5, <3>1, <3>3 DEF Agree, h, r
  <2> QED
    BY <1>5, <1>14, <2>6, <2>7
<1> QED
  BY <1>13, <1>14

-----------------------------------------------------------------------------
(* Names behind dots and arrows *)

LEMMA AtRead ==
  ASSUME NEW w \in Seq(Kinds), NEW p \in LexerRec, NEW i, At(p.tokens, w, i), NEW m \in 0..Len(p.tokens)
  PROVE  /\ Read(p, m) \in LexerRec /\ Read(p, m).line = p.line /\ Read(p, m).blocks = p.blocks
         /\ Read(p, m).stack = p.stack /\ Read(p, m).status = p.status
         /\ At(Read(p, m).tokens, w, i + m)
<1> DEFINE q == Read(p, m)  ts == p.tokens
<1>1. ts \in Seq(Kinds) /\ Len(ts) \in Nat /\ Len(w) \in Nat /\ i \in 0..Len(w) /\ Len(ts) = Len(w) - i
      /\ \A j \in 1..Len(w) - i : ts[j] = w[i + j]
  BY DEF LexerRec, At
<1>2. /\ q.tokens = SubSeq(ts, m + 1, Len(ts)) /\ q.line = p.line
      /\ q.blocks = p.blocks /\ q.stack = p.stack /\ q.status = p.status
  BY DEF Read, LexerRec
<1>3. /\ q.tokens \in Seq(Kinds) /\ Len(q.tokens) = Len(ts) - m
      /\ \A j \in 1..Len(ts) - m : q.tokens[j] = ts[m + j]
  BY <1>1, <1>2, LeftBehind
<1>4. q \in LexerRec
  BY <1>3 DEF Read, LexerRec
<1> HIDE DEF q, ts
<1>5. i + m \in 0..Len(w) /\ Len(q.tokens) = Len(w) - (i + m)
  BY <1>1, <1>3
<1>6. ASSUME NEW j \in 1..Len(w) - (i + m) PROVE q.tokens[j] = w[i + m + j]
  <2>1. j \in 1..Len(ts) - m /\ m + j \in 1..Len(w) - i /\ i + (m + j) = i + m + j
    BY <1>1
  <2> QED
    BY <1>1, <1>3, <2>1
<1> QED
  BY <1>2, <1>4, <1>5, <1>6 DEF At, q

LEMMA AheadIs ==
  ASSUME NEW w \in Seq(Kinds), NEW p \in LexerRec, NEW i, At(p.tokens, w, i), NEW j \in Nat \ {0}
  PROVE  /\ i + j <= Len(w) => Ahead(p, j) = w[i + j] /\ i + j \in 1..Len(w) /\ j \in 1..Len(p.tokens)
         /\ i + j > Len(w) => Ahead(p, j) = "nothing"
<1>1. p.tokens \in Seq(Kinds) /\ Len(p.tokens) \in Nat /\ Len(w) \in Nat /\ i \in 0..Len(w)
      /\ DOMAIN p.tokens = 1..Len(p.tokens) /\ Len(p.tokens) = Len(w) - i
      /\ \A k \in 1..Len(w) - i : p.tokens[k] = w[i + k]
  BY DEF LexerRec, At
<1> QED
  BY <1>1 DEF Ahead

\* The last word is joined to a name.
Joins(g, h) ==
  /\ h \in GrammarRec /\ h.line = [g.line EXCEPT ![Len(g.line)] = Joined[@]] /\ h.awaits = "nothing"
  /\ h.open = g.open /\ h.members = g.members /\ h.items = g.items

Joinable(sep) == IF sep = "dot" THEN Named ELSE {"ACCESS"}

LEMMA JoinedAgain ==
  /\ Named \cup {"ACCESS"} \subseteq GrammarWords
  /\ \A c \in Named \cup {"ACCESS"} : c \in DOMAIN Joined /\ Joined[c] \in GrammarWords /\ Joined[Joined[c]] = Joined[c]
  /\ \A sep : \A c \in Joinable(sep) : Joined[c] \in Joinable(sep) /\ c \in Named \cup {"ACCESS"}
  BY DEF Joined, Named, Joinable, GrammarWords

\* The line with its last word c joined.
LastJoined(g, c, u) ==
  /\ u \in Seq(GrammarWords) /\ Len(u) = Len(g.line) /\ Len(u) \in Nat /\ Len(u) >= 1 /\ u # <<>>
  /\ g.line[Len(g.line)] = c /\ u[Len(u)] = Joined[c] /\ \A i \in 1..Len(u) : i # Len(u) => u[i] = g.line[i]

LEMMA JoinedLast ==
  ASSUME NEW g \in GrammarRec, NEW c \in Named \cup {"ACCESS"}, LastWord(g) = c,
         NEW u, u = [g.line EXCEPT ![Len(g.line)] = Joined[@]]
  PROVE  LastJoined(g, c, u)
<1>1. g.line \in Seq(GrammarWords) /\ Len(g.line) \in Nat
  BY GrammarFields
<1>2. g.line # <<>> /\ g.line[Len(g.line)] = c
  <2>1. c # "none"
    BY DEF Named
  <2> QED
    BY <2>1 DEF LastWord
<1>3. Len(g.line) >= 1 /\ Len(g.line) \in 1..Len(g.line)
  <2>1. Len(g.line) >= 1
    BY <1>1, <1>2, EmptySeq
  <2> QED
    BY <1>1, <2>1, OneOrMore
<1>4. u = [g.line EXCEPT ![Len(g.line)] = Joined[c]] /\ Joined[c] \in GrammarWords
  BY <1>2, JoinedAgain
<1>5. /\ u \in Seq(GrammarWords) /\ Len(u) = Len(g.line) /\ u[Len(g.line)] = Joined[c]
      /\ \A i \in 1..Len(g.line) : i # Len(g.line) => u[i] = g.line[i]
  BY <1>1, <1>3, <1>4, ExceptSeq
<1>6. u # <<>>
  <2>1. Len(u) # 0
    BY <1>1, <1>3, <1>5
  <2> QED
    BY <2>1, EmptySeq
<1> QED
  BY <1>1, <1>2, <1>3, <1>5, <1>6 DEF LastJoined

LEMMA JoinsOnce ==
  ASSUME NEW g \in GrammarRec, NEW c \in Named \cup {"ACCESS"}, LastWord(g) = c, NEW h, Joins(g, h)
  PROVE  LastWord(h) = Joined[c] /\ \A k : Joins(h, k) => Joins(g, k)
<1> DEFINE u == [g.line EXCEPT ![Len(g.line)] = Joined[@]]
<1>1. /\ h \in GrammarRec /\ h.line = u
  BY DEF Joins
<1>2. LastJoined(g, c, u)
  BY JoinedLast
<1> HIDE DEF u
<1>3. LastWord(h) = Joined[c]
  BY <1>1, <1>2 DEF LastJoined, LastWord
<1>4. [u EXCEPT ![Len(u)] = Joined[@]] = u
  <2>1. Joined[u[Len(u)]] = u[Len(u)]
    BY <1>2, JoinedAgain DEF LastJoined
  <2>2. [u EXCEPT ![Len(u)] = u[Len(u)]] = u
    BY <1>2 DEF LastJoined
  <2> QED
    BY <2>1, <2>2
<1>5. ASSUME NEW k, Joins(h, k) PROVE Joins(g, k)
  BY <1>1, <1>4, <1>5 DEF Joins, u
<1> QED
  BY <1>3, <1>5

LEMMA Along1 ==
  ASSUME NEW w \in Seq(Kinds), NEW r, Along(w, r), NEW j \in 0..Len(w), j + 1 <= Len(w)
  PROVE  /\ r[j + 1] = Understand(r[j], w[j + 1]) /\ r[j + 1].awaits # "correction"
         /\ w[j + 1] \in Kinds /\ j + 1 \in 0..Len(w)
<1>1. j + 1 \in 1..Len(w) /\ (j + 1) - 1 = j /\ Len(w) \in Nat
  OBVIOUS
<1>2. w[j + 1] \in Kinds
  BY <1>1
<1> QED
  BY <1>1, <1>2 DEF Along

\* A dot or an arrow behind a name has a name behind it.
LEMMA NameFollows ==
  ASSUME NEW w \in Seq(Kinds), NEW r, Along(w, r), NEW j \in 0..Len(w), j + 1 <= Len(w),
         r[j] \in GrammarRec, r[j].awaits = "nothing", NEW sep \in {"dot", "arrow"}, w[j + 1] = sep,
         LastWord(r[j]) \in Joinable(sep)
  PROVE  /\ j + 2 <= Len(w) /\ j + 2 \in 0..Len(w) /\ w[j + 2] = "literal" /\ Joins(r[j], r[j + 2])
         /\ LastWord(r[j + 2]) \in Joinable(sep)
<1> DEFINE g == r[j]  a == Await(g, "name")
<1>1. r[j + 1] = Understand(g, sep) /\ j + 1 \in 0..Len(w) /\ Len(w) \in Nat /\ Shaped(g)
  BY Along1, GrammarFields
<1>2. r[j + 1] = a
  <2>1. Understand(g, sep) = Begin(g, sep)
    BY DEF Understand
  <2>2. sep = "dot" => LastWord(g) \in {"LITERAL", "PATH", "CALL", "MODULE_CALL"}
    BY DEF Joinable, Named
  <2>3. sep = "arrow" => LastWord(g) = "ACCESS"
    BY DEF Joinable
  <2>4. sep \notin OpeningWords /\ sep \notin Closers /\ sep \notin {"eol", "funsig", "return", "list", "colon"}
    BY DEF OpeningWords, Closers, CloserOf
  <2>5. CASE sep = "dot"
    BY <1>1, <2>1, <2>2, <2>4, <2>5 DEF Begin
  <2>6. CASE sep = "arrow"
    BY <1>1, <2>1, <2>3, <2>4, <2>6 DEF Begin
  <2> QED
    BY <2>5, <2>6
<1>3. a.awaits = "name" /\ a.line = g.line
  BY <1>1 DEF Await, Shaped
<1>4. j + 1 # Len(w)
  BY <1>2, <1>3 DEF Along
<1>5. (j + 1) + 1 <= Len(w) /\ (j + 1) + 1 = j + 2 /\ j + 2 \in 0..Len(w)
  BY <1>1, <1>4
<1>6. r[j + 2] = Understand(a, w[j + 2]) /\ r[j + 2].awaits # "correction" /\ w[j + 2] \in Kinds
  BY <1>1, <1>2, <1>5, Along1
<1> HIDE DEF a
<1>7. w[j + 2] = "literal"
  <2>1. Wrong.awaits = "correction"
    BY DEF Wrong, Blank
  <2>2. w[j + 2] # "literal" => Understand(a, w[j + 2]) = Wrong
    BY <1>3 DEF Understand
  <2> QED
    BY <1>6, <2>1, <2>2
<1>8. r[j + 2] = [a EXCEPT !.line[Len(a.line)] = Joined[@], !.awaits = "nothing"]
  BY <1>3, <1>6, <1>7 DEF Understand
<1> DEFINE u == [g.line EXCEPT ![Len(g.line)] = Joined[@]]
<1>9. /\ Shaped(r[j + 2]) /\ r[j + 2].line = u /\ r[j + 2].awaits = "nothing" /\ r[j + 2].open = g.open
      /\ r[j + 2].members = g.members /\ r[j + 2].items = g.items
  BY <1>1, <1>8 DEF Shaped, a, Await
<1>10. LastWord(g) \in Named \cup {"ACCESS"} /\ Joined[LastWord(g)] \in Joinable(sep)
  BY JoinedAgain
<1>11. u \in Seq(GrammarWords)
  <2>1. LastJoined(g, LastWord(g), u)
    BY <1>10, JoinedLast
  <2> QED
    BY <2>1 DEF LastJoined
<1> HIDE DEF u
<1>12. r[j + 2] \in GrammarRec
  BY <1>9, <1>11, GrammarFields, GrammarType DEF Asked
<1>13. Joins(r[j], r[j + 2])
  BY <1>9, <1>12 DEF Joins, u
<1>14. LastWord(r[j + 2]) = Joined[LastWord(g)]
  BY <1>10, <1>13, JoinsOnce
<1> QED
  BY <1>5, <1>7, <1>10, <1>13, <1>14

\* The pairs of a path or of an access are those the grammar joins.
LEMMA ChainFollows ==
  ASSUME NEW w \in Seq(Kinds), NEW r, Along(w, r), NEW q \in LexerRec, NEW j, At(q.tokens, w, j),
         r[j] \in GrammarRec, r[j].awaits = "nothing", NEW sep \in {"dot", "arrow"},
         LastWord(r[j]) \in Joinable(sep)
  PROVE  LET m == Pairs(q, sep)
         IN /\ m \in Nat /\ 2 * m \in 0..Len(q.tokens) /\ j + 2 * m \in 0..Len(w)
            /\ Ahead(q, 2 * m + 1) # sep
            /\ m = 0 \/ Joins(r[j], r[j + 2 * m])
            /\ r[j + 2 * m] \in GrammarRec /\ r[j + 2 * m].awaits = "nothing"
            /\ LastWord(r[j + 2 * m]) \in Joinable(sep)
<1> DEFINE m == Pairs(q, sep)
           G(c) == /\ j + 2 * c \in 0..Len(w) /\ r[j + 2 * c] \in GrammarRec
                   /\ r[j + 2 * c].awaits = "nothing" /\ LastWord(r[j + 2 * c]) \in Joinable(sep)
                   /\ c = 0 \/ Joins(r[j], r[j + 2 * c])
           P == {c \in 0..m : G(c)}
<1>1. /\ m \in Nat /\ 2 * m \in 0..Len(q.tokens)
      /\ \A i \in 1..m : Ahead(q, 2 * i - 1) = sep /\ IsLiteral(Ahead(q, 2 * i))
      /\ ~(Ahead(q, 2 * m + 1) = sep /\ IsLiteral(Ahead(q, 2 * m + 2)))
  BY PairsRead
<1>2. j \in 0..Len(w) /\ Len(w) \in Nat /\ sep # "nothing"
  BY DEF At
<1>3. \A i \in Nat \ {0} : Ahead(q, i) = sep => Ahead(q, i) = w[j + i] /\ j + i <= Len(w)
  <2>1. ASSUME NEW i \in Nat \ {0}
        PROVE  /\ j + i <= Len(w) => Ahead(q, i) = w[j + i]
               /\ j + i > Len(w) => Ahead(q, i) = "nothing"
    BY <2>1, AheadIs
  <2> QED
    BY <1>2, <2>1
<1>4. LastWord(r[j]) \in Named \cup {"ACCESS"}
  BY JoinedAgain
<1> HIDE DEF m
<1>5. 0 \in P
  <2>1. j + 2 * 0 = j
    BY <1>2
  <2> QED
    BY <1>1, <1>2, <2>1
<1>6. ASSUME NEW c \in Nat, G(c), Ahead(q, 2 * c + 1) = sep
      PROVE  /\ G(c + 1) /\ IsLiteral(Ahead(q, 2 * c + 2))
  <2>1. 2 * c + 1 \in Nat \ {0} /\ 2 * c + 2 \in Nat \ {0} /\ j + (2 * c + 1) = (j + 2 * c) + 1
        /\ j + (2 * c + 2) = (j + 2 * c) + 2 /\ j + 2 * (c + 1) = (j + 2 * c) + 2
        /\ c + 1 # 0
    BY <1>2
  <2> DEFINE k == j + 2 * c
  <2>2. k \in 0..Len(w) /\ k + 1 <= Len(w) /\ w[k + 1] = sep
    BY <1>3, <1>6, <2>1
  <2> HIDE DEF k
  <2>3. r[k] \in GrammarRec /\ r[k].awaits = "nothing" /\ LastWord(r[k]) \in Joinable(sep)
    BY <1>6 DEF k
  <2>4. /\ k + 2 <= Len(w) /\ k + 2 \in 0..Len(w) /\ w[k + 2] = "literal" /\ Joins(r[k], r[k + 2])
        /\ LastWord(r[k + 2]) \in Joinable(sep)
    BY <2>2, <2>3, NameFollows
  <2>5. Joins(r[j], r[k + 2])
    <3>1. CASE c = 0
      <4>1. k = j
        BY <1>2, <3>1 DEF k
      <4> QED
        BY <2>4, <4>1
    <3>2. CASE Joins(r[j], r[k])
      BY <1>4, <2>4, <3>2, JoinsOnce
    <3> QED
      BY <1>6, <3>1, <3>2 DEF k
  <2>6. r[k + 2] \in GrammarRec /\ r[k + 2].awaits = "nothing"
    BY <2>4 DEF Joins
  <2>7. Ahead(q, 2 * c + 2) = "literal"
    <3>1. j + (2 * c + 2) <= Len(w) => Ahead(q, 2 * c + 2) = w[j + (2 * c + 2)]
      BY <2>1, AheadIs
    <3> QED
      BY <2>1, <2>4, <3>1 DEF k
  <2>8. j + 2 * (c + 1) = k + 2
    BY <2>1 DEF k
  <2> QED
    BY <2>4, <2>5, <2>6, <2>7, <2>8 DEF IsLiteral
<1>7. ASSUME NEW c \in 0..m - 1, c \in P PROVE c + 1 \in P
  <2>1. c \in Nat /\ c + 1 \in 1..m /\ c + 1 \in 0..m /\ 2 * (c + 1) - 1 = 2 * c + 1
    BY <1>1
  <2>2. G(c) /\ Ahead(q, 2 * c + 1) = sep
    BY <1>1, <1>7, <2>1
  <2> HIDE DEF G
  <2>3. G(c + 1)
    BY <1>6, <2>1, <2>2
  <2> QED
    BY <2>1, <2>3
<1>8. G(m)
  <2> HIDE DEF G, P
  <2>1. \A c \in 0..m : c \in P
    BY <1>1, <1>5, <1>7, InductTo
  <2>2. m \in P
    BY <1>1, <2>1
  <2> QED
    BY <2>2 DEF P
<1>9. Ahead(q, 2 * m + 1) # sep
  <2> HIDE DEF G
  <2> QED
    BY <1>1, <1>6, <1>8
<1> QED
  BY <1>1, <1>8, <1>9 DEF m

\* A name joined is a name made so.
LEMMA JoinsMade ==
  ASSUME NEW g \in GrammarRec, NEW c \in Named \cup {"ACCESS", "ARROW"}, NEW h,
         h.line = [AddWord(g, c).line EXCEPT ![Len(AddWord(g, c).line)] = Joined[@]]
  PROVE  h.line = AddWord(g, Joined[c]).line /\ Joined[c] \in GrammarWords
<1>1. c \in GrammarWords /\ Joined[c] \in GrammarWords
  BY DEF Joined, Named, GrammarWords
<1> DEFINE a == AddWord(g, c).line
<1>2. a = Append(g.line, c) /\ AddWord(g, Joined[c]).line = Append(g.line, Joined[c])
  BY <1>1, AddWordIs
<1>3. g.line \in Seq(GrammarWords)
  BY GrammarFields
<1>4. Len(a) = Len(g.line) + 1 /\ a[Len(g.line) + 1] = c
  BY <1>1, <1>2, <1>3, Appended
<1> HIDE DEF a
<1>5. h.line = [a EXCEPT ![Len(g.line) + 1] = Joined[c]]
  <2>1. h.line = [a EXCEPT ![Len(a)] = Joined[@]]
    BY DEF a
  <2> QED
    BY <1>4, <2>1
<1>6. [Append(g.line, c) EXCEPT ![Len(g.line) + 1] = Joined[c]] = Append(g.line, Joined[c])
  <2>1. Replaces(g.line, c, Joined[c])
    BY <1>1, <1>3, LastReplaced
  <2> QED
    BY <2>1 DEF Replaces
<1> QED
  BY <1>1, <1>2, <1>5, <1>6

\* What agrees does so with any record of the same line, blocks and members.
LEMMA AgreeSame ==
  ASSUME NEW p, NEW g, Agree(p, g), NEW h \in GrammarRec, h.line = g.line, h.open = g.open,
         h.members = g.members, h.items = g.items
  PROVE  Agree(p, h)
BY StackedSame DEF Agree

LEMMA AgreeRead ==
  ASSUME NEW p, NEW g, Agree(p, g), NEW q, q.line = p.line, q.blocks = p.blocks, q.stack = p.stack,
         q.status = p.status
  PROVE  Agree(q, g)
BY StackedSame DEF Agree

-----------------------------------------------------------------------------
(* Rounds of the loop along the grammar *)

\* The lexer has read the token k of the program, which begins anew in the
\* grammar, and no name follows that the grammar would join.
Meets(p, w, r, i, g, k) ==
  /\ w \in Seq(Kinds) /\ Along(w, r) /\ WellMade(p) /\ i \in 1..Len(w) /\ At(p.tokens, w, i)
  /\ Agree(p, g) /\ g.awaits = "nothing" /\ k = w[i] /\ r[i] = Begin(g, k)
  /\ k = "dot" => LastWord(g) \notin Named
  /\ k = "arrow" => LastWord(g) # "ACCESS"

LEMMA MeetsFacts ==
  ASSUME NEW p, NEW w, NEW r, NEW i, NEW g, NEW k, Meets(p, w, r, i, g, k)
  PROVE  /\ p \in LexerRec /\ p.line \in LineRec /\ p.line.popped <= Len(p.line.tokens)
         /\ g \in GrammarRec /\ k \in Kinds /\ i \in 0..Len(w) /\ Len(w) \in Nat
         /\ r[i].awaits # "correction" /\ r[i] # Wrong
<1>1. p \in LexerRec /\ Popped(p.line, Cardinality(SignaturesIn(p.blocks)))
  BY DEF Meets, WellMade
<1>2. p.line \in LineRec /\ p.line.popped <= Len(p.line.tokens)
  BY <1>1 DEF Popped, LexerRec
<1>3. Len(w) \in Nat /\ i \in 0..Len(w) /\ k \in Kinds
  BY DEF Meets
<1>4. r[i].awaits # "correction" /\ Wrong.awaits = "correction"
  BY DEF Meets, Along, Wrong, Blank
<1> QED
  BY <1>1, <1>2, <1>3, <1>4 DEF Meets, Agree

LEMMA BeginIs ==
  ASSUME NEW g, NEW k \in Kinds
  PROVE  /\ k = "eol" => Begin(g, k) = EndStatement(g)
         /\ k = "funsig" => Begin(g, k) = IF g.open = <<>> /\ Signs(g.line)
                                          THEN [Made(g, "signature") EXCEPT !.line = <<>>] ELSE Wrong
         /\ k \in OpeningWords => Begin(g, k) = OpenBlock(g, k)
         /\ k \in Closers => Begin(g, k) = CloseBlock(g, k)
         /\ k = "return" => Begin(g, k) = IF "fun" \in {g.open[i] : i \in DOMAIN g.open}
                                          THEN AddWord(g, "KEYWORD") ELSE Wrong
         /\ k = "list" => Begin(g, k) = Await(g, "of")
         /\ k = "colon" => Begin(g, k) = Await(g, "function")
         /\ k = "dot" => Begin(g, k) = IF LastWord(g) \in Named THEN Await(g, "name") ELSE Wrong
         /\ k = "arrow" /\ LastWord(g) # "ACCESS" => Begin(g, k) = Await(AddWord(g, "ARROW"), "member")
         /\ k \in {"BRACKET_OPEN", "BRACKET_CLOSE"} => Begin(g, k) = Wrong
<1>1. /\ OpeningWords = {"fun", "if", "struct"} /\ Closers = {"nuf", "fi", "tcurts"}
      /\ WordOf["return"] = "KEYWORD"
  BY DEF OpeningWords, Closers, CloserOf, WordOf
<1>2. k \in OpeningWords => Begin(g, k) = OpenBlock(g, k)
  BY <1>1 DEF Begin
<1>3. k \in Closers => Begin(g, k) = CloseBlock(g, k)
  BY <1>1 DEF Begin
<1>4. k = "return" => Begin(g, k) = IF "fun" \in {g.open[i] : i \in DOMAIN g.open}
                                    THEN AddWord(g, "KEYWORD") ELSE Wrong
  BY <1>1 DEF Begin
<1>5. CASE k \in {"eol", "funsig", "list", "colon"}
  BY <1>1, <1>5 DEF Begin
<1>6. CASE k \in {"dot", "arrow", "BRACKET_OPEN", "BRACKET_CLOSE"}
  BY <1>1, <1>6 DEF Begin, Named
<1> QED
  BY <1>1, <1>2, <1>3, <1>4, <1>5, <1>6

Worded == {"value", "fstring", "literal", "type", "STRUCT_NAME", "FUN_SIGNATURE", "OPERATOR",
           "ASSIGNMENT", "get"}

LEMMA WordsBegin ==
  ASSUME NEW g, NEW k \in Worded
  PROVE  /\ Begin(g, k) = AddWord(g, WordOf[k]) /\ WordOf[k] \in GrammarWords
         /\ k # "literal" => WordOf[k] \notin Named /\ WordOf[k] # "ACCESS"
         /\ k \notin {"literal", "type"} => \A p : Lexed(p, k) = PushToken(p, WordOf[k])
         /\ \A p : Lexed(p, "type") = PushToken(p, WordOf["type"])
<1>1. OpeningWords = {"fun", "if", "struct"} /\ Closers = {"nuf", "fi", "tcurts"}
  BY DEF OpeningWords, Closers, CloserOf
<1>2. Begin(g, k) = AddWord(g, WordOf[k])
  BY <1>1 DEF Begin, Worded
<1>3. WordOf[k] \in GrammarWords /\ (k # "literal" => WordOf[k] \notin Named /\ WordOf[k] # "ACCESS")
  BY DEF Worded, WordOf, GrammarWords, Named
<1>4. ASSUME k \notin {"literal", "type"}, NEW p PROVE Lexed(p, k) = PushToken(p, WordOf[k])
  <2>1. CASE k = "get"
    <3>1. Lexed(p, k) = ParseKeyword(p, k)
      BY <1>1, <2>1 DEF Lexed, ParseLiteral, IsLiteral, Keywords
    <3> QED
      BY <1>1, <2>1, <3>1 DEF ParseKeyword, WordOf
  <2>2. CASE k # "get"
    <3>1. ~ IsLiteral(k)
      BY <1>1, <1>4, <2>2 DEF IsLiteral, Keywords, Worded
    <3> QED
      BY <1>4, <2>2, <3>1 DEF Lexed, Worded, WordOf
  <2> QED
    BY <2>1, <2>2
<1>5. ASSUME NEW p PROVE Lexed(p, "type") = PushToken(p, WordOf["type"])
  <2>1. ~ IsLiteral("type")
    BY <1>1 DEF IsLiteral, Keywords
  <2> QED
    BY <2>1 DEF Lexed, ParseType, WordOf
<1> QED
  BY <1>2, <1>3, <1>4, <1>5

LEMMA FollowsAt ==
  ASSUME NEW w, NEW r, NEW q, NEW j, At(q.tokens, w, j), Agree(q, r[j]), Settled(q.tokens, r[j])
  PROVE  Follows(q, w, r)
<1>1. j \in 0..Len(w)
  BY DEF At
<1> QED
  BY <1>1 DEF Follows

LEMMA SettledLast ==
  ASSUME NEW ts, NEW g, g.awaits = "nothing", LastWord(g) \notin Named, LastWord(g) # "ACCESS"
  PROVE  Settled(ts, g)
BY DEF Settled

\* A statement or a block ends.
LEMMA EndFollows ==
  ASSUME NEW p, NEW w, NEW r, NEW i, NEW g, NEW k, Meets(p, w, r, i, g, k),
         k \in {"eol", "funsig"} \cup OpeningWords \cup Closers
  PROVE  Follows(Lexed(p, k), w, r)
<1> DEFINE q == Lexed(p, k)  h == r[i]
<1>1. /\ WellMade(p) /\ Agree(p, g) /\ g.awaits = "nothing" /\ h = Begin(g, k) /\ At(p.tokens, w, i)
      /\ h.awaits # "correction" /\ h # Wrong /\ k \in Kinds
  BY MeetsFacts DEF Meets
<1>2. OpeningWords = {"fun", "if", "struct"} /\ Closers = {"nuf", "fi", "tcurts"}
  BY DEF OpeningWords, Closers, CloserOf
<1>3. k # "eol" => q = ParseKeyword(p, k)
  BY <1>2 DEF Lexed, ParseLiteral, IsLiteral, Keywords
<1> HIDE DEF h
<1>4. Agree(q, h) /\ q.tokens = p.tokens /\ h.line = <<>> /\ h.awaits = "nothing"
  <2>1. CASE k = "eol"
    <3>1. q = FinishLine(p)
      BY <1>2, <2>1 DEF Lexed, IsLiteral, Keywords
    <3>2. h = EndStatement(g)
      BY <1>1, <2>1, BeginIs
    <3> HIDE DEF q
    <3> QED
      BY <1>1, <3>1, <3>2, FinishAgrees
  <2>2. CASE k = "funsig"
    <3>1. q = ParseFunctionSignature(p)
      BY <1>2, <1>3, <2>2 DEF ParseKeyword
    <3>2. g.open = <<>> /\ Signs(g.line) /\ h = [Made(g, "signature") EXCEPT !.line = <<>>]
      BY <1>1, <2>2, BeginIs
    <3> HIDE DEF q
    <3> QED
      BY <1>1, <3>1, <3>2, SignatureAgrees
  <2>3. CASE k \in OpeningWords
    <3>1. q = ParseOpener(p, k)
      BY <1>2, <1>3, <2>3 DEF ParseKeyword
    <3>2. h = OpenBlock(g, k)
      BY <1>1, <2>3, BeginIs
    <3> HIDE DEF q
    <3> QED
      BY <1>1, <2>3, <3>1, <3>2, OpenerAgrees
  <2>4. CASE k \in Closers
    <3>1. q = ParseCloser(p, k)
      BY <1>2, <1>3, <2>4 DEF ParseKeyword
    <3>2. h = CloseBlock(g, k)
      BY <1>1, <2>4, BeginIs
    <3> HIDE DEF q
    <3> QED
      BY <1>1, <2>4, <3>1, <3>2, CloserAgrees
  <2> QED
    BY <2>1, <2>2, <2>3, <2>4
<1> HIDE DEF q
<1>5. LastWord(h) = "none"
  BY <1>4 DEF LastWord
<1>6. Settled(q.tokens, h)
  BY <1>4, <1>5, SettledLast DEF Named
<1> QED
  BY <1>1, <1>4, <1>6, FollowsAt DEF h, q

\* A token becomes a word.
LEMMA WordFollows ==
  ASSUME NEW p, NEW w, NEW r, NEW i, NEW g, NEW k, Meets(p, w, r, i, g, k),
         NEW t \in GrammarWords, t \notin Named, t # "ACCESS",
         Lexed(p, k) = PushToken(p, t), r[i] = AddWord(g, t)
  PROVE  Follows(Lexed(p, k), w, r)
<1>1. /\ p \in LexerRec /\ p.line.popped <= Len(p.line.tokens) /\ Agree(p, g) /\ At(p.tokens, w, i)
  BY MeetsFacts DEF Meets
<1> DEFINE q == PushToken(p, t)
<1>2. Agree(q, r[i]) /\ q.tokens = p.tokens /\ LastWord(r[i]) = t /\ r[i].awaits = "nothing"
  BY <1>1, PushAgrees
<1> HIDE DEF q
<1>3. Settled(q.tokens, r[i])
  BY <1>2, SettledLast
<1> QED
  BY <1>1, <1>2, <1>3, FollowsAt DEF q

LEMMA Awaiting ==
  ASSUME NEW w \in Seq(Kinds), NEW r, Along(w, r), NEW j \in 0..Len(w), r[j].awaits # "nothing"
  PROVE  /\ j + 1 \in 1..Len(w) /\ w[j + 1] \in Kinds /\ r[j + 1] = Understand(r[j], w[j + 1])
         /\ r[j + 1] # Wrong /\ (j + 1) - 1 = j
<1>1. j # Len(w) /\ Len(w) \in Nat
  BY DEF Along
<1>2. j + 1 <= Len(w) /\ j + 1 \in 1..Len(w) /\ (j + 1) - 1 = j
  BY <1>1
<1>3. Wrong.awaits = "correction"
  BY DEF Wrong, Blank
<1> QED
  BY <1>2, <1>3, Along1

\* A name with the names behind it becomes one word.
LEMMA ChainAgrees ==
  ASSUME NEW w \in Seq(Kinds), NEW r, Along(w, r), NEW q \in LexerRec, q.line.popped <= Len(q.line.tokens),
         NEW g, Agree(q, g), NEW j, At(q.tokens, w, j), NEW sep \in {"dot", "arrow"},
         NEW c \in Joinable(sep), NEW t \in GrammarWords,
         t = IF Pairs(q, sep) = 0 THEN c ELSE Joined[c],
         r[j] \in GrammarRec, r[j].awaits = "nothing", r[j].line = AddWord(g, c).line,
         r[j].open = g.open, r[j].members = g.members, r[j].items = g.items
  PROVE  Follows(Chain(q, sep, t), w, r)
<1> DEFINE m == Pairs(q, sep)  x == Read(q, 2 * m)  z == PushToken(x, t)  n == j + 2 * m
<1>1. g \in GrammarRec /\ c \in GrammarWords /\ c \in Named \cup {"ACCESS"}
  BY JoinedAgain DEF Agree
<1>2. LastWord(r[j]) = c
  <2>1. LastWord(AddWord(g, c)) = c /\ AddWord(g, c).line # <<>>
    <3>1. LastWord(AddWord(g, c)) = c /\ c # "none"
      BY <1>1, AddWordIs DEF Named
    <3> QED
      BY <3>1 DEF LastWord
  <2> QED
    BY <2>1 DEF LastWord
<1>3. /\ m \in Nat /\ 2 * m \in 0..Len(q.tokens) /\ n \in 0..Len(w)
      /\ Ahead(q, 2 * m + 1) # sep
      /\ m = 0 \/ Joins(r[j], r[n])
      /\ r[n] \in GrammarRec /\ r[n].awaits = "nothing"
      /\ LastWord(r[n]) \in Joinable(sep)
  BY <1>2, ChainFollows
<1>4. Chain(q, sep, t) = z
  BY <1>3 DEF Chain
<1>5. /\ x \in LexerRec /\ x.line = q.line /\ x.blocks = q.blocks /\ x.stack = q.stack
      /\ x.status = q.status /\ At(x.tokens, w, n)
  BY <1>3, AtRead
<1> HIDE DEF x, m, n
<1>6. Agree(z, AddWord(g, t)) /\ z.tokens = x.tokens
  <2>1. Agree(x, g) /\ x.line.popped <= Len(x.line.tokens)
    BY <1>5, AgreeRead
  <2> QED
    BY <1>5, <2>1, PushAgrees
<1> HIDE DEF z
<1>7. /\ AddWord(g, t).open = g.open /\ AddWord(g, t).members = g.members /\ AddWord(g, t).items = g.items
  BY <1>1, AddWordIs
<1>8. r[n].line = AddWord(g, t).line /\ r[n].open = g.open /\ r[n].members = g.members /\ r[n].items = g.items
  <2>1. CASE m = 0
    <3>1. n = j /\ t = c
      <4>1. j \in Int
        BY DEF At
      <4> QED
        BY <2>1, <4>1 DEF n, m
    <3> QED
      BY <3>1
  <2>2. CASE m # 0
    <3>1. Joins(r[j], r[n]) /\ t = Joined[c]
      BY <1>3, <2>2 DEF m
    <3>2. /\ r[n].line = [AddWord(g, c).line EXCEPT ![Len(AddWord(g, c).line)] = Joined[@]]
          /\ r[n].open = g.open /\ r[n].members = g.members /\ r[n].items = g.items
      BY <3>1 DEF Joins
    <3>3. r[n].line = AddWord(g, Joined[c]).line
      BY <1>1, <1>3, <3>2, JoinsMade
    <3> QED
      BY <3>1, <3>2, <3>3
  <2> QED
    BY <2>1, <2>2
<1>9. Agree(z, r[n])
  BY <1>3, <1>6, <1>7, <1>8, AgreeSame
<1>10. Settled(z.tokens, r[n])
  <2>1. ASSUME z.tokens # <<>> PROVE z.tokens[1] # sep
    <3>1. /\ z.tokens \in Seq(Kinds) /\ Len(w) \in Nat /\ n \in 0..Len(w) /\ Len(z.tokens) = Len(w) - n
          /\ \A i \in 1..Len(w) - n : z.tokens[i] = w[n + i]
      BY <1>3, <1>5, <1>6 DEF LexerRec, At
    <3>2. n + 1 <= Len(w) /\ z.tokens[1] = w[n + 1]
      <4>1. Len(z.tokens) \in Nat /\ Len(z.tokens) # 0
        BY <2>1, <3>1, EmptySeq
      <4>2. 1 \in 1..Len(w) - n
        BY <3>1, <4>1
      <4> QED
        BY <3>1, <4>2
    <3>3. 2 * m + 1 \in Nat \ {0} /\ j + (2 * m + 1) = n + 1
      <4>1. j \in Int
        BY DEF At
      <4>2. m \in Nat
        BY <1>3
      <4> QED
        BY <4>1, <4>2 DEF n
    <3>4. Ahead(q, 2 * m + 1) = w[n + 1]
      <4>1. j + (2 * m + 1) <= Len(w) => Ahead(q, 2 * m + 1) = w[j + (2 * m + 1)]
        BY <3>3, AheadIs
      <4> QED
        BY <3>2, <3>3, <4>1
    <3> QED
      BY <1>3, <3>2, <3>4
  <2>2. sep = "dot" => LastWord(r[n]) # "ACCESS"
    BY <1>3 DEF Joinable, Named
  <2>3. sep = "arrow" => LastWord(r[n]) \notin Named
    BY <1>3 DEF Joinable, Named
  <2> QED
    BY <1>3, <2>1, <2>2, <2>3 DEF Settled
<1> QED
  BY <1>4, <1>5, <1>6, <1>9, <1>10, FollowsAt

\* A name alone.
LEMMA NameAgrees ==
  ASSUME NEW w \in Seq(Kinds), NEW r, NEW q \in LexerRec, q.line.popped <= Len(q.line.tokens),
         NEW g, Agree(q, g), NEW j, At(q.tokens, w, j), Ahead(q, 1) # "dot", NEW c \in {"LITERAL", "CALL"},
         r[j] \in GrammarRec, r[j].awaits = "nothing", r[j].line = AddWord(g, c).line,
         r[j].open = g.open, r[j].members = g.members, r[j].items = g.items
  PROVE  Follows(PushToken(q, c), w, r)
<1> DEFINE z == PushToken(q, c)
<1>1. g \in GrammarRec /\ c \in GrammarWords
  BY DEF Agree, GrammarWords
<1>2. Agree(z, AddWord(g, c)) /\ z.tokens = q.tokens /\ LastWord(AddWord(g, c)) = c
  BY <1>1, PushAgrees
<1> HIDE DEF z
<1>3. /\ AddWord(g, c).open = g.open /\ AddWord(g, c).members = g.members /\ AddWord(g, c).items = g.items
  BY <1>1, AddWordIs
<1>4. Agree(z, r[j])
  BY <1>2, <1>3, AgreeSame
<1>5. Settled(z.tokens, r[j])
  <2>1. LastWord(r[j]) = c
    BY <1>2 DEF LastWord
  <2>2. ASSUME z.tokens # <<>> PROVE z.tokens[1] # "dot"
    <3>1. z.tokens \in Seq(Kinds)
      BY <1>2 DEF LexerRec
    <3>2. 1 \in DOMAIN z.tokens
      BY <2>2, <3>1
    <3> QED
      BY <1>2, <3>2 DEF Ahead
  <2> QED
    BY <2>1, <2>2 DEF Settled
<1> QED
  BY <1>2, <1>4, <1>5, FollowsAt DEF z

LEMMA PairsSome ==
  ASSUME NEW w \in Seq(Kinds), NEW r, Along(w, r), NEW q \in LexerRec, NEW j, At(q.tokens, w, j),
         r[j] \in GrammarRec, r[j].awaits = "nothing", LastWord(r[j]) \in Named, Ahead(q, 1) = "dot"
  PROVE  Pairs(q, "dot") # 0
<1>1. LastWord(r[j]) \in Joinable("dot")
  BY DEF Joinable
<1>2. Ahead(q, 2 * Pairs(q, "dot") + 1) # "dot"
  BY <1>1, ChainFollows
<1>3. 2 * 0 + 1 = 1
  OBVIOUS
<1> QED
  BY <1>2, <1>3

LEMMA LiteralFollows ==
  ASSUME NEW p, NEW w, NEW r, NEW i, NEW g, Meets(p, w, r, i, g, "literal")
  PROVE  Follows(Lexed(p, "literal"), w, r)
<1> DEFINE h == AddWord(g, "LITERAL")
<1>1. /\ p \in LexerRec /\ p.line.popped <= Len(p.line.tokens) /\ Agree(p, g) /\ At(p.tokens, w, i)
      /\ g \in GrammarRec /\ w \in Seq(Kinds) /\ Along(w, r)
  BY MeetsFacts DEF Meets
<1>2. r[i] = h
  <2>1. "literal" \in Worded /\ WordOf["literal"] = "LITERAL"
    BY DEF Worded, WordOf
  <2> QED
    BY <2>1, WordsBegin DEF Meets
<1>3. "LITERAL" \in GrammarWords /\ "PATH" \in GrammarWords /\ "LITERAL" \in Named
      /\ Joined["LITERAL"] = "PATH"
  BY DEF GrammarWords, Named, Joined
<1>4. /\ h \in GrammarRec /\ h.awaits = "nothing" /\ h.open = g.open /\ h.members = g.members
      /\ h.items = g.items /\ LastWord(h) = "LITERAL"
  BY <1>1, <1>3, AddWordIs
<1>5. Lexed(p, "literal") = IF Ahead(p, 1) = "dot" THEN Chain(p, "dot", "PATH") ELSE PushToken(p, "LITERAL")
  <2>1. "literal" \notin Keywords /\ IsLiteral("literal")
    BY DEF Keywords, OpeningWords, Closers, CloserOf, IsLiteral
  <2> QED
    BY <2>1 DEF Lexed, ParseLiteral, ParsePath
<1>6. CASE Ahead(p, 1) = "dot"
  <2>1. Pairs(p, "dot") # 0
    BY <1>1, <1>2, <1>3, <1>4, <1>6, PairsSome
  <2>2. Follows(Chain(p, "dot", "PATH"), w, r)
    BY <1>1, <1>2, <1>3, <1>4, <2>1, ChainAgrees DEF Joinable
  <2> QED
    BY <1>5, <1>6, <2>2
<1>7. CASE Ahead(p, 1) # "dot"
  <2>1. Follows(PushToken(p, "LITERAL"), w, r)
    BY <1>1, <1>2, <1>4, <1>7, NameAgrees
  <2> QED
    BY <1>5, <1>7, <2>1
<1> QED
  BY <1>6, <1>7

LEMMA Renamed ==
  ASSUME NEW x \in LexerRec, x.line.popped <= Len(x.line.tokens),
         NEW s \in LineTokens, NEW t \in LineTokens
  PROVE  LET y == PushToken(x, s)
         IN /\ y.status = x.status /\ ~ Empty(y.line) /\ Last(y.line.tokens) = s
            /\ [y EXCEPT !.line.tokens[Len(y.line.tokens)] = t] = PushToken(x, t)
<1> DEFINE y == PushToken(x, s)  ts == x.line.tokens  n == Len(ts) + 1
<1>1. ts \in Seq(LineTokens) /\ Len(ts) \in Nat /\ x.line.popped \in Nat /\ x.line \in LineRec
  BY DEF LexerRec, LineRec
<1>2. y.status = x.status /\ y.line.tokens = Append(ts, s) /\ y.line.popped = x.line.popped
  BY <1>1 DEF PushToken, LexerRec, LineRec
<1>3. Len(y.line.tokens) = n /\ y.line.tokens[n] = s
  BY <1>1, <1>2, Appended
<1>4. ~ Empty(y.line) /\ Last(y.line.tokens) = s
  BY <1>1, <1>2, <1>3 DEF Empty, Last
<1>5. [Append(ts, s) EXCEPT ![n] = t] = Append(ts, t)
  <2>1. Replaces(ts, s, t)
    BY <1>1, LastReplaced
  <2> QED
    BY <2>1 DEF Replaces
<1>6. [y EXCEPT !.line.tokens[n] = t] = PushToken(x, t)
  <2>1. [y EXCEPT !.line.tokens[n] = t] = [x EXCEPT !.line.tokens = [Append(ts, s) EXCEPT ![n] = t]]
    BY <1>1 DEF PushToken, LexerRec, LineRec
  <2>2. PushToken(x, t) = [x EXCEPT !.line.tokens = Append(ts, t)]
    BY DEF PushToken
  <2> QED
    BY <1>5, <2>1, <2>2
<1> QED
  BY <1>2, <1>3, <1>4, <1>6

\* A name behind a colon.
LEMMA CallFollows ==
  ASSUME NEW p, NEW w, NEW r, NEW i, NEW g, Meets(p, w, r, i, g, "colon")
  PROVE  Follows(Lexed(p, "colon"), w, r)
<1> DEFINE f == Await(g, "function")  h == AddWord(f, "CALL")  j == i + 1  a == Read(p, 1)
<1>1. /\ p \in LexerRec /\ p.line.popped <= Len(p.line.tokens) /\ Agree(p, g) /\ At(p.tokens, w, i)
      /\ g \in GrammarRec /\ w \in Seq(Kinds) /\ Along(w, r) /\ i \in 0..Len(w) /\ "colon" \in Kinds
  BY MeetsFacts DEF Meets
<1>2. r[i] = f
  BY <1>1, BeginIs DEF Meets
<1>3. /\ f \in GrammarRec /\ f.line = g.line /\ f.open = g.open /\ f.members = g.members
      /\ f.items = g.items /\ f.awaits = "function"
  BY <1>1 DEF Await, GrammarRec, Asked
<1>4. /\ j \in 1..Len(w) /\ w[j] \in Kinds /\ r[j] = Understand(f, w[j]) /\ r[j] # Wrong
  <2>1. f.awaits # "nothing"
    BY <1>3
  <2> QED
    BY <1>1, <1>2, <2>1, Awaiting
<1>5. {"LITERAL", "PATH", "CALL", "MODULE_CALL"} \subseteq GrammarWords /\ Joined["CALL"] = "MODULE_CALL"
      /\ {"LITERAL", "PATH", "CALL", "MODULE_CALL"} \subseteq LineTokens
  BY DEF GrammarWords, Joined, LineTokens, CallTokens
<1> HIDE DEF f
<1>6. w[j] = "literal" /\ r[j] = h
  BY <1>3, <1>4 DEF Understand
<1>7. /\ h \in GrammarRec /\ h.awaits = "nothing" /\ h.open = g.open /\ h.members = g.members
      /\ h.items = g.items /\ LastWord(h) = "CALL" /\ h.line = AddWord(g, "CALL").line
  <2>1. /\ h \in GrammarRec /\ h.awaits = "nothing" /\ h.open = f.open /\ h.members = f.members
        /\ h.items = f.items /\ LastWord(h) = "CALL" /\ h.line = Append(f.line, "CALL")
    BY <1>3, <1>5, AddWordIs
  <2>2. AddWord(g, "CALL").line = Append(g.line, "CALL")
    BY <1>1, <1>5, AddWordIs
  <2> QED
    BY <1>3, <2>1, <2>2
<1>8. /\ Ahead(p, 1) = "literal" /\ 1 \in 1..Len(p.tokens)
  <2>1. 1 \in Nat \ {0} /\ j <= Len(w)
    BY <1>4
  <2> QED
    BY <1>1, <1>6, <2>1, AheadIs
<1>9. /\ a \in LexerRec /\ a.line = p.line /\ a.blocks = p.blocks /\ a.stack = p.stack
      /\ a.status = p.status /\ At(a.tokens, w, j)
  <2>1. 1 \in 0..Len(p.tokens)
    BY <1>8
  <2> QED
    <3>1. p \in LexerRec /\ At(p.tokens, w, i) /\ w \in Seq(Kinds)
      BY <1>1
    <3> QED
      BY <2>1, <3>1, AtRead
<1> HIDE DEF a, h, j
<1>10. Agree(a, g) /\ a.line.popped <= Len(a.line.tokens) /\ a.status = "reading"
  BY <1>1, <1>9, AgreeRead DEF Agree
<1>11. "literal" \notin Keywords /\ IsLiteral("literal") /\ ~ IsLiteral("colon")
  BY DEF Keywords, OpeningWords, Closers, CloserOf, IsLiteral
<1>12. Lexed(p, "colon") = ParseFunctionCall(p)
  BY <1>11 DEF Lexed
<1>13. ASSUME NEW x \in LexerRec, x.line.popped <= Len(x.line.tokens), x.status = "reading",
              NEW s \in {"LITERAL", "PATH"}, ParseLiteral(a, "literal") = PushToken(x, s)
       PROVE  ParseFunctionCall(p) = PushToken(x, IF s = "PATH" THEN "MODULE_CALL" ELSE "CALL")
  <2> DEFINE t == IF s = "PATH" THEN "MODULE_CALL" ELSE "CALL"  y == PushToken(x, s)
  <2>1. /\ y.status = x.status /\ ~ Empty(y.line) /\ Last(y.line.tokens) = s
        /\ [y EXCEPT !.line.tokens[Len(y.line.tokens)] = t] = PushToken(x, t)
    <3>1. s \in LineTokens /\ t \in LineTokens /\ x \in LexerRec /\ x.line.popped <= Len(x.line.tokens)
      BY <1>5, <1>13
    <3> HIDE DEF t
    <3> QED
      BY <3>1, Renamed
  <2>2. ParseLiteral(Read(p, 1), Ahead(p, 1)) = y
    BY <1>8, <1>13 DEF a
  <2> HIDE DEF y
  <2> QED
    BY <1>8, <1>11, <1>13, <2>1, <2>2 DEF ParseFunctionCall
<1>14. CASE Ahead(a, 1) = "dot"
  <2> DEFINE m == Pairs(a, "dot")  x == Read(a, 2 * m)
  <2>1. LastWord(r[j]) \in Named /\ LastWord(r[j]) \in Joinable("dot")
    BY <1>6, <1>7 DEF Named, Joinable
  <2>2. r[j] \in GrammarRec /\ r[j].awaits = "nothing"
    BY <1>6, <1>7
  <2>3. m # 0
    BY <1>1, <1>9, <1>14, <2>1, <2>2, PairsSome
  <2>4. 2 * m \in 0..Len(a.tokens) /\ Ahead(a, 2 * m + 1) # "dot"
    BY <1>1, <1>9, <2>1, <2>2, ChainFollows
  <2>5. x \in LexerRec /\ x.line = a.line /\ x.status = a.status
    <3>1. a \in LexerRec /\ At(a.tokens, w, j) /\ w \in Seq(Kinds)
      BY <1>1, <1>9
    <3> DEFINE n == 2 * m
    <3>2. n \in 0..Len(a.tokens)
      BY <2>4
    <3> HIDE DEF n
    <3>3. /\ Read(a, n) \in LexerRec /\ Read(a, n).line = a.line /\ Read(a, n).status = a.status
          /\ At(Read(a, n).tokens, w, j + n)
      BY <3>1, <3>2, AtRead
    <3> QED
      BY <3>3 DEF n
  <2>6. \A t : Chain(a, "dot", t) = PushToken(x, t)
    BY <2>4 DEF Chain
  <2>7. ParseLiteral(a, "literal") = PushToken(x, "PATH")
    <3> HIDE DEF x, m
    <3> QED
      BY <1>11, <1>14, <2>6 DEF ParseLiteral, ParsePath
  <2> HIDE DEF x
  <2>8. ParseFunctionCall(p) = PushToken(x, "MODULE_CALL")
    BY <1>10, <1>13, <2>5, <2>7
  <2>9. Follows(Chain(a, "dot", "MODULE_CALL"), w, r)
    <3>1. "CALL" \in Joinable("dot")
      BY DEF Joinable, Named
    <3> HIDE DEF m
    <3>2. "MODULE_CALL" = IF Pairs(a, "dot") = 0 THEN "CALL" ELSE Joined["CALL"]
      BY <1>5, <2>3 DEF m
    <3> QED
      BY <1>1, <1>5, <1>6, <1>7, <1>9, <1>10, <3>1, <3>2, ChainAgrees
  <2> QED
    BY <1>12, <2>6, <2>8, <2>9
<1>15. CASE Ahead(a, 1) # "dot"
  <2>1. ParseLiteral(a, "literal") = PushToken(a, "LITERAL")
    BY <1>11, <1>15 DEF ParseLiteral
  <2>2. ParseFunctionCall(p) = PushToken(a, "CALL")
    BY <1>9, <1>10, <1>13, <2>1
  <2>3. Follows(PushToken(a, "CALL"), w, r)
    BY <1>1, <1>6, <1>7, <1>9, <1>10, <1>15, NameAgrees
  <2> QED
    BY <1>12, <2>2, <2>3
<1> QED
  BY <1>14, <1>15

LEMMA AwaitIs ==
  ASSUME NEW g \in GrammarRec, NEW what \in Asked
  PROVE  LET f == Await(g, what)
         IN /\ f \in GrammarRec /\ f.line = g.line /\ f.open = g.open /\ f.members = g.members
            /\ f.items = g.items /\ f.awaits = what /\ LastWord(f) = LastWord(g)
BY DEF Await, GrammarRec, LastWord

\* A type in brackets.
LEMMA ListFollows ==
  ASSUME NEW p, NEW w, NEW r, NEW i, NEW g, Meets(p, w, r, i, g, "list")
  PROVE  Follows(Lexed(p, "list"), w, r)
<1> DEFINE f == Await(g, "of")  f1 == Await(f, "type")  f2 == Await(f1, "end")
           h == AddWord(f2, "TYPE")
<1>1. /\ p \in LexerRec /\ p.line.popped <= Len(p.line.tokens) /\ Agree(p, g) /\ At(p.tokens, w, i)
      /\ g \in GrammarRec /\ w \in Seq(Kinds) /\ Along(w, r) /\ i \in 0..Len(w) /\ Len(w) \in Nat
      /\ "list" \in Kinds
  BY MeetsFacts DEF Meets
<1>2. {"of", "type", "end"} \subseteq Asked /\ "TYPE" \in GrammarWords /\ "TYPE" \notin Named
  BY DEF Asked, GrammarWords, Named
<1>3. r[i] = f
  BY <1>1, BeginIs DEF Meets
<1>4. f \in GrammarRec /\ f.awaits = "of" /\ f.line = g.line /\ f.open = g.open /\ f.members = g.members
      /\ f.items = g.items
  BY <1>1, <1>2, AwaitIs
<1> HIDE DEF f
<1>5. f1 \in GrammarRec /\ f1.awaits = "type" /\ f1.line = g.line /\ f1.open = g.open
      /\ f1.members = g.members /\ f1.items = g.items
  BY <1>2, <1>4, AwaitIs
<1>6. i + 1 \in 1..Len(w) /\ w[i + 1] = "BRACKET_OPEN" /\ r[i + 1] = f1
  <2>1. i + 1 \in 1..Len(w) /\ r[i + 1] = Understand(f, w[i + 1]) /\ r[i + 1] # Wrong
    BY <1>1, <1>3, <1>4, Awaiting
  <2> QED
    BY <1>4, <2>1 DEF Understand
<1> HIDE DEF f1
<1>7. f2 \in GrammarRec /\ f2.awaits = "end" /\ f2.line = g.line /\ f2.open = g.open
      /\ f2.members = g.members /\ f2.items = g.items
  BY <1>2, <1>5, AwaitIs
<1>8. i + 2 \in 1..Len(w) /\ w[i + 2] \in {"type", "STRUCT_NAME"} /\ r[i + 2] = f2
  <2>1. i + 1 \in 0..Len(w) /\ (i + 1) + 1 = i + 2
    BY <1>1, <1>6
  <2>2. /\ (i + 1) + 1 \in 1..Len(w) /\ r[(i + 1) + 1] = Understand(f1, w[(i + 1) + 1])
        /\ r[(i + 1) + 1] # Wrong
    BY <1>1, <1>5, <1>6, <2>1, Awaiting
  <2> QED
    BY <1>5, <2>1, <2>2 DEF Understand
<1> HIDE DEF f2
<1>9. i + 3 \in 1..Len(w) /\ w[i + 3] = "BRACKET_CLOSE" /\ r[i + 3] = h
  <2>1. i + 2 \in 0..Len(w) /\ (i + 2) + 1 = i + 3
    BY <1>1, <1>8
  <2>2. /\ (i + 2) + 1 \in 1..Len(w) /\ r[(i + 2) + 1] = Understand(f2, w[(i + 2) + 1])
        /\ r[(i + 2) + 1] # Wrong
    BY <1>1, <1>7, <1>8, <2>1, Awaiting
  <2> QED
    BY <1>7, <2>1, <2>2 DEF Understand
<1>10. /\ h \in GrammarRec /\ h.awaits = "nothing" /\ h.open = g.open /\ h.members = g.members
       /\ h.items = g.items /\ LastWord(h) = "TYPE" /\ h.line = Append(g.line, "TYPE")
  BY <1>2, <1>7, AddWordIs
<1> HIDE DEF h
<1>11. /\ Ahead(p, 1) = "BRACKET_OPEN" /\ Ahead(p, 2) \in {"type", "STRUCT_NAME"}
       /\ Ahead(p, 3) = "BRACKET_CLOSE" /\ 3 \in 1..Len(p.tokens) /\ Len(p.tokens) >= 3
  <2>1. \A j \in {1, 2, 3} : i + j <= Len(w) => Ahead(p, j) = w[i + j] /\ j \in 1..Len(p.tokens)
    BY <1>1, AheadIs
  <2>2. i + 1 <= Len(w) /\ i + 2 <= Len(w) /\ i + 3 <= Len(w)
    BY <1>6, <1>8, <1>9
  <2>3. Ahead(p, 1) = w[i + 1] /\ Ahead(p, 2) = w[i + 2] /\ Ahead(p, 3) = w[i + 3] /\ 3 \in 1..Len(p.tokens)
    BY <2>1, <2>2
  <2> QED
    BY <1>6, <1>8, <1>9, <2>3
<1> DEFINE z == PushToken(p, "TYPE")  q == Read(z, 3)
<1>12. Lexed(p, "list") = q
  <2>1. ~ IsLiteral("list")
    BY DEF IsLiteral, Keywords, OpeningWords, Closers, CloserOf
  <2> QED
    BY <1>11, <2>1 DEF Lexed, ParseType
<1>13. Agree(z, AddWord(g, "TYPE")) /\ z.tokens = p.tokens
  BY <1>1, <1>2, PushAgrees
<1>14. z \in LexerRec
  <2>1. WellMade(p) /\ "TYPE" \in LineTokens \ CallTokens
    BY DEF Meets, LineTokens, CallTokens
  <2> QED
    BY <2>1, PushTokenKeeps DEF Keeps, WellMade
<1> HIDE DEF z
<1>15. /\ q.line = z.line /\ q.blocks = z.blocks /\ q.stack = z.stack /\ q.status = z.status
       /\ At(q.tokens, w, i + 3)
  <2>1. 3 \in 0..Len(z.tokens) /\ At(z.tokens, w, i) /\ w \in Seq(Kinds)
    BY <1>1, <1>11, <1>13
  <2> QED
    BY <1>14, <2>1, AtRead
<1> HIDE DEF q
<1>16. Agree(q, r[i + 3])
  <2>1. /\ AddWord(g, "TYPE").line = Append(g.line, "TYPE") /\ AddWord(g, "TYPE").open = g.open
        /\ AddWord(g, "TYPE").members = g.members /\ AddWord(g, "TYPE").items = g.items
    BY <1>1, <1>2, AddWordIs
  <2>2. Agree(z, h)
    BY <1>10, <1>13, <2>1, AgreeSame
  <2> QED
    BY <1>9, <1>15, <2>2, AgreeRead
<1>17. Settled(q.tokens, r[i + 3])
  BY <1>2, <1>9, <1>10, SettledLast
<1> QED
  BY <1>12, <1>15, <1>16, <1>17, FollowsAt

\* An arrow before a type stands in a definition, the others access a member.
LEMMA ArrowFollows ==
  ASSUME NEW p, NEW w, NEW r, NEW i, NEW g, Meets(p, w, r, i, g, "arrow")
  PROVE  Follows(Lexed(p, "arrow"), w, r)
<1> DEFINE f == AddWord(g, "ARROW")  h == Await(f, "member")  j == i + 1
<1>1. /\ p \in LexerRec /\ p.line.popped <= Len(p.line.tokens) /\ Agree(p, g) /\ At(p.tokens, w, i)
      /\ g \in GrammarRec /\ w \in Seq(Kinds) /\ Along(w, r) /\ i \in 0..Len(w) /\ Len(w) \in Nat
      /\ "arrow" \in Kinds
  BY MeetsFacts DEF Meets
<1>2. "member" \in Asked /\ {"ARROW", "ACCESS"} \subseteq GrammarWords /\ "ARROW" \notin Named
      /\ Joined["ARROW"] = "ACCESS" /\ Joined["ACCESS"] = "ACCESS"
  BY DEF Asked, GrammarWords, Named, Joined
<1>3. r[i] = h
  BY <1>1, BeginIs DEF Meets
<1>4. /\ f \in GrammarRec /\ f.open = g.open /\ f.members = g.members /\ f.items = g.items
      /\ LastWord(f) = "ARROW"
  BY <1>1, <1>2, AddWordIs
<1> HIDE DEF f
<1>5. /\ h \in GrammarRec /\ h.awaits = "member" /\ h.open = g.open /\ h.members = g.members
      /\ h.items = g.items /\ LastWord(h) = "ARROW" /\ h.line = f.line
  BY <1>2, <1>4, AwaitIs
<1> HIDE DEF h
<1>6. /\ j \in 1..Len(w) /\ r[j] = Understand(h, w[j]) /\ r[j] # Wrong
  BY <1>1, <1>3, <1>5, Awaiting
<1>7. w[j] \in {"literal", "type", "list", "STRUCT_NAME"}
  BY <1>5, <1>6 DEF Understand
<1>8. Ahead(p, 1) = w[j] /\ 1 \in 1..Len(p.tokens) /\ p.tokens[1] = w[j] /\ p.tokens # <<>>
  <2>1. 1 \in Nat \ {0} /\ j <= Len(w)
    BY <1>6
  <2>2. Ahead(p, 1) = w[j] /\ 1 \in 1..Len(p.tokens)
    BY <1>1, <2>1, AheadIs
  <2>3. p.tokens \in Seq(Kinds)
    BY <1>1 DEF LexerRec
  <2> QED
    BY <2>2, <2>3 DEF Ahead
<1>9. Lexed(p, "arrow") = ParseStructAccess(p)
  <2>1. ~ IsLiteral("arrow")
    BY DEF IsLiteral, Keywords, OpeningWords, Closers, CloserOf
  <2> QED
    BY <2>1 DEF Lexed
<1>10. CASE w[j] # "literal"
  <2> DEFINE z == PushToken(p, "ARROW")
  <2>1. ParseStructAccess(p) = z
    BY <1>7, <1>8, <1>10 DEF ParseStructAccess
  <2>2. Agree(z, f) /\ z.tokens = p.tokens
    BY <1>1, <1>2, PushAgrees DEF f
  <2> HIDE DEF z
  <2>3. Agree(z, r[i])
    BY <1>3, <1>4, <1>5, <2>2, AgreeSame
  <2>4. Settled(z.tokens, r[i])
    BY <1>2, <1>3, <1>5, <1>7, <1>8, <1>10, <2>2 DEF Settled
  <2> QED
    BY <1>1, <1>9, <2>1, <2>2, <2>3, <2>4, FollowsAt
<1>11. CASE w[j] = "literal"
  <2> DEFINE a == Read(p, 1)  u == [h.line EXCEPT ![Len(h.line)] = Joined[@]]
  <2>1. ParseStructAccess(p) = Chain(a, "arrow", "ACCESS")
    <3>1. IsLiteral("literal")
      BY DEF IsLiteral
    <3> QED
      BY <1>8, <1>11, <3>1 DEF ParseStructAccess
  <2>2. /\ a \in LexerRec /\ a.line = p.line /\ a.blocks = p.blocks /\ a.stack = p.stack
        /\ a.status = p.status /\ At(a.tokens, w, j)
    <3>1. 1 \in 0..Len(p.tokens) /\ p \in LexerRec /\ At(p.tokens, w, i) /\ w \in Seq(Kinds)
      BY <1>1, <1>8
    <3> QED
      BY <3>1, AtRead
  <2> HIDE DEF a
  <2>3. Agree(a, g) /\ a.line.popped <= Len(a.line.tokens)
    BY <1>1, <2>2, AgreeRead
  <2>4. r[j] = [h EXCEPT !.line[Len(h.line)] = Joined[@], !.awaits = "nothing"]
    BY <1>5, <1>6, <1>11 DEF Understand
  <2>5. /\ Shaped(r[j]) /\ r[j].line = u /\ r[j].awaits = "nothing" /\ r[j].open = g.open
        /\ r[j].members = g.members /\ r[j].items = g.items
    <3>1. Shaped(h)
      BY <1>5, GrammarFields
    <3> QED
      BY <1>5, <2>4, <3>1 DEF Shaped
  <2>6. r[j].line = AddWord(g, "ACCESS").line
    <3>1. r[j].line = [AddWord(g, "ARROW").line EXCEPT ![Len(AddWord(g, "ARROW").line)] = Joined[@]]
      BY <1>5, <2>5 DEF f
    <3> HIDE DEF u
    <3>2. r[j].line = AddWord(g, Joined["ARROW"]).line
      BY <1>1, <3>1, JoinsMade
    <3> QED
      BY <1>2, <3>2
  <2>7. r[j] \in GrammarRec
    <3>1. /\ AddWord(g, "ACCESS").line \in Seq(GrammarWords) /\ "nothing" \in Asked
      BY <1>1, <1>2, AddWordIs, GrammarFields DEF Asked
    <3>2. /\ g.open \in Seq(OpeningWords) /\ g.members \in BOOLEAN /\ g.items \in Seq(Results)
          /\ DefinedOutside(g.open)
      BY <1>1, GrammarFields
    <3> HIDE DEF u, j
    <3> QED
      BY <2>5, <2>6, <3>1, <3>2, GrammarType
  <2> HIDE DEF u, j
  <2>8. Follows(Chain(a, "arrow", "ACCESS"), w, r)
    <3>1. "ACCESS" \in Joinable("arrow") /\ "ACCESS" \in GrammarWords
      BY <1>2 DEF Joinable
    <3>2. "ACCESS" = IF Pairs(a, "arrow") = 0 THEN "ACCESS" ELSE Joined["ACCESS"]
      BY <1>2
    <3> QED
      BY <1>1, <2>2, <2>3, <2>5, <2>6, <2>7, <3>1, <3>2, ChainAgrees
  <2> QED
    BY <1>9, <2>1, <2>8
<1> QED
  BY <1>10, <1>11

LEMMA ReturnFollows ==
  ASSUME NEW p, NEW w, NEW r, NEW i, NEW g, Meets(p, w, r, i, g, "return")
  PROVE  Follows(Lexed(p, "return"), w, r)
<1>1. /\ Agree(p, g) /\ r[i] # Wrong /\ r[i] = Begin(g, "return") /\ "return" \in Kinds
  BY MeetsFacts DEF Meets
<1>2. "fun" \in {g.open[n] : n \in DOMAIN g.open} /\ r[i] = AddWord(g, "KEYWORD")
  BY <1>1, BeginIs
<1>3. PICK n \in DOMAIN g.open : g.open[n] = "fun"
  BY <1>2
<1>4. n \in DOMAIN p.stack /\ p.stack[n].keyword = "fun"
  <2>1. p \in LexerRec /\ g \in GrammarRec
    BY MeetsFacts
  <2>2. p.stack \in Seq(OpenRec) /\ g.open \in Seq(OpeningWords)
    BY <2>1, GrammarFields DEF LexerRec
  <2>3. Len(g.open) = Len(p.stack) /\ \A m \in 1..Len(p.stack) : g.open[m] = p.stack[m].keyword
    BY <1>1 DEF Agree, Stacked
  <2> QED
    BY <1>3, <2>2, <2>3
<1>5. Lexed(p, "return") = PushToken(p, "KEYWORD")
  <2>1. Lexed(p, "return") = ParseKeyword(p, "return")
    BY DEF Lexed, ParseLiteral, IsLiteral, Keywords
  <2>2. "return" \notin Closers \cup OpeningWords
    BY DEF Closers, OpeningWords, CloserOf
  <2>3. \E m \in DOMAIN p.stack : p.stack[m].keyword = "fun"
    BY <1>4
  <2> QED
    BY <2>1, <2>2, <2>3 DEF ParseKeyword
<1>6. "KEYWORD" \in GrammarWords /\ "KEYWORD" \notin Named
  BY DEF GrammarWords, Named
<1> QED
  BY <1>2, <1>5, <1>6, WordFollows

\* Whichever token is read, the lexer stays with the grammar.
LEMMA LexedFollows ==
  ASSUME NEW p, NEW w, NEW r, NEW i, NEW g, NEW k, Meets(p, w, r, i, g, k)
  PROVE  Follows(Lexed(p, k), w, r)
<1>1. k \in Kinds /\ r[i] # Wrong /\ r[i] = Begin(g, k)
  BY MeetsFacts DEF Meets
<1>2. k \notin {"BRACKET_OPEN", "BRACKET_CLOSE"}
  BY <1>1, BeginIs
<1>3. k # "dot"
  BY <1>1, BeginIs DEF Meets
<1>4. CASE k \in {"eol", "funsig"} \cup OpeningWords \cup Closers
  BY <1>4, EndFollows
<1>5. CASE k \in Worded \ {"literal"}
  <2>1. /\ r[i] = AddWord(g, WordOf[k]) /\ WordOf[k] \in GrammarWords
        /\ WordOf[k] \notin Named /\ WordOf[k] # "ACCESS"
    BY <1>1, <1>5, WordsBegin
  <2>2. Lexed(p, k) = PushToken(p, WordOf[k])
    BY <1>5, WordsBegin
  <2> QED
    BY <2>1, <2>2, WordFollows
<1>6. CASE k \in {"literal", "colon", "list", "arrow", "return"}
  BY <1>6, LiteralFollows, CallFollows, ListFollows, ArrowFollows, ReturnFollows
<1> QED
  BY <1>1, <1>2, <1>3, <1>4, <1>5, <1>6 DEF Kinds, Keywords, Worded

\* What is left behind the first token.
LEMMA Foremost ==
  ASSUME NEW w \in Seq(Kinds), NEW p \in LexerRec, NEW i, At(p.tokens, w, i), p.tokens # <<>>
  PROVE  /\ i \in 0..Len(w) /\ i + 1 \in 1..Len(w) /\ (i + 1) - 1 = i /\ 1 \in 0..Len(p.tokens)
         /\ p.tokens[1] = w[i + 1] /\ Head(p.tokens) = p.tokens[1]
<1>1. /\ p.tokens \in Seq(Kinds) /\ Len(p.tokens) \in Nat /\ Len(w) \in Nat /\ i \in 0..Len(w)
      /\ Len(p.tokens) = Len(w) - i /\ \A j \in 1..Len(w) - i : p.tokens[j] = w[i + j]
  BY DEF LexerRec, At
<1>2. Len(p.tokens) # 0
  BY <1>1, EmptySeq
<1>3. 1 \in 1..Len(w) - i /\ i + 1 \in 1..Len(w)
  BY <1>1, <1>2
<1> QED
  BY <1>1, <1>2, <1>3

LEMMA TokenFollows ==
  ASSUME NEW w \in Seq(Kinds), NEW r, Along(w, r), NEW p, WellMade(p), p.tokens # <<>>, Follows(p, w, r),
         NEW a, a = Read(p, 1), WellMade(a)
  PROVE  Follows(Lexed(a, Head(p.tokens)), w, r)
<1>1. PICK i : At(p.tokens, w, i) /\ Agree(p, r[i]) /\ Settled(p.tokens, r[i])
  BY DEF Follows
<1> DEFINE k == Head(p.tokens)  g == Await(r[i], "nothing")  j == i + 1
<1>2. p \in LexerRec /\ r[i] \in GrammarRec
  BY <1>1 DEF WellMade, Agree
<1>3. j \in 1..Len(w) /\ j - 1 = i /\ 1 \in 0..Len(p.tokens) /\ p.tokens[1] = w[j] /\ k = w[j] /\ k = p.tokens[1]
  BY <1>1, <1>2, Foremost
<1>4. /\ At(a.tokens, w, j) /\ a.line = p.line /\ a.blocks = p.blocks /\ a.stack = p.stack /\ a.status = p.status
  <2>1. 1 \in 0..Len(p.tokens) /\ At(p.tokens, w, i) /\ p \in LexerRec /\ w \in Seq(Kinds)
    BY <1>1, <1>2, <1>3
  <2> QED
    BY <2>1, AtRead
<1>5. /\ g \in GrammarRec /\ g.line = r[i].line /\ g.open = r[i].open /\ g.members = r[i].members
      /\ g.items = r[i].items /\ g.awaits = "nothing" /\ LastWord(g) = LastWord(r[i])
  <2>1. "nothing" \in Asked
    BY DEF Asked
  <2> QED
    BY <1>2, <2>1, AwaitIs
<1>6. Agree(a, g)
  <2>1. Agree(p, g)
    BY <1>1, <1>5, AgreeSame
  <2> QED
    BY <1>4, <2>1, AgreeRead
<1>7. r[j] = Begin(g, k)
  <2>1. r[j] = Understand(r[i], k)
    BY <1>3 DEF Along
  <2>2. CASE r[i].awaits = "nothing"
    <3>1. g = r[i]
      BY <1>2, <2>2, GrammarFields DEF Await, Shaped
    <3> QED
      BY <2>1, <2>2, <3>1 DEF Understand
  <2>3. CASE r[i].awaits # "nothing"
    <3>1. r[i].awaits = "member" /\ k \in {"type", "list", "STRUCT_NAME"}
      BY <1>1, <1>3, <2>3 DEF Settled
    <3> HIDE DEF k
    <3> QED
      BY <2>1, <3>1 DEF Understand
  <2> QED
    BY <2>2, <2>3
<1>8. (k = "dot" => LastWord(g) \notin Named) /\ (k = "arrow" => LastWord(g) # "ACCESS")
  BY <1>1, <1>3, <1>5 DEF Settled
<1>9. Meets(a, w, r, j, g, k)
  <2> HIDE DEF j, k, g
  <2> QED
    BY <1>3, <1>4, <1>5, <1>6, <1>7, <1>8 DEF Meets
<1> QED
  BY <1>9, LexedFollows

-----------------------------------------------------------------------------
(* Every program documented *)

LEMMA ReadMade ==
  ASSUME NEW p, WellMade(p), NEW n \in 0..Len(p.tokens)
  PROVE  WellMade(Read(p, n))
<1> DEFINE a == Read(p, n)
<1>1. p \in LexerRec /\ p.tokens \in Seq(Kinds)
  BY DEF WellMade, LexerRec
<1>2. /\ a.tokens = SubSeq(p.tokens, n + 1, Len(p.tokens)) /\ a.line = p.line /\ a.blocks = p.blocks
      /\ a.stack = p.stack
  BY <1>1 DEF Read, LexerRec
<1>3. SubSeq(p.tokens, n + 1, Len(p.tokens)) \in Seq(Kinds)
  BY <1>1, LeftBehind
<1>4. a \in LexerRec
  BY <1>1, <1>3 DEF Read, LexerRec
<1>5. StoredLines(a) = StoredLines(p)
  BY <1>2 DEF StoredLines
<1> HIDE DEF a
<1> QED
  BY <1>2, <1>4, <1>5 DEF WellMade, a

LEMMA GrammarInvInit == LexerInit => GrammarInv
<1> SUFFICES ASSUME LexerInit PROVE GrammarInv
  OBVIOUS
<1>1. /\ written \in Seq(Kinds) /\ tokens = written /\ current = NewLine /\ codeBlocks = <<>>
      /\ opened = <<>> /\ outcome = "reading"
  BY TokenLexerAssumption DEF LexerInit, Starts
<1>2. LexerInv /\ GrammarAccepted
  BY <1>1, LexerInvInit DEF GrammarAccepted
<1>3. ASSUME Documented(Understood(written))
      PROVE  \E r : /\ Along(written, r) /\ Understood(written) = EndStatement(r[Len(written)])
                    /\ Follows(Lexer, written, r)
  <2> DEFINE r == Understanding(written)
  <2>1. Along(written, r) /\ Understood(written) = EndStatement(r[Len(written)])
    BY <1>1, <1>3, RunDocumented
  <2>2. r[0] = Blank
    BY <2>1 DEF Along
  <2> HIDE DEF r
  <2>3. At(Lexer.tokens, written, 0)
    <3>1. Len(written) \in Nat /\ Lexer.tokens = written
      BY <1>1 DEF Lexer
    <3>2. \A j \in 1..Len(written) - 0 : 0 + j = j
      BY <3>1
    <3> QED
      BY <3>1, <3>2 DEF At
  <2>4. /\ Lexer.line = NewLine /\ Lexer.blocks = <<>> /\ Lexer.stack = <<>> /\ Lexer.status = "reading"
    BY <1>1 DEF Lexer
  <2>5. /\ Blank.line = <<>> /\ Blank.awaits = "nothing" /\ Blank.open = <<>> /\ Blank.items = <<>>
        /\ Blank \in GrammarRec
    BY DEF Blank, GrammarRec, Asked, DefinedOutside
  <2>6. Left(NewLine) = <<>>
    BY DEF Left, NewLine
  <2>7. Stacked(Lexer, Blank)
    <3>1. ~ Defines(Lexer.stack) /\ Outside(Lexer) = <<>>
      BY <2>4 DEF Defines, Outside
    <3>2. LinesOf(<<>>) = {}
      BY DEF LinesOf, Held
    <3> QED
      BY <2>4, <2>5, <3>1, <3>2 DEF Stacked
  <2>8. Agree(Lexer, r[0])
    BY <2>2, <2>4, <2>5, <2>6, <2>7 DEF Agree
  <2>9. Settled(Lexer.tokens, r[0])
    <3>1. LastWord(Blank) = "none"
      BY <2>5 DEF LastWord
    <3> QED
      BY <2>2, <2>5, <3>1, SettledLast DEF Named
  <2>10. Follows(Lexer, written, r)
    BY <2>3, <2>8, <2>9, FollowsAt
  <2> QED
    BY <2>1, <2>10
<1> QED
  BY <1>2, <1>3 DEF GrammarInv

LEMMA GrammarInvTake == ASSUME GrammarInv, TakeToken PROVE GrammarInv'
<1> DEFINE a == Read(Lexer, 1)  q == Lexed(a, Head(tokens))
<1>1. outcome = "reading" /\ tokens # <<>> /\ Becomes(q) /\ written' = written
  BY DEF TakeToken
<1>2. LexerInv' /\ written \in Seq(Kinds) /\ WellMade(Lexer) /\ Lexer.tokens = tokens
  BY <1>1, LexerInvTake, TokenLexerAssumption DEF GrammarInv, LexerInv, Lexer
<1>3. CASE ~ Documented(Understood(written))
  <2>1. ~ Documented(Understood(written))'
    BY <1>1, <1>3
  <2> QED
    BY <1>2, <2>1 DEF GrammarInv, GrammarAccepted
<1>4. CASE Documented(Understood(written))
  <2>1. PICK r : /\ Along(written, r) /\ Understood(written) = EndStatement(r[Len(written)])
                 /\ Follows(Lexer, written, r)
    BY <1>1, <1>4 DEF GrammarInv
  <2>2. WellMade(a) /\ Head(tokens) \in Kinds
    <3>1. tokens \in Seq(Kinds)
      BY <1>2 DEF WellMade, LexerRec
    <3>2. 1 \in 0..Len(tokens) /\ Head(tokens) \in Kinds
      BY <1>1, <3>1
    <3> QED
      BY <1>2, <3>2, ReadMade
  <2>3. Follows(q, written, r)
    <3> HIDE DEF a
    <3>1. a = Read(Lexer, 1)
      BY DEF a
    <3> QED
      BY <1>1, <1>2, <2>1, <2>2, <3>1, TokenFollows
  <2>4. q.status = "reading"
    BY <2>3 DEF Follows, Agree
  <2> HIDE DEF a, q
  <2>5. WellMade(q) /\ q \in LexerRec
    <3>1. WellMade(q)
      BY <2>2, <2>4, LexedKeeps DEF Keeps, q
    <3> QED
      BY <3>1 DEF WellMade
  <2>6. Lexer' = q /\ outcome' = "reading"
    BY <1>1, <2>4, <2>5, BecomesLexer DEF Becomes
  <2>7. Follows(Lexer, written, r)'
    BY <1>1, <2>3, <2>6
  <2>8. Along(written, r)' /\ (Understood(written) = EndStatement(r[Len(written)]))'
    BY <1>1, <2>1
  <2> QED
    BY <1>2, <2>6, <2>7, <2>8 DEF GrammarInv, GrammarAccepted
<1> QED
  BY <1>3, <1>4

LEMMA GrammarInvEnd == ASSUME GrammarInv, EndOfTokens PROVE GrammarInv'
<1> DEFINE q == FinishLine(Lexer)
<1>1. outcome = "reading" /\ tokens = <<>> /\ written' = written
  BY DEF EndOfTokens
<1>2. /\ LexerInv' /\ written \in Seq(Kinds) /\ WellMade(Lexer) /\ Lexer.tokens = tokens
      /\ Lexer.stack = opened
  BY <1>1, LexerInvEnd, TokenLexerAssumption DEF GrammarInv, LexerInv, Lexer
<1>3. q \in LexerRec
  BY <1>2, FinishLineKeeps DEF Keeps, WellMade
<1> HIDE DEF q
<1>4. outcome' # "reading"
  BY <1>3 DEF EndOfTokens, Becomes, Fail, Stop, LexerRec, q
<1>5. ASSUME Documented(Understood(written))
      PROVE  /\ outcome' \in {"done", "refused"}
             /\ [i \in DOMAIN codeBlocks' |-> codeBlocks'[i].type] = Understood(written).items
  <2>1. PICK r : /\ Along(written, r) /\ Understood(written) = EndStatement(r[Len(written)])
                 /\ Follows(Lexer, written, r)
    BY <1>1, <1>5 DEF GrammarInv
  <2>2. PICK i : At(<<>>, written, i) /\ Agree(Lexer, r[i])
    BY <1>1, <1>2, <2>1 DEF Follows
  <2>3. i = Len(written)
    BY <1>2, <2>2 DEF At
  <2> DEFINE g == r[Len(written)]  h == EndStatement(g)
  <2>4. Agree(Lexer, g) /\ g.awaits = "nothing" /\ h.awaits = "nothing" /\ h.open = <<>>
    BY <1>5, <2>1, <2>2, <2>3 DEF Along, Documented
  <2>5. Agree(q, h) /\ h.open = g.open
    <3> HIDE DEF g
    <3>1. h.awaits # "correction"
      BY <2>4
    <3> QED
      BY <1>2, <2>4, <3>1, FinishAgrees DEF q
  <2> HIDE DEF g, h
  <2>6. opened = <<>> /\ q.stack = <<>>
    <3>1. g \in GrammarRec /\ Stacked(Lexer, g) /\ h \in GrammarRec /\ Stacked(q, h) /\ Lexer \in LexerRec
      BY <1>2, <2>4, <2>5 DEF Agree, WellMade
    <3>2. g.open = <<>>
      BY <2>4, <2>5
    <3> QED
      BY <1>2, <1>3, <2>4, <3>1, <3>2, OpenFirst
  <2>7. Outside(q) = q.blocks /\ q.blocks \in Seq(EntryRec)
    BY <1>3, <2>6 DEF Outside, Defines, LexerRec
  <2>8. /\ Len(h.items) = Len(q.blocks) /\ h.items \in Seq(Results)
        /\ \A j \in 1..Len(h.items) : h.items[j] = q.blocks[j].type
        /\ \A l \in LinesOf(q.blocks) : Readable(l)
    <3>1. Stacked(q, h) /\ h \in GrammarRec
      BY <2>5 DEF Agree
    <3> QED
      BY <2>7, <3>1, GrammarFields DEF Stacked
  <2>9. PICK s \in {"refused", "done"} : Becomes(Stop(q, s))
    BY <2>6, <2>8 DEF EndOfTokens, q
  <2>10. outcome' = s /\ codeBlocks' = q.blocks
    BY <1>3, <2>9 DEF Becomes, Stop, LexerRec
  <2>11. [j \in DOMAIN q.blocks |-> q.blocks[j].type] = h.items
    <3>1. DOMAIN q.blocks = 1..Len(q.blocks) /\ DOMAIN h.items = 1..Len(q.blocks)
          /\ h.items = [j \in DOMAIN h.items |-> h.items[j]]
      BY <2>7, <2>8
    <3>2. \A j \in 1..Len(q.blocks) : h.items[j] = q.blocks[j].type
      BY <2>8
    <3>3. [j \in 1..Len(q.blocks) |-> q.blocks[j].type] = [j \in 1..Len(q.blocks) |-> h.items[j]]
      BY <3>2, Zenon
    <3> QED
      BY <3>1, <3>3, Zenon
  <2>12. h = Understood(written)
    BY <2>1 DEF h, g
  <2> QED
    BY <2>9, <2>10, <2>11, <2>12
<1>6. GrammarAccepted'
  <2>1. SUFFICES ASSUME Documented(Understood(written))'
                 PROVE  /\ outcome' \in {"done", "refused"}
                        /\ [i \in DOMAIN codeBlocks' |-> codeBlocks'[i].type] = Understood(written').items
    BY DEF GrammarAccepted
  <2>2. Documented(Understood(written))
    BY <1>1, <2>1
  <2> QED
    BY <1>1, <1>5, <2>2
<1> QED
  BY <1>2, <1>4, <1>6 DEF GrammarInv

LEMMA GrammarInvStep == GrammarInv /\ [LexerNext]_lexerVars => GrammarInv'
<1> SUFFICES ASSUME GrammarInv, [LexerNext]_lexerVars PROVE GrammarInv'
  OBVIOUS
<1>1. CASE TakeToken
  BY <1>1, GrammarInvTake
<1>2. CASE EndOfTokens
  BY <1>2, GrammarInvEnd
<1>3. CASE UNCHANGED lexerVars
  <2>1. Lexer' = Lexer /\ outcome' = outcome /\ codeBlocks' = codeBlocks /\ written' = written
    BY <1>3 DEF lexerVars, Lexer
  <2>2. LexerInv'
    BY <1>3, LexerInvStep DEF GrammarInv
  <2> QED
    BY <2>1, <2>2 DEF GrammarInv, GrammarAccepted
<1> QED
  BY <1>1, <1>2, <1>3 DEF LexerNext

\* Lexer::lex takes every program written as README.md documents, of any
\* length: whatever a line, a block or a definition left behind, the next
\* statement finds its tokens, and the queue holds the statements in order.
THEOREM GrammarAlwaysAccepted == LexerSpec => []GrammarAccepted
<1>1. GrammarInv => GrammarAccepted
  BY DEF GrammarInv
<1> QED
  BY <1>1, GrammarInvInit, GrammarInvStep, PTL DEF LexerSpec
=============================================================================
