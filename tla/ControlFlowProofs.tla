--------------------------- MODULE ControlFlowProofs ---------------------------
(***************************************************************************)
(* Proofs about ControlFlow, for every set of well-formed programs.        *)
(*                                                                         *)
(* The properties are not inductive by themselves.  Which frame a result   *)
(* meets next depends on how the frames lie on each other: the frame of a  *)
(* block that is inside a loop of its function lies on the frame of that   *)
(* loop, or of a block inside it, and a called function lies on the frame  *)
(* whose line called it.  ControlInv adds this, and that the history       *)
(* variable names the innermost frame that consumes the result.            *)
(***************************************************************************)
EXTENDS ControlFlow, SequenceTheorems, TLAPS

FrameRec == [block : 0..Len(code.keyword), role : Roles, at : Nat \ {0}, left : Nat]

\* The block of a frame suits its role.
FrameOK(f) ==
  /\ f.role = "program" => f.block = 0
  /\ f.role = "function" => f.block # 0 /\ code.keyword[f.block] = "fun"
  /\ f.role = "body" => f.block # 0 /\ code.keyword[f.block] \in {"if", "try"} \cup Loops
  /\ f.role \in {"branch", "handler", "finally"} =>
       f.block # 0 /\ code.keyword[f.block] \in {"else", "catch", "finally"}

\* g is a frame whose last interpreted item exists.
HasLine(g) == g.at > 1 /\ g.at - 1 \in 1..Len(Items(g.block))

\* f may lie on g.
LiesOn(f, g) ==
  /\ f.role # "program"
  /\ f.role = "function" => HasLine(g)
  /\ f.role # "function" =>
       /\ f.block \in code.inLoop => Keyword(f.block) \in Loops \/ g.block \in code.inLoop
       /\ f.block \in code.inFunction => g.block \in code.inFunction

StackOf(fs) ==
  /\ fs \in Seq(FrameRec)
  /\ \A i \in 1..Len(fs) : FrameOK(fs[i])
  /\ \A i \in 2..Len(fs) : LiesOn(fs[i], fs[i - 1])
  /\ Len(fs) > 0 => fs[1].role \in {"program", "function"}

\* A result on its way was raised where it has a target.
Targeted(fs, r) ==
  Len(fs) > 0 =>
    /\ r \in {"BREAK", "CONTINUE"} => fs[Len(fs)].block \in code.inLoop
    /\ r = "RETURN" => fs[Len(fs)].block \in code.inFunction

ControlInv ==
  /\ WellFormed(code)
  /\ StackOf(frames)
  /\ result \in Statuses
  /\ Targeted(frames, result)
  /\ Landing(landing, result, frames)

-----------------------------------------------------------------------------
(* Frames *)

\* Removing the innermost frame leaves a stack of frames.
LEMMA StackBelow ==
  ASSUME StackOf(frames), Depth > 0
  PROVE  /\ StackOf(Below) /\ Len(Below) = Depth - 1
         /\ \A i \in 1..Depth - 1 : Below[i] = frames[i]
<1>1. /\ frames \in Seq(FrameRec) /\ Depth \in Nat
      /\ Depth - 1 \in Nat
  BY DEF StackOf, Depth
<1>2. Below \in Seq(FrameRec) /\ Len(Below) = Depth - 1 /\ \A i \in 1..Depth - 1 : Below[i] = frames[i]
  <2>1. 1 \in Int /\ Depth - 1 \in Int /\ \A i \in 1..Depth - 1 : frames[i] \in FrameRec
    BY <1>1 DEF Depth
  <2>2. /\ SubSeq(frames, 1, Depth - 1) \in Seq(FrameRec)
        /\ Len(SubSeq(frames, 1, Depth - 1)) = IF 1 <= Depth - 1 THEN Depth - 1 - 1 + 1 ELSE 0
        /\ \A i \in 1..Depth - 1 - 1 + 1 : SubSeq(frames, 1, Depth - 1)[i] = frames[1 + i - 1]
    BY <2>1, SubSeqProperties
  <2>3. Depth - 1 - 1 + 1 = Depth - 1 /\ \A i \in 1..Depth - 1 : 1 + i - 1 = i
    BY <1>1
  <2> QED  BY <1>1, <2>2, <2>3 DEF Below
<1>3. \A i \in 1..Len(Below) : FrameOK(Below[i])
  BY <1>1, <1>2 DEF StackOf, Depth
<1>4. \A i \in 2..Len(Below) : LiesOn(Below[i], Below[i - 1])
  <2> SUFFICES ASSUME NEW i \in 2..Len(Below) PROVE LiesOn(Below[i], Below[i - 1])
    OBVIOUS
  <2>1. i \in 1..Depth - 1 /\ i - 1 \in 1..Depth - 1 /\ i \in 2..Len(frames)
    BY <1>1, <1>2 DEF Depth
  <2>2. LiesOn(frames[i], frames[i - 1])
    BY <2>1 DEF StackOf
  <2> QED  BY <1>2, <2>1, <2>2
<1>5. Len(Below) > 0 => Below[1].role \in {"program", "function"}
  BY <1>1, <1>2 DEF StackOf, Depth
<1> QED  BY <1>2, <1>3, <1>4, <1>5 DEF StackOf

\* Laying a frame on the innermost one keeps a stack of frames.
LEMMA StackPush ==
  ASSUME NEW fs, StackOf(fs), NEW f \in FrameRec, FrameOK(f),
         Len(fs) > 0 => LiesOn(f, fs[Len(fs)]),
         Len(fs) = 0 => f.role = "function"
  PROVE  /\ StackOf(Append(fs, f)) /\ Len(Append(fs, f)) = Len(fs) + 1
         /\ Append(fs, f)[Len(fs) + 1] = f
         /\ \A i \in 1..Len(fs) : Append(fs, f)[i] = fs[i]
<1>1. fs \in Seq(FrameRec) /\ Len(fs) \in Nat
  BY DEF StackOf
<1>2. /\ Append(fs, f) \in Seq(FrameRec) /\ Len(Append(fs, f)) = Len(fs) + 1
      /\ Append(fs, f)[Len(fs) + 1] = f
      /\ \A i \in 1..Len(fs) : Append(fs, f)[i] = fs[i]
  BY <1>1
<1>3. \A i \in 1..Len(Append(fs, f)) : FrameOK(Append(fs, f)[i])
  BY <1>1, <1>2 DEF StackOf
<1>4. \A i \in 2..Len(Append(fs, f)) : LiesOn(Append(fs, f)[i], Append(fs, f)[i - 1])
  <2> SUFFICES ASSUME NEW i \in 2..Len(fs) + 1
               PROVE  LiesOn(Append(fs, f)[i], Append(fs, f)[i - 1])
    BY <1>2
  <2>1. CASE i = Len(fs) + 1
    <3>1. i - 1 = Len(fs) /\ i - 1 \in 1..Len(fs) /\ Len(fs) > 0
      BY <1>1, <2>1
    <3>2. Append(fs, f)[i] = f /\ Append(fs, f)[i - 1] = fs[Len(fs)]
      BY <1>2, <2>1, <3>1
    <3> QED  BY <3>1, <3>2
  <2>2. CASE i \in 2..Len(fs)
    <3>1. i \in 1..Len(fs) /\ i - 1 \in 1..Len(fs)
      BY <1>1, <2>2
    <3>2. LiesOn(fs[i], fs[i - 1])
      BY <2>2 DEF StackOf
    <3> QED  BY <1>2, <3>1, <3>2
  <2> QED  BY <1>1, <2>1, <2>2
<1>5. Append(fs, f)[1].role \in {"program", "function"}
  <2>1. CASE Len(fs) = 0
    BY <1>1, <1>2, <2>1
  <2>2. CASE Len(fs) > 0
    BY <1>1, <1>2, <2>2 DEF StackOf
  <2> QED  BY <1>1, <2>1, <2>2
<1> QED  BY <1>2, <1>3, <1>4, <1>5 DEF StackOf

\* Going on by n items in the innermost frame keeps a stack of frames.
LEMMA StackAdvance ==
  ASSUME StackOf(frames), Depth > 0, NEW n \in Nat
  PROVE  /\ StackOf(Advance(n)) /\ Len(Advance(n)) = Depth
         /\ Advance(n)[Depth] = [Top EXCEPT !.at = @ + n]
         /\ \A i \in 1..Depth - 1 : Advance(n)[i] = frames[i]
<1>1. frames \in Seq(FrameRec) /\ Depth \in Nat /\ Depth \in 1..Len(frames)
  BY DEF StackOf, Depth
<1>2. Top \in FrameRec
  BY <1>1 DEF Top
<1>3. [Top EXCEPT !.at = @ + n] \in FrameRec
  BY <1>2 DEF FrameRec
<1>4. /\ Advance(n) = [frames EXCEPT ![Depth] = [Top EXCEPT !.at = @ + n]]
      /\ Advance(n) \in Seq(FrameRec) /\ Len(Advance(n)) = Depth
      /\ Advance(n)[Depth] = [Top EXCEPT !.at = @ + n]
      /\ \A i \in 1..Depth - 1 : Advance(n)[i] = frames[i]
  BY <1>1, <1>3 DEF Advance, Top, Depth
<1>5. /\ [Top EXCEPT !.at = @ + n].role = Top.role
      /\ [Top EXCEPT !.at = @ + n].block = Top.block
  BY <1>2 DEF FrameRec
<1>6. \A i \in 1..Depth : FrameOK(Advance(n)[i])
  BY <1>1, <1>4, <1>5 DEF StackOf, FrameOK, Top, Depth
<1>7. \A i \in 2..Depth : LiesOn(Advance(n)[i], Advance(n)[i - 1])
  BY <1>1, <1>4, <1>5 DEF StackOf, LiesOn, Top, Depth
<1>8. Advance(n)[1].role = frames[1].role
  <2>1. CASE Depth = 1
    BY <1>4, <1>5, <2>1 DEF Top
  <2>2. CASE Depth # 1
    BY <1>1, <1>4, <2>2
  <2> QED
    BY <2>1, <2>2
<1>9. StackOf(Advance(n))
  <2>1. Advance(n)[1].role \in {"program", "function"}
    BY <1>1, <1>8 DEF StackOf
  <2>2. Advance(n) \in Seq(FrameRec) /\ Len(Advance(n)) = Depth
    BY <1>4
  <2> QED
    BY <1>6, <1>7, <2>1, <2>2 DEF StackOf
<1> QED
  BY <1>4, <1>9

-----------------------------------------------------------------------------
(* Programs *)

\* What a well-formed program says of one item.
LEMMA ItemOK ==
  ASSUME WellFormed(code), NEW b \in 0..Len(code.keyword), NEW i \in 1..Len(Items(b))
  PROVE  LET item == Items(b)[i] IN
         /\ item.does \in {"SUCCESS"} \cup Jumps
         /\ item.does \in {"BREAK", "CONTINUE"} => b \in code.inLoop
         /\ item.does = "RETURN" => b \in code.inFunction
         /\ item.type = "function" => item.block \in Blocks /\ code.keyword[item.block] = "fun"
         /\ item.type = "code" =>
              /\ item.block \in Blocks
              /\ code.keyword[item.block] \in {"if", "try"} \cup Loops
              /\ item.block \in code.inLoop => code.keyword[item.block] \in Loops \/ b \in code.inLoop
              /\ item.block \in code.inFunction => b \in code.inFunction
  BY DEF WellFormed, Items, Blocks

\* What it says of the block chained to one block.
LEMMA NextOK ==
  ASSUME WellFormed(code), NEW b \in Blocks, code.next[b] # 0
  PROVE  /\ code.next[b] \in Blocks
         /\ code.keyword[code.next[b]] \in {"else", "catch", "finally"}
         /\ code.keyword[b] \notin {"if", "try"} => code.keyword[code.next[b]] = "finally"
         /\ code.next[b] \in code.inLoop => b \in code.inLoop
         /\ code.next[b] \in code.inFunction => b \in code.inFunction
<1>1. /\ code.next[b] \in 0..Len(code.keyword) /\ Len(code.keyword) \in Nat
      /\ code.next[b] > 0 => <<code.keyword[b], code.keyword[code.next[b]]>> \in Chains
      /\ code.next[b] > 0 /\ code.next[b] \in code.inLoop => b \in code.inLoop
      /\ code.next[b] > 0 /\ code.next[b] \in code.inFunction => b \in code.inFunction
  BY DEF WellFormed, Blocks
<1>2. code.next[b] > 0 /\ code.next[b] \in 1..Len(code.keyword)
  BY <1>1
<1>3. <<code.keyword[b], code.keyword[code.next[b]]>> \in Chains
  BY <1>1, <1>2
<1>4. /\ code.keyword[code.next[b]] \in {"else", "catch", "finally"}
      /\ code.keyword[b] \notin {"if", "try"} => code.keyword[code.next[b]] = "finally"
  BY <1>3 DEF Chains
<1> QED  BY <1>1, <1>2, <1>4 DEF Blocks

LEMMA BlocksOK ==
  ASSUME WellFormed(code)
  PROVE  /\ Len(code.keyword) \in Nat
         /\ code.inLoop \subseteq Blocks /\ code.inFunction \subseteq Blocks
         /\ \A b \in Blocks : code.keyword[b] = "fun" => b \notin code.inLoop
         /\ code.main \in 0..Len(code.keyword)
         /\ code.main # 0 => code.main \in Blocks /\ code.keyword[code.main] = "fun"
<1>1. /\ Len(code.keyword) \in Nat /\ code.main \in 0..Len(code.keyword)
      /\ code.main > 0 => code.keyword[code.main] = "fun"
      /\ code.inLoop \subseteq 1..Len(code.keyword)
      /\ code.inFunction \subseteq 1..Len(code.keyword)
  BY DEF WellFormed
<1>2. \A b \in 1..Len(code.keyword) : code.keyword[b] = "fun" => b \notin code.inLoop
  BY DEF WellFormed
<1>3. code.main # 0 => code.main \in 1..Len(code.keyword)
  BY <1>1
<1> QED  BY <1>1, <1>2, <1>3 DEF Blocks

-----------------------------------------------------------------------------
(* Steps *)

LEMMA InitInv == Init => ControlInv
<1> SUFFICES ASSUME Init PROVE ControlInv
  OBVIOUS
<1>1. WellFormed(code)
  BY ProgramsAssumption DEF Init
<1>2. Frame(0, "program", 0) \in FrameRec
  BY <1>1, BlocksOK DEF Frame, FrameRec, Roles
<1>3. /\ frames \in Seq(FrameRec) /\ Len(frames) = 1 /\ frames[1] = Frame(0, "program", 0)
  BY <1>2 DEF Init
<1>4. StackOf(frames)
  BY <1>3 DEF StackOf, FrameOK, Frame
<1>5. result = "SUCCESS" /\ landing = 0
  BY DEF Init
<1> QED  BY <1>1, <1>3, <1>4, <1>5 DEF ControlInv, Targeted, Landing, Statuses

\* A step that yields r over the frames fs keeps the invariant if the frames
\* form a stack and r has its target around it.
LEMMA YieldInv ==
  ASSUME ControlInv, NEW fs, NEW r \in Statuses, Yield(fs, r), StackOf(fs), Targeted(fs, r)
  PROVE  ControlInv'
<1>1. /\ code' = code /\ frames' = fs /\ result' = r /\ Landing(landing', r, fs)
  BY DEF Yield
<1>2. WellFormed(code') /\ result' \in Statuses
  BY <1>1 DEF ControlInv
<1>3. StackOf(frames)'
  BY <1>1 DEF StackOf, FrameRec, FrameOK, LiesOn, HasLine, Items, Keyword
<1>4. Targeted(frames, result)'
  BY <1>1 DEF Targeted
<1>5. Landing(landing, result, frames)'
  BY <1>1 DEF Landing, LandsAt, Consumes, Keyword
<1> QED  BY <1>2, <1>3, <1>4, <1>5 DEF ControlInv

LEMMA ForwardInv ==
  ASSUME ControlInv, NEW fs, Forward(fs), StackOf(fs), Targeted(fs, result),
         Landing(landing, result, fs)
  PROVE  ControlInv'
<1>1. /\ code' = code /\ frames' = fs /\ result' = result /\ landing' = landing
  BY DEF Forward
<1>2. WellFormed(code') /\ result' \in Statuses
  BY <1>1 DEF ControlInv
<1>3. StackOf(frames)'
  BY <1>1 DEF StackOf, FrameRec, FrameOK, LiesOn, HasLine, Items, Keyword
<1>4. Targeted(frames, result)'
  BY <1>1 DEF Targeted
<1>5. Landing(landing, result, frames)'
  BY <1>1 DEF Landing, LandsAt, Consumes, Keyword
<1> QED  BY <1>2, <1>3, <1>4, <1>5 DEF ControlInv

\* The innermost frame, and the one it lies on.
LEMMA TopOK ==
  ASSUME ControlInv, Depth > 0
  PROVE  /\ Depth \in Nat /\ Top \in FrameRec /\ FrameOK(Top) /\ Top = frames[Len(frames)]
         /\ Top.block \in 0..Len(code.keyword)
         /\ Depth > 1 => LiesOn(Top, frames[Depth - 1]) /\ frames[Depth - 1] \in FrameRec
         /\ Depth = 1 => Top.role \in {"program", "function"}
<1>1. StackOf(frames) /\ Depth = Len(frames) /\ Top = frames[Depth]
  BY DEF ControlInv, Depth, Top
<1>2. frames \in Seq(FrameRec) /\ Depth \in Nat /\ Depth \in 1..Len(frames)
  BY <1>1 DEF StackOf
<1>3. Top \in FrameRec /\ FrameOK(Top)
  BY <1>1, <1>2 DEF StackOf
<1>4. Depth > 1 => LiesOn(Top, frames[Depth - 1]) /\ frames[Depth - 1] \in FrameRec
  BY <1>1, <1>2 DEF StackOf
<1>5. Depth = 1 => Top.role \in {"program", "function"}
  BY <1>1, <1>2 DEF StackOf
<1>6. Top.block \in 0..Len(code.keyword)
  BY <1>3 DEF FrameRec
<1> QED  BY <1>1, <1>2, <1>3, <1>4, <1>5, <1>6

\* A result that the innermost frame does not consume goes to the frame below.
LEMMA PassOn ==
  ASSUME ControlInv, Depth > 0, Forward(Below), ~ Consumes(Top, result),
         result \in {"SUCCESS", "ERROR"} \/ Top.role \notin {"program", "function"}
  PROVE  ControlInv'
<1>1. StackOf(Below) /\ Len(Below) = Depth - 1 /\ \A i \in 1..Depth - 1 : Below[i] = frames[i]
  BY StackBelow DEF ControlInv
<1>2. Landing(landing, result, Below)
  <2>1. Landing(landing, result, frames) /\ Len(frames) = Depth /\ Depth \in Nat
    BY TopOK DEF ControlInv, Depth
  <2>2. CASE result = "SUCCESS"
    BY <1>1, <2>1, <2>2 DEF Landing
  <2>3. CASE result # "SUCCESS"
    <3>1. landing # Depth
      BY <2>1, <2>3 DEF Landing, LandsAt, Top
    <3>2. landing \in 0..Depth - 1
      BY <2>1, <3>1 DEF Landing
    <3>3. LandsAt(landing, result, Below)
      BY <1>1, <2>1, <2>3, <3>2 DEF Landing, LandsAt
    <3> QED  BY <1>1, <2>3, <3>2, <3>3 DEF Landing
  <2> QED  BY <2>2, <2>3
<1>3. Targeted(Below, result)
  <2> SUFFICES ASSUME Len(Below) > 0, result \in Jumps
               PROVE  /\ result \in {"BREAK", "CONTINUE"} => Below[Len(Below)].block \in code.inLoop
                      /\ result = "RETURN" => Below[Len(Below)].block \in code.inFunction
    BY DEF Targeted, Jumps
  <2>1. Depth > 1 /\ Below[Len(Below)] = frames[Depth - 1] /\ Depth - 1 \in Nat
    BY <1>1, TopOK
  <2>2. LiesOn(Top, frames[Depth - 1]) /\ FrameOK(Top) /\ Top \in FrameRec
    BY <2>1, TopOK
  <2>3. Top.role \notin {"program", "function"}
    BY DEF Jumps
  <2>4. /\ result \in {"BREAK", "CONTINUE"} => Top.block \in code.inLoop
        /\ result = "RETURN" => Top.block \in code.inFunction
    BY TopOK DEF ControlInv, Targeted, Depth
  <2>5. result \in {"BREAK", "CONTINUE"} => Keyword(Top.block) \notin Loops
    <3>1. CASE Top.role = "body"
      BY <3>1 DEF Consumes
    <3>2. CASE Top.role # "body"
      BY <2>2, <2>3, <3>2 DEF FrameOK, FrameRec, Roles, Keyword, Loops
    <3> QED  BY <3>1, <3>2
  <2> QED  BY <2>1, <2>2, <2>3, <2>4, <2>5 DEF LiesOn
<1> QED  BY <1>1, <1>2, <1>3, ForwardInv

\* A loop that ends, or an error of its line, goes to the frame below.
LEMMA EndInv ==
  ASSUME ControlInv, Depth > 0, NEW r \in {"SUCCESS", "ERROR"}, Yield(Below, r)
  PROVE  ControlInv'
<1>1. StackOf(Below)
  BY StackBelow DEF ControlInv
<1>2. Targeted(Below, r) /\ r \in Statuses
  BY DEF Targeted, Statuses
<1> QED  BY <1>1, <1>2, YieldInv

\* The innermost frame is replaced by the frame of a block that lies on the
\* same frame.
LEMMA ReplaceInv ==
  ASSUME ControlInv, Depth > 0, NEW f \in FrameRec, FrameOK(f), Yield(Replace(f), "SUCCESS"),
         Depth > 1 => LiesOn(f, frames[Depth - 1]),
         Depth = 1 => f.role = "function"
  PROVE  ControlInv'
<1>1. StackOf(Below) /\ Len(Below) = Depth - 1 /\ \A i \in 1..Depth - 1 : Below[i] = frames[i]
  BY StackBelow DEF ControlInv
<1>2. Depth \in Nat
  BY TopOK
<1>3. StackOf(Append(Below, f))
  BY <1>1, <1>2, StackPush
<1>4. Targeted(Replace(f), "SUCCESS") /\ "SUCCESS" \in Statuses
  BY DEF Targeted, Statuses
<1> QED  BY <1>3, <1>4, YieldInv DEF Replace

\* The innermost frame goes on by n items.
LEMMA AdvanceOK ==
  ASSUME ControlInv, Ready, NEW n \in {1, 2}
  PROVE  /\ StackOf(Advance(n)) /\ Len(Advance(n)) = Depth
         /\ Advance(n)[Depth].block = Top.block /\ Advance(n)[Depth].at = Top.at + n
         /\ Top.at \in 1..Len(Items(Top.block)) /\ Top.block \in 0..Len(code.keyword)
         /\ Depth \in Nat /\ Depth > 0 /\ Len(Items(Top.block)) \in Nat
<1>1. Depth > 0 /\ n \in Nat /\ StackOf(frames)
  BY DEF Ready, ControlInv
<1>2. Top \in FrameRec /\ Depth \in Nat /\ Top.block \in 0..Len(code.keyword)
  BY <1>1, TopOK
<1>3. /\ StackOf(Advance(n)) /\ Len(Advance(n)) = Depth
      /\ Advance(n)[Depth] = [Top EXCEPT !.at = @ + n]
  BY <1>1, StackAdvance
<1>4. [Top EXCEPT !.at = @ + n].block = Top.block /\ [Top EXCEPT !.at = @ + n].at = Top.at + n
  BY <1>2 DEF FrameRec
<1>5. Len(Items(Top.block)) \in Nat
  BY <1>2 DEF WellFormed, ControlInv, Items
<1>6. Top.at \in 1..Len(Items(Top.block))
  BY <1>2, <1>5 DEF Ready, FrameRec
<1> QED  BY <1>1, <1>2, <1>3, <1>4, <1>5, <1>6

\* A line that yields r.
LEMMA LineInv ==
  ASSUME ControlInv, Ready, NEW n \in {1, 2}, NEW r \in {Item.does, "ERROR"}, Yield(Advance(n), r)
  PROVE  ControlInv'
<1>1. /\ StackOf(Advance(n)) /\ Len(Advance(n)) = Depth /\ Depth > 0
      /\ Advance(n)[Depth].block = Top.block
      /\ Top.at \in 1..Len(Items(Top.block)) /\ Top.block \in 0..Len(code.keyword)
  BY AdvanceOK
<1>2. /\ Item.does \in {"SUCCESS"} \cup Jumps
      /\ Item.does \in {"BREAK", "CONTINUE"} => Top.block \in code.inLoop
      /\ Item.does = "RETURN" => Top.block \in code.inFunction
  BY <1>1, ItemOK DEF Item, ControlInv
<1>3. Targeted(Advance(n), r) /\ r \in Statuses
  BY <1>1, <1>2 DEF Targeted, Statuses, Jumps
<1> QED  BY <1>1, <1>3, YieldInv

\* Going on without a result.
LEMMA SkipInv ==
  ASSUME ControlInv, Ready, NEW n \in {1, 2}, Forward(Advance(n))
  PROVE  ControlInv'
<1>1. StackOf(Advance(n)) /\ Len(Advance(n)) = Depth /\ Depth \in Nat
  BY AdvanceOK
<1>2. result = "SUCCESS" /\ landing = 0
  BY DEF Ready, ControlInv, Landing
<1>3. Targeted(Advance(n), result) /\ Landing(landing, result, Advance(n))
  BY <1>1, <1>2 DEF Targeted, Landing
<1> QED  BY <1>1, <1>3, ForwardInv

\* A frame is laid on the innermost one.
LEMMA EnterInv ==
  ASSUME ControlInv, Ready, NEW n \in {1, 2}, NEW f \in FrameRec, FrameOK(f),
         Forward(Append(Advance(n), f)), f.role # "program",
         f.role = "function" => n = 1,
         f.role # "function" =>
           /\ f.block \in code.inLoop => Keyword(f.block) \in Loops \/ Top.block \in code.inLoop
           /\ f.block \in code.inFunction => Top.block \in code.inFunction
  PROVE  ControlInv'
<1>1. /\ StackOf(Advance(n)) /\ Len(Advance(n)) = Depth
      /\ Advance(n)[Depth].block = Top.block /\ Advance(n)[Depth].at = Top.at + n
      /\ Top.at \in 1..Len(Items(Top.block)) /\ Depth \in Nat /\ Depth > 0
      /\ Len(Items(Top.block)) \in Nat
  BY AdvanceOK
<1>2. f.role = "function" => HasLine(Advance(n)[Depth])
  BY <1>1 DEF HasLine
<1>3. LiesOn(f, Advance(n)[Depth])
  BY <1>1, <1>2 DEF LiesOn
<1>4. StackOf(Append(Advance(n), f)) /\ Len(Append(Advance(n), f)) = Depth + 1
  BY <1>1, <1>3, StackPush
<1>5. result = "SUCCESS" /\ landing = 0
  BY DEF Ready, ControlInv, Landing
<1>6. /\ Targeted(Append(Advance(n), f), result)
      /\ Landing(landing, result, Append(Advance(n), f))
  BY <1>1, <1>4, <1>5 DEF Targeted, Landing
<1> QED  BY <1>4, <1>6, ForwardInv

\* The block a line leads, and the block chained to it, may be entered.
LEMMA LedOK ==
  ASSUME ControlInv, Ready, LeadsBlock
  PROVE  /\ BlockLed \in Blocks /\ code.keyword[BlockLed] \in {"if", "try"} \cup Loops
         /\ Keyword(BlockLed) = code.keyword[BlockLed]
         /\ BlockLed \in code.inLoop => Keyword(BlockLed) \in Loops \/ Top.block \in code.inLoop
         /\ BlockLed \in code.inFunction => Top.block \in code.inFunction
         /\ \A left \in Nat : Frame(BlockLed, "body", left) \in FrameRec
                              /\ FrameOK(Frame(BlockLed, "body", left))
<1>1. /\ Top.at \in 1..Len(Items(Top.block)) /\ Top.block \in 0..Len(code.keyword)
      /\ Len(Items(Top.block)) \in Nat
  BY AdvanceOK
<1>2. Top.at + 1 \in 1..Len(Items(Top.block)) /\ Items(Top.block)[Top.at + 1].type = "code"
  BY <1>1 DEF LeadsBlock
<1>3. /\ BlockLed \in Blocks /\ code.keyword[BlockLed] \in {"if", "try"} \cup Loops
      /\ BlockLed \in code.inLoop => code.keyword[BlockLed] \in Loops \/ Top.block \in code.inLoop
      /\ BlockLed \in code.inFunction => Top.block \in code.inFunction
  BY <1>1, <1>2, ItemOK DEF BlockLed, ControlInv
<1>4. BlockLed # 0 /\ BlockLed \in 0..Len(code.keyword)
  BY <1>3, BlocksOK DEF Blocks, ControlInv
<1>5. ASSUME NEW left \in Nat
      PROVE  Frame(BlockLed, "body", left) \in FrameRec /\ FrameOK(Frame(BlockLed, "body", left))
  BY <1>3, <1>4 DEF Frame, FrameRec, FrameOK, Roles
<1> QED  BY <1>3, <1>4, <1>5 DEF Keyword

\* A frame for the block chained to b.
LEMMA ChainedOK ==
  ASSUME ControlInv, NEW b \in Blocks, code.next[b] # 0,
         NEW role \in {"branch", "handler", "finally"}
  PROVE  /\ Frame(code.next[b], role, 0) \in FrameRec
         /\ FrameOK(Frame(code.next[b], role, 0))
<1>1. /\ code.next[b] \in Blocks /\ code.keyword[code.next[b]] \in {"else", "catch", "finally"}
      /\ code.next[b] \in 0..Len(code.keyword)
  BY NextOK, BlocksOK DEF ControlInv, Blocks
<1> QED  BY <1>1 DEF Frame, FrameRec, FrameOK, Roles
\* The rest of the line that called the innermost function.
LEMMA ReturnInv ==
  ASSUME ControlInv, Depth > 0, Top.role = "function",
         NEW r \in {IF Depth = 1 THEN "SUCCESS"
                    ELSE LET c == Below[Depth - 1] IN Items(c.block)[c.at - 1].does, "ERROR"},
         Yield(Below, r)
  PROVE  ControlInv'
<1>1. StackOf(Below) /\ Len(Below) = Depth - 1 /\ \A i \in 1..Depth - 1 : Below[i] = frames[i]
  BY StackBelow DEF ControlInv
<1>2. Depth \in Nat
  BY TopOK
<1>3. CASE Depth = 1 \/ r = "ERROR"
  <2>1. r \in {"SUCCESS", "ERROR"}
    BY <1>3
  <2> QED  BY <2>1, EndInv
<1>4. CASE Depth > 1 /\ r # "ERROR"
  <2> DEFINE c == frames[Depth - 1]
  <2>1. LiesOn(Top, c) /\ c \in FrameRec /\ Below[Depth - 1] = c /\ Len(Below) > 0
    BY <1>1, <1>2, <1>4, TopOK
  <2>2. HasLine(c) /\ c.block \in 0..Len(code.keyword)
    BY <2>1 DEF LiesOn, FrameRec
  <2>3. c.at - 1 \in 1..Len(Items(c.block))
    BY <2>2 DEF HasLine
  <2>4. r = Items(c.block)[c.at - 1].does
    BY <1>4, <2>1
  <2>5. /\ r \in {"SUCCESS"} \cup Jumps
        /\ r \in {"BREAK", "CONTINUE"} => c.block \in code.inLoop
        /\ r = "RETURN" => c.block \in code.inFunction
    BY <2>2, <2>3, <2>4, ItemOK DEF ControlInv
  <2>6. Targeted(Below, r) /\ r \in Statuses
    BY <1>1, <2>1, <2>5 DEF Targeted, Statuses, Jumps
  <2> QED  BY <1>1, <2>6, YieldInv
<1> QED  BY <1>2, <1>3, <1>4

\* A block outside every loop and function, a program or a function, is not
\* left with a jump it does not consume.
LEMMA NoJumpAtTop ==
  ASSUME ControlInv, Depth > 0, Top.role \in {"program", "function"}
  PROVE  /\ result \notin {"BREAK", "CONTINUE"}
         /\ Top.role = "program" => result # "RETURN"
<1>1. /\ result \in {"BREAK", "CONTINUE"} => Top.block \in code.inLoop
      /\ result = "RETURN" => Top.block \in code.inFunction
  BY TopOK DEF ControlInv, Targeted, Depth
<1>2. FrameOK(Top) /\ Top.block \in 0..Len(code.keyword)
  BY TopOK
<1>3. 0 \notin code.inLoop /\ 0 \notin code.inFunction
  BY BlocksOK DEF ControlInv, Blocks
<1>4. Top.block \notin code.inLoop
  <2>1. CASE Top.block = 0
    BY <1>3, <2>1
  <2>2. CASE Top.block # 0
    BY <1>2, <2>2, BlocksOK DEF FrameOK, ControlInv, Blocks
  <2> QED  BY <2>1, <2>2
<1> QED  BY <1>1, <1>2, <1>3, <1>4 DEF FrameOK

\* The block chained to that of the innermost frame may take its place.
LEMMA ChainInv ==
  ASSUME ControlInv, Depth > 0, Top.role \in {"body", "handler"},
         Top.role = "body" => Keyword(Top.block) = "try",
         code.next[Top.block] # 0, NEW role \in {"handler", "finally"},
         Yield(Replace(Frame(code.next[Top.block], role, 0)), "SUCCESS")
  PROVE  ControlInv'
<1> DEFINE f == Frame(code.next[Top.block], role, 0)
<1>1. FrameOK(Top) /\ Top.block \in 0..Len(code.keyword) /\ Top.block \in Blocks
  BY TopOK DEF FrameOK, Blocks
<1>2. f \in FrameRec /\ FrameOK(f) /\ f.role = role /\ f.block = code.next[Top.block]
  BY <1>1, ChainedOK DEF Frame
<1>3. Depth > 1 /\ LiesOn(Top, frames[Depth - 1])
  BY TopOK
<1>4. Keyword(Top.block) \notin Loops
  BY <1>1 DEF FrameOK, Keyword, Loops, Blocks
<1>5. /\ f.block \in code.inLoop => Top.block \in code.inLoop
      /\ f.block \in code.inFunction => Top.block \in code.inFunction
  BY <1>1, <1>2, NextOK DEF ControlInv
<1>6. LiesOn(f, frames[Depth - 1])
  BY <1>2, <1>3, <1>4, <1>5 DEF LiesOn
<1> QED  BY <1>2, <1>3, <1>6, ReplaceInv
\* A loop goes round once more.
LEMMA AgainInv ==
  ASSUME ControlInv, Depth > 0, Top.role = "body", Keyword(Top.block) \in Loops,
         NEW left \in Nat, Yield(Again(left), "SUCCESS")
  PROVE  ControlInv'
<1> DEFINE f == Frame(Top.block, Top.role, left)
<1>1. Top \in FrameRec /\ FrameOK(Top) /\ Depth > 1 /\ LiesOn(Top, frames[Depth - 1])
  BY TopOK
<1>2. f \in FrameRec /\ f.role = Top.role /\ f.block = Top.block
  BY <1>1 DEF FrameRec, Frame
<1>3. FrameOK(f) /\ LiesOn(f, frames[Depth - 1])
  BY <1>1, <1>2 DEF FrameOK, LiesOn
<1> QED  BY <1>1, <1>2, <1>3, ReplaceInv DEF Again

\* Steps inside a queue.
LEMMA QueueInv ==
  ASSUME ControlInv,
         \/ InterpretLine \/ CallFunction \/ DefineFunction \/ BlockWithoutLine \/ ConditionFails
         \/ EnterIf \/ EnterWhile \/ EnterFor \/ EnterTry
  PROVE  ControlInv'
<1>1. CASE InterpretLine
  BY <1>1, LineInv DEF InterpretLine
<1>2. CASE CallFunction
  <2>1. PICK f \in Blocks : Bound(f) /\ Forward(Append(Advance(1), Frame(f, "function", 0)))
    BY <1>2 DEF CallFunction
  <2>2. PICK i \in 1..Len(Items(0)) : Items(0)[i].type = "function" /\ Items(0)[i].block = f
    BY <2>1 DEF Bound
  <2>3. code.keyword[f] = "fun"
    BY <2>2, BlocksOK, ItemOK DEF ControlInv
  <2>4. f # 0 /\ f \in 0..Len(code.keyword)
    BY BlocksOK DEF Blocks, ControlInv
  <2>5. /\ Frame(f, "function", 0) \in FrameRec /\ FrameOK(Frame(f, "function", 0))
        /\ Frame(f, "function", 0).role = "function"
    BY <2>3, <2>4 DEF Frame, FrameRec, FrameOK, Roles
  <2>6. Ready
    BY <1>2 DEF CallFunction
  <2> QED  BY <2>1, <2>5, <2>6, EnterInv
<1>3. CASE DefineFunction
  BY <1>3, SkipInv DEF DefineFunction
<1>4. CASE BlockWithoutLine
  BY <1>4, LineInv DEF BlockWithoutLine
<1>5. CASE ConditionFails
  BY <1>5, LineInv DEF ConditionFails
<1>6. ASSUME Ready, LeadsBlock, NEW left \in Nat, Enter(BlockLed, "body", left)
      PROVE  ControlInv'
  <2> DEFINE f == Frame(BlockLed, "body", left)
  <2>1. f \in FrameRec /\ FrameOK(f) /\ f.role = "body" /\ f.block = BlockLed
    BY <1>6, LedOK DEF Frame
  <2>2. /\ f.block \in code.inLoop => Keyword(f.block) \in Loops \/ Top.block \in code.inLoop
        /\ f.block \in code.inFunction => Top.block \in code.inFunction
    BY <1>6, <2>1, LedOK
  <2> QED  BY <1>6, <2>1, <2>2, EnterInv DEF Enter
<1>7. ASSUME Ready, Skip
      PROVE  ControlInv'
  BY <1>7, SkipInv DEF Skip
<1>8. CASE EnterIf
  <2>1. Ready /\ LeadsBlock /\ Keyword(BlockLed) = "if"
    BY <1>8 DEF EnterIf
  <2>2. CASE Enter(BlockLed, "body", 0)
    BY <1>6, <2>1, <2>2
  <2>3. CASE code.next[BlockLed] # 0 /\ Enter(code.next[BlockLed], "branch", 0)
    <3> DEFINE f == Frame(code.next[BlockLed], "branch", 0)
    <3>1. BlockLed \in Blocks /\ Keyword(BlockLed) \notin Loops
      BY <2>1, LedOK DEF Loops
    <3>2. f \in FrameRec /\ FrameOK(f) /\ f.role = "branch" /\ f.block = code.next[BlockLed]
      BY <2>3, <3>1, ChainedOK DEF Frame
    <3>3. /\ f.block \in code.inLoop => Top.block \in code.inLoop
          /\ f.block \in code.inFunction => Top.block \in code.inFunction
      BY <2>1, <2>3, <3>1, <3>2, LedOK, NextOK DEF ControlInv
    <3> QED  BY <2>1, <2>3, <3>2, <3>3, EnterInv DEF Enter
  <2>4. CASE Skip
    BY <1>7, <2>1, <2>4
  <2> QED  BY <1>8, <2>2, <2>3, <2>4 DEF EnterIf
<1>9. CASE EnterWhile
  BY <1>6, <1>7, <1>9 DEF EnterWhile
<1>10. CASE EnterFor
  <2>1. Ready /\ LeadsBlock
    BY <1>10 DEF EnterFor
  <2>2. PICK turns \in 0..MaxTurns :
          IF turns = 0 THEN Skip ELSE Enter(BlockLed, "body", turns - 1)
    BY <1>10 DEF EnterFor
  <2>3. turns # 0 => turns - 1 \in Nat
    BY BoundsAssumption
  <2> QED  BY <1>6, <1>7, <2>1, <2>2, <2>3
<1>11. CASE EnterTry
  BY <1>6, <1>11 DEF EnterTry
<1> QED  BY <1>1, <1>2, <1>3, <1>4, <1>5, <1>8, <1>9, <1>10, <1>11

\* Steps out of a queue.
LEMMA LeaveInv ==
  ASSUME ControlInv,
         \/ LeavePlain \/ LeaveWhile \/ LeaveFor \/ LeaveTry \/ LeaveHandler
         \/ LeaveFunction \/ LeaveProgram
  PROVE  ControlInv'
<1>1. Depth > 0
  BY DEF Leaving, LeavePlain, LeaveWhile, LeaveFor, LeaveTry, LeaveHandler, LeaveFunction, LeaveProgram
<1>2. Top \in FrameRec /\ FrameOK(Top) /\ Top.block \in 0..Len(code.keyword) /\ Depth \in Nat
  BY <1>1, TopOK
<1>3. result \in Statuses
  BY DEF ControlInv
<1>4. CASE LeavePlain
  <2>1. ~ Consumes(Top, result) /\ Top.role \notin {"program", "function"}
    BY <1>3, <1>4 DEF LeavePlain, Consumes, Loops, Statuses, Jumps
  <2> QED  BY <1>1, <1>4, <2>1, PassOn DEF LeavePlain
<1>5. CASE LeaveWhile
  <2>1. Top.role = "body" /\ Keyword(Top.block) = "while"
    BY <1>5 DEF LeaveWhile
  <2>2. CASE result \in {"ERROR", "RETURN"} /\ Forward(Below)
    <3>1. ~ Consumes(Top, result)
      BY <2>1, <2>2 DEF Consumes
    <3> QED  BY <1>1, <2>1, <2>2, <3>1, PassOn
  <2>3. CASE \E r \in {"SUCCESS", "ERROR"} : Yield(Below, r)
    BY <1>1, <2>3, EndInv
  <2>4. CASE Yield(Again(0), "SUCCESS")
    BY <1>1, <2>1, <2>4, AgainInv DEF Loops
  <2> QED  BY <1>5, <2>2, <2>3, <2>4 DEF LeaveWhile
<1>6. CASE LeaveFor
  <2>1. Top.role = "body" /\ Keyword(Top.block) = "for"
    BY <1>6 DEF LeaveFor
  <2>2. CASE result \in {"ERROR", "RETURN"} /\ Forward(Below)
    <3>1. ~ Consumes(Top, result)
      BY <2>1, <2>2 DEF Consumes
    <3> QED  BY <1>1, <2>1, <2>2, <3>1, PassOn
  <2>3. CASE Yield(Below, "SUCCESS")
    BY <1>1, <2>3, EndInv
  <2>4. CASE Top.left > 0 /\ Yield(Again(Top.left - 1), "SUCCESS")
    <3>1. Top.left - 1 \in Nat
      BY <1>2, <2>4 DEF FrameRec
    <3> QED  BY <1>1, <2>1, <2>4, <3>1, AgainInv DEF Loops
  <2> QED  BY <1>6, <2>2, <2>3, <2>4 DEF LeaveFor
<1>7. CASE LeaveTry
  <2>1. Top.role = "body" /\ Keyword(Top.block) = "try"
    BY <1>7 DEF LeaveTry
  <2> DEFINE then == code.next[Top.block]
  <2>2. CASE then # 0 /\ Yield(Replace(Frame(then, "handler", 0)), "SUCCESS")
    BY <1>1, <2>1, <2>2, ChainInv
  <2>3. CASE then # 0 /\ Yield(Replace(Frame(then, "finally", 0)), "SUCCESS")
    BY <1>1, <2>1, <2>3, ChainInv
  <2>4. CASE (then = 0 \/ (result # "ERROR" /\ Keyword(then) # "finally")) /\ Forward(Below)
    <3>1. ~ Consumes(Top, result)
      BY <2>1, <2>4 DEF Consumes, Loops
    <3> QED  BY <1>1, <2>1, <2>4, <3>1, PassOn
  <2> QED  BY <1>7, <2>2, <2>3, <2>4 DEF LeaveTry
<1>8. CASE LeaveHandler
  <2>1. Top.role = "handler"
    BY <1>8 DEF LeaveHandler
  <2> DEFINE then == code.next[Top.block]
  <2>2. CASE then # 0 /\ Yield(Replace(Frame(then, "finally", 0)), "SUCCESS")
    BY <1>1, <2>1, <2>2, ChainInv
  <2>3. CASE Forward(Below)
    <3>1. ~ Consumes(Top, result)
      BY <2>1 DEF Consumes
    <3> QED  BY <1>1, <2>1, <2>3, <3>1, PassOn
  <2> QED  BY <1>8, <2>2, <2>3 DEF LeaveHandler
<1>9. CASE LeaveFunction
  <2>1. Top.role = "function"
    BY <1>9 DEF LeaveFunction
  <2>2. CASE result = "ERROR" /\ Forward(Below)
    <3>1. ~ Consumes(Top, result)
      BY <2>1, <2>2 DEF Consumes
    <3> QED  BY <1>1, <2>2, <3>1, PassOn
  <2>3. CASE \E r \in {IF Depth = 1 THEN "SUCCESS"
                       ELSE LET c == Below[Depth - 1] IN Items(c.block)[c.at - 1].does, "ERROR"} :
               Yield(Below, r)
    BY <1>1, <2>1, <2>3, ReturnInv
  <2> QED  BY <1>9, <2>2, <2>3 DEF LeaveFunction
<1>10. CASE LeaveProgram
  <2>1. Top.role = "program"
    BY <1>10 DEF LeaveProgram
  <2>2. CASE code.main # 0 /\ Yield(<<Frame(code.main, "function", 0)>>, "SUCCESS")
    <3> DEFINE f == Frame(code.main, "function", 0)
    <3>1. f \in FrameRec /\ FrameOK(f) /\ f.role = "function"
      BY <2>2, BlocksOK DEF ControlInv, Frame, FrameRec, FrameOK, Roles
    <3>2. StackOf(<<f>>)
      BY <3>1 DEF StackOf
    <3>3. Targeted(<<f>>, "SUCCESS") /\ "SUCCESS" \in Statuses
      BY DEF Targeted, Statuses
    <3> QED  BY <2>2, <3>2, <3>3, YieldInv
  <2>3. CASE Forward(Below)
    <3>1. result \in {"SUCCESS", "ERROR"}
      BY <1>1, <1>3, <2>1, NoJumpAtTop DEF Statuses, Jumps
    <3>2. ~ Consumes(Top, result)
      BY <2>1, <3>1 DEF Consumes
    <3> QED  BY <1>1, <2>3, <3>1, <3>2, PassOn
  <2> QED  BY <1>10, <2>2, <2>3 DEF LeaveProgram
<1> QED  BY <1>4, <1>5, <1>6, <1>7, <1>8, <1>9, <1>10

LEMMA NextInv == ControlInv /\ [Next]_vars => ControlInv'
<1> SUFFICES ASSUME ControlInv, [Next]_vars PROVE ControlInv'
  OBVIOUS
<1>1. CASE Next
  BY <1>1, QueueInv, LeaveInv DEF Next
<1>2. CASE UNCHANGED vars
  BY <1>2 DEF vars, ControlInv, StackOf, FrameRec, FrameOK, LiesOn, HasLine, Items, Keyword,
              Targeted, Landing, LandsAt, Consumes
<1> QED  BY <1>1, <1>2
LEMMA Invariance == Spec => []ControlInv
<1> QED  BY InitInv, NextInv, PTL DEF Spec

-----------------------------------------------------------------------------
(* Theorems *)

\* Every frame names a block of the program and a place in it, and the history
\* variable a frame: Interpreter::interpret never runs past its blocks.
THEOREM TypeCorrect == Spec => []TypeOK
<1>1. ControlInv => TypeOK
  <2> SUFFICES ASSUME ControlInv PROVE TypeOK
    OBVIOUS
  <2>1. frames \in Seq(FrameRec) /\ Len(frames) \in Nat
    BY DEF ControlInv, StackOf
  <2>2. landing \in Nat
    BY <2>1 DEF ControlInv, Landing
  <2> QED  BY <2>1, <2>2 DEF ControlInv, TypeOK, FrameRec
<1> QED  BY <1>1, Invariance, PTL

\* A program that ends on an error had no try around the line that raised it
\* which something follows, neither in its own function nor in a caller:
\* interpretTry sees every error that passes through it.
THEOREM ReportedErrorsUncaught == Spec => []ReportedMeansUncaught
<1>1. ControlInv => ReportedMeansUncaught
  <2> SUFFICES ASSUME ControlInv, frames = <<>>, result = "ERROR" PROVE landing = 0
    BY DEF ReportedMeansUncaught
  <2> QED  BY DEF ControlInv, Landing
<1> QED  BY <1>1, Invariance, PTL

\* A break or a continue never reaches the end of its function or of the
\* program, a return never the end of the program: UserRPNFunction::call and
\* interpretFile meet only results they handle.
THEOREM JumpsStayHome == Spec => []NoStrayJump
<1>1. ControlInv => NoStrayJump
  BY NoJumpAtTop DEF NoStrayJump
<1> QED  BY <1>1, Invariance, PTL

\* The innermost frame consumes a result only as the one that was to.
LEMMA ConsumedHere ==
  ASSUME ControlInv, Depth > 0, result # "SUCCESS", Consumes(Top, result)
  PROVE  Depth = landing
<1>1. Depth \in Nat /\ Depth = Len(frames) /\ Top = frames[Depth]
  BY TopOK DEF Depth
<1>2. landing \in 0..Depth /\ \A i \in landing + 1 .. Depth : ~ Consumes(frames[i], result)
  BY <1>1 DEF ControlInv, Landing, LandsAt
<1>3. ~ (Depth \in landing + 1 .. Depth)
  BY <1>1, <1>2
<1> QED  BY <1>1, <1>2, <1>3

\* What one step may do to a result on its way.
LEMMA StepLands ==
  ASSUME ControlInv, Next, result # "SUCCESS", result' # result
  PROVE  Depth = landing \/ FinallyNext
<1>1. result \in Statuses
  BY DEF ControlInv
<1>2. ~ \/ InterpretLine \/ CallFunction \/ DefineFunction \/ BlockWithoutLine \/ ConditionFails
        \/ EnterIf \/ EnterWhile \/ EnterFor \/ EnterTry
  BY DEF Ready, InterpretLine, CallFunction, DefineFunction, BlockWithoutLine, ConditionFails,
         EnterIf, EnterWhile, EnterFor, EnterTry
<1>3. Depth > 0 /\ ~ Forward(Below)
  BY <1>2 DEF Next, Forward, Leaving, LeavePlain, LeaveWhile, LeaveFor, LeaveTry, LeaveHandler,
              LeaveFunction, LeaveProgram
<1>4. Top \in FrameRec /\ FrameOK(Top) /\ Top.block \in 0..Len(code.keyword)
  BY <1>3, TopOK
<1>5. CASE LeavePlain
  BY <1>3, <1>5 DEF LeavePlain
<1>6. CASE LeaveWhile
  <2>1. Consumes(Top, result)
    BY <1>3, <1>6 DEF LeaveWhile, Consumes, Loops
  <2> QED  BY <1>3, <2>1, ConsumedHere
<1>7. CASE LeaveFor
  <2>1. Consumes(Top, result)
    BY <1>3, <1>7 DEF LeaveFor, Consumes, Loops
  <2> QED  BY <1>3, <2>1, ConsumedHere
<1>8. CASE LeaveTry
  <2>1. Top.role = "body" /\ Keyword(Top.block) = "try" /\ code.next[Top.block] # 0
        /\ (result = "ERROR" \/ Keyword(code.next[Top.block]) = "finally")
    BY <1>3, <1>8 DEF LeaveTry
  <2>2. CASE result = "ERROR"
    <3>1. Consumes(Top, result)
      BY <2>1, <2>2 DEF Consumes
    <3> QED  BY <1>3, <3>1, ConsumedHere
  <2>3. CASE result # "ERROR"
    <3>1. Top.block # 0
      BY <1>4, <2>1 DEF FrameOK
    <3> QED  BY <2>1, <2>3, <3>1 DEF FinallyNext
  <2> QED  BY <2>2, <2>3
<1>9. CASE LeaveHandler
  <2>1. Top.role = "handler" /\ code.next[Top.block] # 0 /\ result # "ERROR"
    BY <1>3, <1>9 DEF LeaveHandler
  <2>2. Top.block \in Blocks /\ code.keyword[Top.block] \in {"else", "catch", "finally"}
    BY <1>4, <2>1 DEF FrameOK, Blocks
  <2>3. code.next[Top.block] \in Blocks /\ code.keyword[code.next[Top.block]] = "finally"
    BY <2>1, <2>2, NextOK DEF ControlInv
  <2>4. Top.block # 0 /\ Keyword(code.next[Top.block]) = "finally"
    BY <2>2, <2>3, BlocksOK DEF Blocks, Keyword, ControlInv
  <2> QED  BY <2>1, <2>4 DEF FinallyNext
<1>10. CASE LeaveFunction
  <2>1. Top.role = "function" /\ result # "ERROR"
    BY <1>3, <1>10 DEF LeaveFunction
  <2>2. result = "RETURN"
    BY <1>1, <1>3, <2>1, NoJumpAtTop DEF Statuses, Jumps
  <2> QED  BY <1>3, <2>1, <2>2, ConsumedHere DEF Consumes
<1>11. CASE LeaveProgram
  <2>1. Top.role = "program" /\ result # "ERROR"
    BY <1>3, <1>11 DEF LeaveProgram
  <2> QED  BY <1>1, <1>3, <2>1, NoJumpAtTop DEF Statuses, Jumps
<1> QED  BY <1>2, <1>5, <1>6, <1>7, <1>8, <1>9, <1>10, <1>11 DEF Next

\* An error, a break, a continue or a return passes every block and call on its
\* way and is consumed exactly by the frame that was innermost for it when it
\* was raised; only a finally replaces it before.
THEOREM ResultsLand == Spec => JumpsLand
<1>1. ControlInv /\ [Next]_vars
        => [result # "SUCCESS" /\ result' # result => Depth = landing \/ FinallyNext]_vars
  BY StepLands
<1> QED  BY <1>1, Invariance, PTL DEF Spec, JumpsLand
=============================================================================
