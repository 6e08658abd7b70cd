------------------------------ MODULE ControlFlow ------------------------------
(***************************************************************************)
(* How the interpreter walks a tree of blocks, and how a result that is    *)
(* not a success (an error, a break, a continue, a return) travels through *)
(* the blocks, calls and handlers around it.  A frame is one activation of *)
(* Interpreter::interpret; the data is abstracted to its outcomes: a       *)
(* condition holds or not, a line fails or not, a for loop turns any       *)
(* number of times up to MaxTurns.                                         *)
(*                                                                         *)
(* A program is a record: for block b, keyword[b], its lines and blocks    *)
(* queue[b + 1], next[b] the block chained to it; block 0 is the program,  *)
(* main the block of its function main (0 if it has none).  A line does    *)
(* "SUCCESS", or is stopped by the jump it holds.  inLoop and inFunction   *)
(* are the blocks with a loop of their function, or a function, around     *)
(* them in the text.                                                       *)
(***************************************************************************)
EXTENDS Naturals, FiniteSets, Sequences

CONSTANTS
  Programs,   \* the programs the lexer hands over
  MaxCalls,   \* bound on the depth of the calls
  MaxTurns    \* bound on the turns of a for loop

Loops  == {"while", "for"}
Jumps  == {"BREAK", "CONTINUE", "RETURN"}
Statuses == {"SUCCESS", "ERROR"} \cup Jumps
Chains   == {<<"if", "else">>, <<"try", "catch">>, <<"try", "finally">>, <<"catch", "finally">>}

\* What the lexer gives (BlockLexer): ids in range, chains, a jump inside its target.
WellFormed(p) ==
  LET Ids == 1..Len(p.keyword) IN
  /\ Len(p.queue) = Len(p.keyword) + 1 /\ Len(p.next) = Len(p.keyword)
  /\ p.main \in 0..Len(p.keyword) /\ (p.main > 0 => p.keyword[p.main] = "fun")
  /\ p.inLoop \subseteq Ids /\ p.inFunction \subseteq Ids
  /\ \A b \in Ids :
       /\ p.next[b] \in 0..Len(p.keyword)
       /\ p.next[b] > 0 => <<p.keyword[b], p.keyword[p.next[b]]>> \in Chains
       /\ p.keyword[b] \in Loops => b \in p.inLoop
       /\ p.keyword[b] = "fun" => b \notin p.inLoop
       /\ p.next[b] > 0 /\ p.next[b] \in p.inLoop => b \in p.inLoop
       /\ p.next[b] > 0 /\ p.next[b] \in p.inFunction => b \in p.inFunction
  /\ \A b \in 0..Len(p.keyword) : \A i \in 1..Len(p.queue[b + 1]) :
       LET item == p.queue[b + 1][i] IN
       /\ item.type \in {"line", "code", "function"}
       /\ item.does \in {"SUCCESS"} \cup Jumps
       /\ item.does \in {"BREAK", "CONTINUE"} => b \in p.inLoop
       /\ item.does = "RETURN" => b \in p.inFunction
       /\ item.type = "function" => item.block \in Ids /\ p.keyword[item.block] = "fun"
       /\ item.type = "code" =>
            /\ item.block \in Ids
            /\ p.keyword[item.block] \in {"if", "try"} \cup Loops
            /\ item.block \in p.inLoop => p.keyword[item.block] \in Loops \/ b \in p.inLoop
            /\ item.block \in p.inFunction => b \in p.inFunction

ASSUME ProgramsAssumption == \A p \in Programs : WellFormed(p)
ASSUME BoundsAssumption == MaxCalls \in Nat /\ MaxTurns \in Nat

VARIABLES
  code,    \* the program
  frames,  \* the activations of Interpreter::interpret, the innermost last
  result,  \* the ExpressionResult of the last line or block
  landing  \* history: the frame that should consume a result on its way, 0 if none

vars == <<code, frames, result, landing>>

Blocks  == 1..Len(code.keyword)
Frame(b, role, left) == [block |-> b, role |-> role, at |-> 1, left |-> left]

Init ==
  /\ code \in Programs
  /\ frames = <<Frame(0, "program", 0)>>
  /\ result = "SUCCESS"
  /\ landing = 0

Depth == Len(frames)
Top   == frames[Depth]
Below == SubSeq(frames, 1, Depth - 1)
Items(b) == code.queue[b + 1]
Keyword(b) == IF b = 0 THEN "program" ELSE code.keyword[b]

\* The frame in which a result that is on its way ends: errors in a try that
\* something follows, break and continue in a loop, return in a function.
Consumes(f, r) ==
  CASE r = "ERROR" -> f.role = "body" /\ Keyword(f.block) = "try" /\ code.next[f.block] # 0
    [] r \in {"BREAK", "CONTINUE"} -> f.role = "body" /\ Keyword(f.block) \in Loops
    [] r = "RETURN" -> f.role = "function"
    [] OTHER -> FALSE

\* l is the innermost frame of fs that consumes r, 0 if none does.
LandsAt(l, r, fs) ==
  /\ l > 0 => Consumes(fs[l], r)
  /\ \A i \in l + 1 .. Len(fs) : ~ Consumes(fs[i], r)
Landing(l, r, fs) == l \in 0..Len(fs) /\ IF r = "SUCCESS" THEN l = 0 ELSE LandsAt(l, r, fs)

\* The frames become fs with the result r, which a line has just yielded.
Yield(fs, r) ==
  /\ frames' = fs
  /\ result' = r
  /\ \E l \in 0..Len(fs) : Landing(l, r, fs) /\ landing' = l
  /\ UNCHANGED code

\* The frames become fs, the result travels on.
Forward(fs) == frames' = fs /\ UNCHANGED <<code, result, landing>>

-----------------------------------------------------------------------------
(* Interpreter::interpret: the next item of the innermost queue *)

Ready == Depth > 0 /\ result = "SUCCESS" /\ Top.at <= Len(Items(Top.block))
Item     == Items(Top.block)[Top.at]
Advance(n) == [frames EXCEPT ![Depth].at = @ + n]
LeadsBlock ==
  Item.type = "line" /\ Top.at < Len(Items(Top.block))
    /\ Items(Top.block)[Top.at + 1].type = "code"
BlockLed == Items(Top.block)[Top.at + 1].block

\* A line that no code block follows: its tokens, up to a jump or an error.
InterpretLine ==
  /\ Ready /\ Item.type = "line" /\ ~ LeadsBlock
  /\ \E r \in {Item.does, "ERROR"} : Yield(Advance(1), r)

\* A line that calls a user function already bound; the rest of the line
\* follows when it returns.
Bound(f) == \E i \in 1..Len(Items(0)) :
  /\ Items(0)[i].type = "function" /\ Items(0)[i].block = f
  /\ frames[1].role = "program" => i < frames[1].at
CallFunction ==
  /\ Ready /\ Item.type = "line" /\ ~ LeadsBlock
  /\ Cardinality({i \in 1..Depth : frames[i].role = "function"}) < MaxCalls
  /\ \E f \in Blocks : Bound(f) /\ Forward(Append(Advance(1), Frame(f, "function", 0)))

DefineFunction ==
  /\ Ready /\ Item.type = "function"
  /\ Forward(Advance(1))

\* A code block no line precedes: "Lexer didn't to its job".
BlockWithoutLine ==
  /\ Ready /\ Item.type = "code"
  /\ Yield(Advance(1), "ERROR")

\* The line before a block fails; that of a try is not interpreted.
ConditionFails ==
  /\ Ready /\ LeadsBlock /\ Keyword(BlockLed) # "try"
  /\ Yield(Advance(2), "ERROR")

Enter(b, role, left) == Forward(Append(Advance(2), Frame(b, role, left)))
Skip == Forward(Advance(2))

EnterIf ==
  /\ Ready /\ LeadsBlock /\ Keyword(BlockLed) = "if"
  /\ \/ Enter(BlockLed, "body", 0)
     \/ code.next[BlockLed] # 0 /\ Enter(code.next[BlockLed], "branch", 0)
     \/ code.next[BlockLed] = 0 /\ Skip

EnterWhile ==
  /\ Ready /\ LeadsBlock /\ Keyword(BlockLed) = "while"
  /\ Enter(BlockLed, "body", 0) \/ Skip

EnterFor ==
  /\ Ready /\ LeadsBlock /\ Keyword(BlockLed) = "for"
  /\ \E turns \in 0..MaxTurns :
       IF turns = 0 THEN Skip ELSE Enter(BlockLed, "body", turns - 1)

EnterTry ==
  /\ Ready /\ LeadsBlock /\ Keyword(BlockLed) = "try"
  /\ Enter(BlockLed, "body", 0)

-----------------------------------------------------------------------------
(* The end of a queue, or a result that stops it: what the caller of interpret does *)

Leaving == Depth > 0 /\ (result # "SUCCESS" \/ Top.at > Len(Items(Top.block)))
Replace(f) == Append(Below, f)
Again(left) == Replace(Frame(Top.block, Top.role, left))

\* if, else and finally hand the result on.
LeavePlain ==
  /\ Leaving
  /\ Top.role \in {"branch", "finally"} \/ (Top.role = "body" /\ Keyword(Top.block) = "if")
  /\ Forward(Below)

\* A while loop evaluates its line again unless the body stopped it.
LeaveWhile ==
  /\ Leaving /\ Top.role = "body" /\ Keyword(Top.block) = "while"
  /\ \/ result \in {"ERROR", "RETURN"} /\ Forward(Below)
     \/ result = "BREAK" /\ Yield(Below, "SUCCESS")
     \/ result \in {"SUCCESS", "CONTINUE"} /\
          \/ Yield(Again(0), "SUCCESS")
          \/ \E r \in {"SUCCESS", "ERROR"} : Yield(Below, r)

\* Fault: a continue does not take the step.
LeaveForStuck ==
  /\ Leaving /\ Top.role = "body" /\ Keyword(Top.block) = "for"
  /\ \/ result \in {"ERROR", "RETURN"} /\ Forward(Below)
     \/ result = "BREAK" /\ Yield(Below, "SUCCESS")
     \/ result = "CONTINUE" /\ Yield(Again(Top.left), "SUCCESS")
     \/ result = "SUCCESS" /\
          IF Top.left > 0 THEN Yield(Again(Top.left - 1), "SUCCESS") ELSE Yield(Below, "SUCCESS")

LeaveFor ==
  /\ Leaving /\ Top.role = "body" /\ Keyword(Top.block) = "for"
  /\ \/ result \in {"ERROR", "RETURN"} /\ Forward(Below)
     \/ result = "BREAK" /\ Yield(Below, "SUCCESS")
     \/ result \in {"SUCCESS", "CONTINUE"} /\
          IF Top.left > 0 THEN Yield(Again(Top.left - 1), "SUCCESS") ELSE Yield(Below, "SUCCESS")

\* Fault: a finally that directly follows is taken for no handler.
LeaveTryCatchOnly ==
  /\ Leaving /\ Top.role = "body" /\ Keyword(Top.block) = "try"
  /\ LET then == code.next[Top.block] IN
     \/ then # 0 /\ Keyword(then) = "catch" /\ result = "ERROR"
          /\ Yield(Replace(Frame(then, "handler", 0)), "SUCCESS")
     \/ then # 0 /\ result # "ERROR" /\ Keyword(then) = "finally"
          /\ Yield(Replace(Frame(then, "finally", 0)), "SUCCESS")
     \/ (then = 0 \/ (Keyword(then) = "finally") = (result = "ERROR")) /\ Forward(Below)

\* Without an error only a finally that directly follows is run, and its
\* result replaces that of the body; an error runs whatever follows.
LeaveTry ==
  /\ Leaving /\ Top.role = "body" /\ Keyword(Top.block) = "try"
  /\ LET then == code.next[Top.block] IN
     \/ then # 0 /\ result = "ERROR" /\ Yield(Replace(Frame(then, "handler", 0)), "SUCCESS")
     \/ then # 0 /\ result # "ERROR" /\ Keyword(then) = "finally"
          /\ Yield(Replace(Frame(then, "finally", 0)), "SUCCESS")
     \/ (then = 0 \/ (result # "ERROR" /\ Keyword(then) # "finally")) /\ Forward(Below)

\* After a catch without an error the finally runs, and its result replaces
\* that of the catch.
LeaveHandler ==
  /\ Leaving /\ Top.role = "handler"
  /\ LET then == code.next[Top.block] IN
     \/ then # 0 /\ result # "ERROR" /\ Yield(Replace(Frame(then, "finally", 0)), "SUCCESS")
     \/ (then = 0 \/ result = "ERROR") /\ Forward(Below)

\* Fault: the function drops the error of its body.
LeaveFunctionQuiet ==
  /\ Leaving /\ Top.role = "function"
  /\ Yield(Below, "SUCCESS")

\* UserRPNFunction::call checks that a value was returned exactly if one is
\* due; then the rest of the caller's line goes on.  main has no caller's line.
LeaveFunction ==
  /\ Leaving /\ Top.role = "function"
  /\ \/ result = "ERROR" /\ Forward(Below)
     \/ /\ result # "ERROR"
        /\ LET after == IF Depth = 1 THEN "SUCCESS"
                        ELSE LET c == Below[Depth - 1] IN Items(c.block)[c.at - 1].does
           IN  \E r \in {after, "ERROR"} : Yield(Below, r)

\* Interpreter::interpretFile calls main once the file is through.
LeaveProgram ==
  /\ Leaving /\ Top.role = "program"
  /\ \/ result # "ERROR" /\ code.main # 0 /\ Yield(<<Frame(code.main, "function", 0)>>, "SUCCESS")
     \/ (result = "ERROR" \/ code.main = 0) /\ Forward(Below)

Next ==
  \/ InterpretLine \/ CallFunction \/ DefineFunction \/ BlockWithoutLine \/ ConditionFails
  \/ EnterIf \/ EnterWhile \/ EnterFor \/ EnterTry
  \/ LeavePlain \/ LeaveWhile \/ LeaveFor \/ LeaveTry \/ LeaveHandler
  \/ LeaveFunction \/ LeaveProgram

Spec == Init /\ [][Next]_vars
FairSpec == Spec /\ WF_vars(Next)
-----------------------------------------------------------------------------
(* Properties *)

Roles == {"program", "function", "body", "branch", "handler", "finally"}
TypeOK ==
  /\ WellFormed(code)
  /\ frames \in Seq([block : 0..Len(code.keyword), role : Roles, at : Nat \ {0}, left : Nat])
  /\ result \in Statuses
  /\ landing \in Nat

\* A finally is about to replace the result of the innermost frame.
FinallyNext ==
  LET then == IF Top.block = 0 THEN 0 ELSE code.next[Top.block] IN
  then # 0 /\ Keyword(then) = "finally" /\ Top.role \in {"body", "handler"} /\ result # "ERROR"

\* An error, a break, a continue or a return travels through every block and
\* call on its way and ends exactly in the frame that was innermost for it when
\* it was raised; only a finally may replace it before.
JumpsLand ==
  [][result # "SUCCESS" /\ result' # result => Depth = landing \/ FinallyNext]_vars

\* A program ends on an error only if no try that something follows was around
\* the line that raised it, in its own function or in a caller.
ReportedMeansUncaught ==
  frames = <<>> /\ result = "ERROR" => landing = 0

\* A break or a continue never leaves the function or the program it is in, a
\* return never leaves the program.
NoStrayJump ==
  Depth > 0 /\ Top.role \in {"program", "function"} =>
    /\ result \notin {"BREAK", "CONTINUE"}
    /\ Top.role = "program" => result # "RETURN"

\* A program whose only loops are for loops ends, whatever its lines do: every
\* jump, error and turn gets nearer to the end of a queue.
Terminates == "while" \notin {Keyword(b) : b \in Blocks} => <>(frames = <<>>)
=============================================================================
