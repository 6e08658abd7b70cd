----------------------------- MODULE MCControlFlow -----------------------------
(***************************************************************************)
(* Small programs for ControlFlow.  A shape is the sequence of the blocks' *)
(* keywords; its programs put each block that starts a statement in any    *)
(* earlier block, or at the top, and let at most MaxJumps queues end with  *)
(* a jump.                                                                 *)
(***************************************************************************)
EXTENDS ControlFlow, SequencesExt

CONSTANT Shapes, MaxJumps

Goes(kw, b) == kw[b] \in {"else", "catch", "finally"}
Heads(kw)   == {b \in DOMAIN kw : ~ Goes(kw, b)}
HeadOf(kw, b) == CHOOSE h \in Heads(kw) : h <= b /\ \A c \in h + 1 .. b : Goes(kw, c)

HomesOf(kw) == {h \in [Heads(kw) -> 0..Len(kw) - 1] :
  \A b \in Heads(kw) : h[b] < b /\ (kw[b] = "fun" => h[b] = 0)}

LineThat(does) == [type |-> "line", does |-> does, block |-> 0]
Statement(kw, b) ==
  IF kw[b] = "fun" THEN <<[type |-> "function", does |-> "SUCCESS", block |-> b]>>
  ELSE <<LineThat("SUCCESS"), [type |-> "code", does |-> "SUCCESS", block |-> b]>>
Queue(kw, h, does, q) ==
  LET from[b \in 1..Len(kw) + 1] ==
        IF b > Len(kw) THEN <<LineThat(does)>>
        ELSE (IF b \in Heads(kw) /\ h[b] = q THEN Statement(kw, b) ELSE <<>>) \o from[b + 1]
  IN  from[1]

\* The blocks a kind of block is around, up to a function.
Around(kw, h, kinds) ==
  LET in[b \in 0..Len(kw)] ==
        b # 0 /\ (kw[b] \in kinds \/ (kw[b] # "fun" /\ in[h[HeadOf(kw, b)]]))
  IN  {b \in DOMAIN kw : in[b]}

\* At most MaxJumps queues end with a jump that has its target around it.
Ends(kw, h) ==
  LET loop == Around(kw, h, Loops)
      func == Around(kw, h, {"fun"})
      May(q) == (IF q \in loop THEN {"BREAK", "CONTINUE"} ELSE {})
                  \cup (IF q \in func THEN {"RETURN"} ELSE {})
  IN  UNION {{d \in [0..Len(kw) -> {"SUCCESS"} \cup Jumps] :
                \A q \in 0..Len(kw) : d[q] \in IF q \in js THEN May(q) ELSE {"SUCCESS"}} :
        js \in {j \in SUBSET (0..Len(kw)) : Cardinality(j) <= MaxJumps}}

ProgramOf(kw, h, does, main) ==
  [keyword    |-> kw,
   queue      |-> [q \in 1..Len(kw) + 1 |-> Queue(kw, h, does[q - 1], q - 1)],
   next       |-> [b \in DOMAIN kw |-> IF b < Len(kw) /\ Goes(kw, b + 1) THEN b + 1 ELSE 0],
   main       |-> main,
   inLoop     |-> Around(kw, h, Loops),
   inFunction |-> Around(kw, h, {"fun"})]

ProgramsOf(kw) ==
  UNION {{ProgramOf(kw, h, d, main) : d \in Ends(kw, h), main \in {0} \cup {b \in DOMAIN kw : kw[b] = "fun"}} :
    h \in HomesOf(kw)}
SmallPrograms == UNION {ProgramsOf(kw) : kw \in Shapes}

\* Programs whose first code block at the top has lost its line.
FirstCode(q) == SelectInSeq(q, LAMBDA item : item.type = "code")
Unlined(kw) ==
  {[p EXCEPT !.queue[1] = RemoveAt(@, FirstCode(@) - 1)] :
     p \in {r \in ProgramsOf(kw) : FirstCode(r.queue[1]) # 0}}
PlainAndUnlined == SmallPrograms \cup Unlined(<<"fun", "for", "if">>)

Tries == {<<"try">>, <<"try", "catch">>, <<"try", "finally">>, <<"try", "catch", "finally">>}
Ifs   == {<<"if">>, <<"if", "else">>}

\* A function, a loop and a try or an if in any arrangement; those without a
\* while are what must end.
MixedShapes ==
  {<<"fun", "while">> \o t : t \in Tries \cup Ifs} \cup {<<"fun", "for">> \o t : t \in Tries \cup Ifs}
=============================================================================
