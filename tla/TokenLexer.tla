------------------------------ MODULE TokenLexer ------------------------------
(***************************************************************************)
(* How Lexer::lex makes the tokens of a line of the tokens read: paths,    *)
(* accesses to members, calls, types, and the definitions of functions,    *)
(* signatures and structures.  One step is one round of its loop, which    *)
(* takes one token or more.                                                *)
(*                                                                         *)
(* A token is known by its kind; the keywords, which the regular           *)
(* expressions take for literals, are kinds of their own.  Of the blocks   *)
(* only one that does not chain is kept ("if"); how blocks chain is the    *)
(* subject of BlockLexer.                                                  *)
(***************************************************************************)
EXTENDS Naturals, Sequences, FiniteSets, SequencesExt

CONSTANT Programs  \* the programs tried, each the sequence of its tokens

VARIABLES
  written,      \* history: the program
  tokens,       \* what is still to be read
  current,  \* the line being made: its tokens and how many were popped
  codeBlocks,   \* the queue of the program
  opened,        \* the open blocks
  outcome        \* "reading", "error", undefined "behaviour"; from the analyzer
                \* "done", "refused" or "threw"

lexerVars == <<written, tokens, current, codeBlocks, opened, outcome>>

OpeningWords  == {"fun", "if", "struct"}
CloserOf == [fun |-> "nuf", if |-> "fi", struct |-> "tcurts"]
Closers  == {CloserOf[k] : k \in OpeningWords}
Keywords == OpeningWords \cup Closers \cup {"return", "get", "funsig"}

\* What the regular expressions call a literal.
IsLiteral(k) == k = "literal" \/ k \in Keywords

Kinds == {"literal", "value", "fstring", "type", "list", "STRUCT_NAME", "FUN_SIGNATURE",
          "dot", "arrow", "colon", "BRACKET_OPEN", "BRACKET_CLOSE", "OPERATOR",
          "ASSIGNMENT", "eol"} \cup Keywords

ASSUME TokenLexerAssumption == Programs \subseteq Seq(Kinds)

-----------------------------------------------------------------------------
(* Lines and queues *)

NewLine  == [tokens |-> <<>>, popped |-> 0]
Left(l)  == SubSeq(l.tokens, l.popped + 1, Len(l.tokens))
Empty(l) == l.popped >= Len(l.tokens)

Entry(t, l, inside) == [type |-> t, line |-> l, inside |-> inside]

\* What a queue holds, with what is in its blocks, and the lines of it.
Held(q)    == {[type |-> q[i].type, line |-> q[i].line] : i \in DOMAIN q}
                \cup UNION {q[i].inside : i \in DOMAIN q}
LinesOf(q) == {e.line : e \in {d \in Held(q) : d.type = "line"}}

\* The state of the lexer, and what a step leaves of it.
Lexer == [tokens |-> tokens, line |-> current, blocks |-> codeBlocks,
          stack |-> opened, status |-> outcome]

Stop(p, s)   == [p EXCEPT !.status = s]
Fail(p)      == Stop(p, "error")
Read(p, n)   == [p EXCEPT !.tokens = SubSeq(@, n + 1, Len(@))]
Ahead(p, i)  == IF i \in DOMAIN p.tokens THEN p.tokens[i] ELSE "nothing"
PushToken(p, t)   == [p EXCEPT !.line.tokens = Append(@, t)]

\* To the queue of the block around, or the program's.
Enqueue(p, item) ==
  IF p.stack = <<>> THEN [p EXCEPT !.blocks = Append(@, item)]
  ELSE [p EXCEPT !.stack[Len(p.stack)].items = Append(@, item)]

\* Fault: a line goes on.
FinishLineOn(p) ==
  IF Empty(p.line) THEN p ELSE Enqueue(p, Entry("line", p.line, {}))

\* Lexer::pushLine.  A line all of whose tokens were popped counts as empty
\* and goes on.
FinishLine(p) ==
  IF Empty(p.line) THEN p
  ELSE [Enqueue(p, Entry("line", p.line, {})) EXCEPT !.line = NewLine]

-----------------------------------------------------------------------------
(* Paths, accesses and types *)

\* How many pairs of separator and literal follow, and whether a separator
\* without one stands behind them.
Pairs(p, sep) ==
  CHOOSE n \in 0..Len(p.tokens) :
    /\ \A i \in 1..n : Ahead(p, 2 * i - 1) = sep /\ IsLiteral(Ahead(p, 2 * i))
    /\ ~(Ahead(p, 2 * n + 1) = sep /\ IsLiteral(Ahead(p, 2 * n + 2)))

Chain(p, sep, t) ==
  LET n == Pairs(p, sep)
  IN IF Ahead(p, 2 * n + 1) = sep THEN Fail(p) ELSE PushToken(Read(p, 2 * n), t)

ParsePath(p) == Chain(p, "dot", "PATH")

\* An arrow before a type is kept for the definition it should stand in.
ParseStructAccess(p) ==
  IF Ahead(p, 1) \in {"type", "list", "STRUCT_NAME"} THEN PushToken(p, "ARROW")
  ELSE IF ~IsLiteral(Ahead(p, 1)) THEN Fail(p)
  ELSE Chain(Read(p, 1), "arrow", "ACCESS")

\* list [ type ]; the tokens are counted, their lines are not.
ParseType(p, k) ==
  IF k # "list" THEN PushToken(p, "TYPE")
  ELSE IF /\ Len(p.tokens) >= 3
          /\ Ahead(p, 1) = "BRACKET_OPEN" /\ Ahead(p, 3) = "BRACKET_CLOSE"
          /\ Ahead(p, 2) \in {"type", "STRUCT_NAME"}
       THEN Read(PushToken(p, "TYPE"), 3)
       ELSE Fail(p)

-----------------------------------------------------------------------------
(* Definitions *)

IsParameterType(t) == t \in {"TYPE", "STRUCT_NAME", "FUN_SIGNATURE"}
IsReturnType(t)    == t \in {"TYPE", "STRUCT_NAME"}

\* Where the scan of the parameters stops: at the arrow, or two before the end.
Stops(ts) == CHOOSE j \in 2..Len(ts) :
               /\ ts[j] = "ARROW" \/ Len(ts) - j < 2
               /\ \A i \in 2..(j - 1) : ts[i] # "ARROW" /\ Len(ts) - i >= 2

\* Lexer::parseFunction on the last line of the program.
Declares(ts) ==
  /\ Len(ts) >= 3 /\ ts[1] = "LITERAL"
  /\ \A i \in 2..(Stops(ts) - 1) : IF i % 2 = 0 THEN IsParameterType(ts[i]) ELSE ts[i] = "LITERAL"
  /\ ts[Stops(ts)] = "ARROW" /\ Stops(ts) % 2 = 0
  /\ IsReturnType(ts[Stops(ts) + 1])

MakeFunction(p, b) ==
  IF p.blocks = <<>> THEN Fail(p)
  ELSE IF Last(p.blocks).type # "line" THEN Stop(p, "behaviour")
  ELSE IF ~Declares(Left(Last(p.blocks).line)) THEN Fail(p)
  ELSE Enqueue([p EXCEPT !.blocks = Front(@)], Entry("function", NewLine, Held(b.items)))

\* Lexer::parseStruct: the name on the last line of the program, one member
\* on each line of the block.
ParseStruct(p, b) ==
  IF p.blocks = <<>> THEN Fail(p)
  ELSE IF Last(p.blocks).type # "line" THEN Stop(p, "behaviour")
  ELSE IF /\ Left(Last(p.blocks).line) = <<"STRUCT_NAME">>
          /\ b.items # <<>>
          /\ \A l \in LinesOf(b.items) : Left(l) = <<"LITERAL", "ARROW", "TYPE">>
       THEN [p EXCEPT !.blocks = Front(@)]
       ELSE Fail(p)

\* A name, types and the type returned behind the first arrow.
Signs(ts) ==
  \E arrow \in 2..(Len(ts) - 1) :
    /\ ts[1] = "LITERAL" /\ ts[arrow] = "ARROW"
    /\ \A i \in 2..(arrow - 1) : IsParameterType(ts[i])
    /\ Len(ts) = arrow + 1 /\ IsReturnType(ts[arrow + 1])

SignatureOf(p, ts, popped) ==
  IF ts = <<>> \/ ts[1] # "LITERAL" THEN Fail(p)
  ELSE IF Len(ts) = 1 THEN Stop(p, "behaviour")
  ELSE IF Signs(ts) THEN [p EXCEPT !.line.popped = popped,
                                   !.blocks = Append(@, Entry("signature", NewLine, {}))]
  ELSE Fail(p)

\* Fault: it reads the line from its first token.
ParseFunctionSignatureWhole(p) == SignatureOf(p, p.line.tokens, Len(p.line.tokens))

\* Fault: the return type is looked at and not popped.
ParseFunctionSignatureShort(p) == SignatureOf(p, Left(p.line), Len(p.line.tokens) - 1)

\* Lexer::parseFunctionSignature pops the tokens of the line and leaves them
\* in it.  It looks behind the name before it asks whether anything is there.
ParseFunctionSignature(p) == SignatureOf(p, Left(p.line), Len(p.line.tokens))

-----------------------------------------------------------------------------
(* Lexer::parseKeyword *)

ParseCloser(p, k) ==
  LET b == Last(p.stack)
      q == [p EXCEPT !.stack = Front(@)]
  IN IF p.stack = <<>> \/ CloserOf[b.keyword] # k THEN Fail(p)
     ELSE CASE b.keyword = "fun"    -> MakeFunction(q, b)
            [] b.keyword = "struct" -> ParseStruct(q, b)
            [] b.keyword = "if"     -> Enqueue(q, Entry("code", NewLine, Held(b.items)))

ParseOpener(p, k) ==
  LET q == FinishLine(p)
  IN IF q.stack # <<>> /\ Last(q.stack).keyword = "struct" THEN Fail(q)
     ELSE [q EXCEPT !.stack = Append(@, [keyword |-> k, items |-> <<>>])]

ParseKeyword(p, k) ==
  CASE k \in Closers -> ParseCloser(p, k)
    [] k \in OpeningWords ->  ParseOpener(p, k)
    [] k = "funsig"   -> ParseFunctionSignature(p)
    [] k = "get"      -> PushToken(p, "KEYWORD")
    [] k = "return"   -> IF \E i \in DOMAIN p.stack : p.stack[i].keyword = "fun"
                         THEN PushToken(p, "KEYWORD") ELSE Fail(p)

ParseLiteral(p, k) ==
  IF k \in Keywords THEN ParseKeyword(p, k)
  ELSE IF Ahead(p, 1) = "dot" THEN ParsePath(p)
  ELSE PushToken(p, "LITERAL")

\* The literal behind the colon is lexed like any other, then the last token of
\* the line made a call, whichever that is.
ParseFunctionCall(p) ==
  LET q == ParseLiteral(Read(p, 1), Ahead(p, 1))
      ts == q.line.tokens
  IN IF ~IsLiteral(Ahead(p, 1)) THEN Fail(p)
     ELSE IF q.status # "reading" THEN q
     ELSE IF Empty(q.line) \/ Last(ts) \notin {"LITERAL", "PATH"} THEN Fail(q)
     ELSE [q EXCEPT !.line.tokens[Len(ts)] = IF Last(ts) = "PATH" THEN "MODULE_CALL" ELSE "CALL"]

-----------------------------------------------------------------------------
(* Lexer::lex *)

Lexed(p, k) ==
  CASE k = "eol"     -> FinishLine(p)
    [] IsLiteral(k)  -> ParseLiteral(p, k)
    [] k = "colon"   -> ParseFunctionCall(p)
    [] k \in {"type", "list"} -> ParseType(p, k)
    [] k = "dot"     -> Fail(p)
    [] k = "arrow"   -> ParseStructAccess(p)
    [] k = "value"   -> PushToken(p, "VALUE")
    [] k = "fstring" -> PushToken(p, "FSTRING")
    [] OTHER         -> PushToken(p, k)

Becomes(p) == /\ tokens' = p.tokens /\ current' = p.line /\ codeBlocks' = p.blocks
              /\ opened' = p.stack /\ outcome' = p.status

TakeToken == /\ outcome = "reading" /\ tokens # <<>>
             /\ Becomes(Lexed(Read(Lexer, 1), Head(tokens)))
             /\ UNCHANGED written

\* The analyzer throws at a token it does not know; it may find an error or
\* another one before.
Unknown == {"ARROW", "BRACKET_OPEN", "BRACKET_CLOSE"}
Readable(l) == \A i \in DOMAIN Left(l) : Left(l)[i] \notin Unknown

EndOfTokens ==
  /\ outcome = "reading" /\ tokens = <<>>
  /\ LET p == FinishLine(Lexer)
     IN \/ opened # <<>> /\ Becomes(Fail(p))
        \/ /\ opened = <<>>
           /\ \E s \in {"refused"} \cup (IF \A l \in LinesOf(p.blocks) : Readable(l)
                                       THEN {"done"} ELSE {"threw"}) : Becomes(Stop(p, s))
  /\ UNCHANGED written

Starts(p) == /\ written = p /\ tokens = p
             /\ current = NewLine /\ codeBlocks = <<>> /\ opened = <<>>
             /\ outcome = "reading"

LexerInit == \E p \in Programs : Starts(p)

LexerNext == TakeToken \/ EndOfTokens

LexerSpec == LexerInit /\ [][LexerNext]_lexerVars

-----------------------------------------------------------------------------
(* The programs documented (README.md), read token by token: the words of the *)
(* line, what the last token awaits, the open blocks, whether the struct has  *)
(* a member, and what the statements before make.  Definitions stand outside  *)
(* of all blocks.                                                             *)

Blank == [line |-> <<>>, awaits |-> "nothing", open |-> <<>>, members |-> FALSE, items |-> <<>>]
Wrong == [Blank EXCEPT !.awaits = "correction"]

WordOf == [k \in {"value", "fstring", "literal", "type", "STRUCT_NAME", "FUN_SIGNATURE",
                  "OPERATOR", "ASSIGNMENT", "get", "return", "arrow"} |->
             CASE k = "value" -> "VALUE" [] k = "fstring" -> "FSTRING"
               [] k = "literal" -> "LITERAL" [] k = "type" -> "TYPE"
               [] k \in {"get", "return"} -> "KEYWORD" [] k = "arrow" -> "ARROW" [] OTHER -> k]

\* What the last word is with one more name behind a dot or an arrow.
Joined == [LITERAL |-> "PATH", PATH |-> "PATH", CALL |-> "MODULE_CALL",
           MODULE_CALL |-> "MODULE_CALL", ARROW |-> "ACCESS", ACCESS |-> "ACCESS"]
LastWord(g) == IF g.line = <<>> THEN "none" ELSE g.line[Len(g.line)]

AddWord(g, w) == [g EXCEPT !.line = Append(@, w), !.awaits = "nothing"]
Await(g, what) == [g EXCEPT !.awaits = what]

Plain(ts) == \A i \in DOMAIN ts : ts[i] # "ARROW"

\* A name, the types and names of the parameters, and the type returned.
Declaration(ts) ==
  \E n \in 0..Len(ts) :
    /\ Len(ts) = 2 * n + 3
    /\ ts[1] = "LITERAL" /\ ts[2 * n + 2] = "ARROW" /\ IsReturnType(ts[2 * n + 3])
    /\ \A i \in 1..n : IsParameterType(ts[2 * i]) /\ ts[2 * i + 1] = "LITERAL"

\* Statements outside of all blocks are counted, and blocks as one when they end.
Made(g, item) == IF g.open = <<>> THEN [g EXCEPT !.items = Append(@, item)] ELSE g

EndStatement(g) ==
  IF g.line = <<>> THEN g
  ELSE IF g.open = <<"struct">>
       THEN IF g.line = <<"LITERAL", "ARROW", "TYPE">>
            THEN [g EXCEPT !.line = <<>>, !.members = TRUE] ELSE Wrong
  ELSE IF Plain(g.line) THEN [Made(g, "line") EXCEPT !.line = <<>>] ELSE Wrong

OpenBlock(g, k) ==
  CASE k = "fun" /\ g.open = <<>> /\ Declaration(g.line) -> [g EXCEPT !.line = <<>>, !.open = <<k>>]
    [] k = "struct" /\ g.open = <<>> /\ g.line = <<"STRUCT_NAME">> ->
         [g EXCEPT !.line = <<>>, !.open = <<k>>, !.members = FALSE]
    [] k = "if" /\ g.open # <<"struct">> /\ Plain(g.line) -> [EndStatement(g) EXCEPT !.open = Append(@, k)]
    [] OTHER -> Wrong

CloseBlock(g, k) ==
  LET around == [g EXCEPT !.open = Front(@)]
  IN IF g.line # <<>> \/ g.open = <<>> \/ CloserOf[Last(g.open)] # k THEN Wrong
     ELSE CASE k = "nuf" -> Made(around, "function")
            [] k = "fi"  -> Made(around, "code")
            [] k = "tcurts" -> IF g.members THEN around ELSE Wrong

\* A token nothing before it asks for.
Begin(g, t) ==
  CASE t = "eol" -> EndStatement(g)
    [] t = "funsig" -> IF g.open = <<>> /\ Signs(g.line)
                       THEN [Made(g, "signature") EXCEPT !.line = <<>>] ELSE Wrong
    [] t \in OpeningWords -> OpenBlock(g, t)
    [] t \in Closers -> CloseBlock(g, t)
    [] t = "return" /\ "fun" \notin {g.open[i] : i \in DOMAIN g.open} -> Wrong
    [] t = "list"   -> Await(g, "of")
    [] t = "colon"  -> Await(g, "function")
    [] t = "dot"    -> IF LastWord(g) \in {"LITERAL", "PATH", "CALL", "MODULE_CALL"}
                       THEN Await(g, "name") ELSE Wrong
    [] t = "arrow" /\ LastWord(g) = "ACCESS" -> Await(g, "name")
    [] t = "arrow" /\ LastWord(g) # "ACCESS" -> Await(AddWord(g, "ARROW"), "member")
    [] t \in {"BRACKET_OPEN", "BRACKET_CLOSE"} -> Wrong
    [] OTHER -> AddWord(g, WordOf[t])

Understand(g, t) ==
  CASE g.awaits = "nothing" -> Begin(g, t)
    [] g.awaits \in {"name", "member"} /\ t = "literal" ->
         [g EXCEPT !.line[Len(g.line)] = Joined[@], !.awaits = "nothing"]
    [] g.awaits = "member" /\ t \in {"type", "list", "STRUCT_NAME"} -> Begin(Await(g, "nothing"), t)
    [] g.awaits = "function" /\ t = "literal" -> AddWord(g, "CALL")
    [] g.awaits = "of" /\ t = "BRACKET_OPEN" -> Await(g, "type")
    [] g.awaits = "type" /\ t \in {"type", "STRUCT_NAME"} -> Await(g, "end")
    [] g.awaits = "end" /\ t = "BRACKET_CLOSE" -> AddWord(g, "TYPE")
    [] OTHER -> Wrong

\* After each token of a program, the whole of it, and whether that is as documented.
Understanding(ts) ==
  LET g[i \in 0..Len(ts)] == IF i = 0 THEN Blank ELSE Understand(g[i - 1], ts[i])
  IN g
Understood(ts) == EndStatement(Understanding(ts)[Len(ts)])
Documented(g) == g.awaits = "nothing" /\ g.open = <<>>

-----------------------------------------------------------------------------
(* Properties *)

\* A program written as documented is taken, and each of its statements
\* becomes what it should: the queue holds them in the order written, whatever
\* tokens the one before left behind (parseFunction, parseStruct and
\* parseFunctionSignature take their line from two different places).
GrammarAccepted ==
  outcome # "reading" /\ Documented(Understood(written)) =>
    /\ outcome \in {"done", "refused"}
    /\ outcome = "done" =>
         [i \in DOMAIN codeBlocks |-> codeBlocks[i].type] = Understood(written).items

Calls(l) == Cardinality({i \in DOMAIN l.tokens : l.tokens[i] \in {"CALL", "MODULE_CALL"}})
Colons(ts) == Cardinality({i \in DOMAIN ts : ts[i] = "colon"})

\* Whatever was made, in open blocks too, and every line, with the one being made.
HeldBy(blocks, stack) == Held(blocks) \cup UNION {Held(stack[i].items) : i \in DOMAIN stack}
Lines == {current} \cup {e.line : e \in {d \in HeldBy(codeBlocks, opened) : d.type = "line"}}

\* In a program with at most one colon: it makes one call, on one line, unless
\* it stands behind the return type of a function, where no token is looked at.
CallsAsWritten ==
  LET read == Colons(written) - Colons(tokens)
      made == {l \in Lines : Calls(l) > 0}
  IN (outcome = "reading" /\ Colons(written) = 1) =>
       \/ read = 0 /\ made = {}
       \/ read = 1 /\ \E l \in Lines : made = {l} /\ Calls(l) = 1
       \/ read = 1 /\ made = {} /\ \E e \in HeldBy(codeBlocks, opened) : e.type = "function"

\* The interpreter runs the tokens of a line the analyzer has seen: it starts
\* at the first one, the analyzer at the first not popped.  They differ only on
\* a line behind funsigs, which the interpreter starts with whole signatures
\* (pushLine keeps a line all of whose tokens were popped).
LinesRunAsAnalyzed ==
  outcome = "done" =>
    \A l \in LinesOf(codeBlocks) :
      LET unseen == SubSeq(l.tokens, 1, l.popped)
          arrows == {i \in DOMAIN unseen : unseen[i] = "ARROW"}
      IN unseen # <<>> =>
           /\ \E n \in DOMAIN unseen : Signs(SubSeq(unseen, 1, n))
           /\ IsReturnType(Last(unseen))
           /\ Cardinality(arrows) <= Cardinality({i \in DOMAIN codeBlocks : codeBlocks[i].type = "signature"})
=============================================================================
