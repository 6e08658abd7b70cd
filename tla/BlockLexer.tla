------------------------------ MODULE BlockLexer ------------------------------
(***************************************************************************)
(* How the lexer turns a stream of tokens into lines and nested blocks.    *)
(* One action is one token, or the end of the tokens.  A word is any token *)
(* that stays on its line, known by the order in which it was written; a   *)
(* "signature" stands for the tokens of `name type name ... -> type`.      *)
(* Struct blocks and funsig lines, which the lexer consumes as it meets    *)
(* them, are left out.                                                     *)
(*                                                                         *)
(* Block 0 is the program: its queue is the lexer's codeBlocks.            *)
(***************************************************************************)
EXTENDS Naturals, FiniteSets, Sequences, SequencesExt

CONSTANTS
  Openers,   \* the keywords the program opens blocks with
  Words,     \* the kinds of words it has
  MaxWords,  \* bound on the words
  MaxBlocks, \* bound on the blocks
  Layout     \* "documented": closers start a line, a function is declared at the
             \* top, its signature at the head of the same line; or "free"

\* Keyword tables (keywords.hpp).
BlockOpeners ==
  [fun |-> {"nuf"}, if |-> {"fi", "else"}, while |-> {"elihw"}, for |-> {"rof"},
   try |-> {"yrt", "catch", "finally"}, else |-> {"fi"},
   catch |-> {"yrt", "finally"}, finally |-> {"yrt"}]
BlockClosers == UNION {BlockOpeners[k] : k \in DOMAIN BlockOpeners}
Loops        == {"while", "for"}
ParentDependency == [return |-> {"fun"}, break |-> Loops, continue |-> Loops]

ASSUME LexerAssumption ==
  /\ Openers \subseteq DOMAIN BlockOpeners \ BlockClosers
  /\ Words \subseteq {"value", "signature"} \cup DOMAIN ParentDependency
  /\ MaxWords \in Nat /\ MaxBlocks \in Nat
  /\ Layout \in {"documented", "free"}

VARIABLES
  word,               \* the words written, with the block each was written in
  block,              \* the blocks opened, with the block each was opened in
  currentLine,        \* the words of the line being read
  keywordBlockStack,  \* the open blocks
  queue,              \* the lines and blocks each block holds
  next,               \* the block chained to each block, 0 if none
  heir,               \* history: the block opened by the token that closed it
  status              \* "reading", "done", an "error", or undefined "behaviour"

vars == <<word, block, currentLine, keywordBlockStack, queue, next, heir, status>>

Blocks       == 1..Len(block)
InnerOf(s)   == IF s = <<>> THEN 0 ELSE Last(s)
Line(ws)     == [type |-> "line", words |-> ws, block |-> 0]
Item(t, b)   == [type |-> t, words |-> <<>>, block |-> b]
OpenBlocks   == {keywordBlockStack[i] : i \in DOMAIN keywordBlockStack}
StartsWithSignature(ws) == ws # <<>> /\ word[ws[1]].kind = "signature"

Init ==
  /\ word = <<>> /\ block = <<>> /\ currentLine = <<>> /\ keywordBlockStack = <<>>
  /\ queue = <<<<>>>>    \* queue[b + 1] is the queue of block b
  /\ next = <<>> /\ heir = <<>>
  /\ status = "reading"

\* What a token leaves: the state of the parser as one record.
Parser == [queue |-> queue, stack |-> keywordBlockStack, next |-> next, status |-> "reading"]
Halt(s) == [Parser EXCEPT !.status = s]

Push(p, b, item) == [p EXCEPT !.queue[b + 1] = Append(@, item)]

\* Fault: the line goes to the program instead of the innermost block.
PushLineTop(p) == IF currentLine = <<>> THEN p ELSE Push(p, 0, Line(currentLine))

\* Lexer::pushLine
PushLine(p) == IF currentLine = <<>> THEN p ELSE Push(p, InnerOf(p.stack), Line(currentLine))

-----------------------------------------------------------------------------
(* Closing a block: the first half of Lexer::parseKeyword *)

\* The last block of the chain of b.
ChainEnd(nx, b) == LET end[c \in DOMAIN nx] == IF nx[c] = 0 THEN c ELSE end[nx[c]] IN end[b]

\* Fault: setNext overwrites the first link.
SetNextFirst(p, b) ==
  LET items == p.queue[InnerOf(p.stack) + 1]
  IN  IF items # <<>> /\ Last(items).type = "code"
      THEN [p EXCEPT !.next[Last(items).block] = b]
      ELSE Halt("behaviour")

\* CodeBlock::setNext on the last item of the enclosing queue, which a
\* dynamic_cast takes for a code block.
SetNext(p, b) ==
  LET items == p.queue[InnerOf(p.stack) + 1]
  IN  IF items # <<>> /\ Last(items).type = "code"
      THEN [p EXCEPT !.next[ChainEnd(p.next, Last(items).block)] = b]
      ELSE Halt("behaviour")

\* Lexer::parseFunction takes the signature from the end of the program.
ParseFunction(p, b) ==
  CASE p.queue[1] = <<>> -> Halt("error")
    [] p.queue[1] # <<>> /\ Last(p.queue[1]).type # "line" -> Halt("behaviour")
    [] p.queue[1] # <<>> /\ Last(p.queue[1]).type = "line"
         /\ ~ StartsWithSignature(Last(p.queue[1]).words) -> Halt("error")
    [] OTHER -> Push([p EXCEPT !.queue[1] = Front(@)], InnerOf(p.stack), Item("function", b))

\* Fault: a block that goes on is not pushed into its parent.
AttachAlone(p, b) == IF block[b].keyword \in BlockClosers THEN SetNext(p, b) ELSE p

\* A block that was itself opened by a closer continues the one before it.
Attach(p, b) ==
  IF block[b].keyword \in BlockClosers THEN SetNext(p, b)
  ELSE Push(p, InnerOf(p.stack), Item("code", b))

Close(c) ==
  IF keywordBlockStack = <<>> \/ c \notin BlockOpeners[block[Last(keywordBlockStack)].keyword]
  THEN Halt("error")
  ELSE LET b == Last(keywordBlockStack)
           p == [Parser EXCEPT !.stack = Front(@)]
       IN  IF block[b].keyword = "fun" THEN ParseFunction(p, b) ELSE Attach(p, b)

-----------------------------------------------------------------------------
(* Actions *)

\* Fault: any open block will do.
HasAnyBlock(k) == OpenBlocks # {}

\* Lexer::hasParentKeywordBlock
HasParentKeywordBlock(k) ==
  \E b \in OpenBlocks : block[b].keyword \in ParentDependency[k]

\* Fault: the line gets the word before.
WordBefore(k) ==
  /\ status = "reading"
  /\ Len(word) < MaxWords
  /\ k \in DOMAIN ParentDependency => HasParentKeywordBlock(k)
  /\ word' = Append(word, [kind |-> k, home |-> InnerOf(keywordBlockStack)])
  /\ currentLine' = Append(currentLine, Len(word))
  /\ UNCHANGED <<status, block, keywordBlockStack, queue, next, heir>>

\* A token that stays on the line; a jump must have its block around it.
Word(k) ==
  /\ status = "reading"
  /\ Len(word) < MaxWords
  /\ \/ /\ k \in DOMAIN ParentDependency => HasParentKeywordBlock(k)
        /\ word' = Append(word, [kind |-> k, home |-> InnerOf(keywordBlockStack)])
        /\ currentLine' = Append(currentLine, Len(word) + 1)
        /\ UNCHANGED status
     \/ /\ k \in DOMAIN ParentDependency /\ ~ HasParentKeywordBlock(k)
        /\ status' = "error"
        /\ UNCHANGED <<word, currentLine>>
  /\ UNCHANGED <<block, keywordBlockStack, queue, next, heir>>

Take(p) ==
  /\ queue' = p.queue
  /\ next' = p.next
  /\ keywordBlockStack' = p.stack
  /\ status' = p.status

\* An end of line or a separator.
EndLine ==
  /\ status = "reading"
  /\ currentLine # <<>>
  /\ Take(PushLine(Parser))
  /\ currentLine' = <<>>
  /\ UNCHANGED <<word, block, heir>>

\* The second half of Lexer::parseKeyword opens a block after pushing the line.
OpenAfter(p, k) ==
  LET q == PushLine(p)
      b == Len(block) + 1
  IN  /\ Take([q EXCEPT !.stack = Append(@, b), !.queue = Append(@, <<>>), !.next = Append(@, 0)])
      /\ block' = Append(block, [keyword |-> k, home |-> InnerOf(p.stack)])
      /\ currentLine' = <<>>

\* A keyword that only opens a block.
Open(k) ==
  /\ status = "reading"
  /\ Len(block) < MaxBlocks
  /\ k = "fun" /\ Layout = "documented" =>
       keywordBlockStack = <<>> /\ StartsWithSignature(currentLine)
  /\ OpenAfter(Parser, k)
  /\ heir' = Append(heir, 0)
  /\ UNCHANGED word

ClosesHere == Layout = "documented" => currentLine = <<>>

\* A keyword that only closes a block.
CloseOnly(c) ==
  /\ status = "reading"
  /\ ClosesHere
  /\ Take(Close(c))
  /\ UNCHANGED <<word, block, currentLine, heir>>

\* else, catch and finally close a block and open the one that continues it.
CloseAndOpen(c) ==
  LET p == Close(c) IN
  /\ status = "reading"
  /\ ClosesHere
  /\ Len(block) < MaxBlocks
  /\ \/ /\ p.status # "reading"
        /\ Take(p)
        /\ UNCHANGED <<block, currentLine, heir>>
     \/ /\ p.status = "reading"
        /\ OpenAfter(p, c)
        /\ heir' = Append([heir EXCEPT ![Last(keywordBlockStack)] = Len(block) + 1], 0)
  /\ UNCHANGED word

\* No token is left.
Finish ==
  /\ status = "reading"
  /\ \/ /\ keywordBlockStack # <<>>
        /\ status' = "error"
        /\ UNCHANGED <<queue, next, keywordBlockStack, currentLine>>
     \/ /\ keywordBlockStack = <<>>
        /\ Take([PushLine(Parser) EXCEPT !.status = "done"])
        /\ currentLine' = <<>>
  /\ UNCHANGED <<word, block, heir>>

Next ==
  \/ \E k \in Words : Word(k)
  \/ EndLine
  \/ \E k \in Openers : Open(k)
  \/ \E c \in BlockClosers \ DOMAIN BlockOpeners : CloseOnly(c)
  \/ \E c \in BlockClosers \cap DOMAIN BlockOpeners : CloseAndOpen(c)
  \/ Finish

Spec == Init /\ [][Next]_vars

-----------------------------------------------------------------------------
(* Properties *)

WordsIn(b) == UNION {ToSet(item.words) : item \in ToSet(queue[b + 1])}
Written    == 1..Len(word)
Homes      == 0..Len(block)

TypeOK ==
  /\ word \in Seq([kind : Words, home : Nat])
  /\ block \in Seq([keyword : DOMAIN BlockOpeners, home : Nat])
  /\ currentLine \in Seq(Written) /\ keywordBlockStack \in Seq(Blocks)
  /\ Len(queue) = Len(block) + 1
  /\ \A b \in Homes : \A i \in DOMAIN queue[b + 1] :
       queue[b + 1][i] \in [type : {"line", "code", "function"}, words : Seq(Written), block : Homes]
  /\ next \in Seq(Homes) /\ heir \in Seq(Homes)
  /\ Len(next) = Len(block) /\ Len(heir) = Len(block)
  /\ status \in {"reading", "done", "error", "behaviour"}

\* Every word ends in the block it was written in: the body of an if is skipped
\* with the if (README.md, keyword if: "Else skip it"), that of a loop repeated
\* with it.  Holds in the documented layout.
WordsStayHome ==
  status = "done" =>
  \A b \in Homes : \A w \in WordsIn(b) : word[w].home = b

\* The lexer never uses a line as a code block, a
\* block as a signature, or the last item of an empty queue.
BehaviourDefined ==
  status # "behaviour"

\* The nearest function or loop around block b in the text.
InLoop[b \in 0..MaxBlocks] ==
  b \in Blocks /\ (block[b].keyword \in Loops \/ (block[b].keyword # "fun" /\ InLoop[block[b].home]))
InFunction[b \in 0..MaxBlocks] ==
  b \in Blocks /\ (block[b].keyword = "fun" \/ InFunction[block[b].home])

\* A break or a continue that is kept ends inside a
\* loop of its own function and a return inside a function, so that the
\* interpreter's result is always consumed (lexer.cpp, "continue must be in a
\* loop").
JumpsHaveATarget ==
  \A b \in Homes : \A w \in WordsIn(b) :
    /\ word[w].kind \in {"break", "continue"} => InLoop[b]
    /\ word[w].kind = "return" => InFunction[b]

\* Where a block is: an item of a queue, or the continuation of a block.
Places(b) ==
  {p \in Homes \X (1..MaxWords + MaxBlocks) :
     p[2] \in DOMAIN queue[p[1] + 1] /\ queue[p[1] + 1][p[2]].block = b} \cup
  {<<c, 0>> : c \in {d \in Blocks : next[d] = b}}

\* else, catch and finally are chained to the block their own keyword closed, and
\* nothing else is, however blocks are nested; and every block closed has exactly
\* one place, so that one owner frees it.
BlocksAsWritten ==
  /\ status = "done" => next = heir
  /\ status \in {"reading", "done"} =>
       \A b \in Blocks \ OpenBlocks : Cardinality(Places(b)) = 1
=============================================================================
