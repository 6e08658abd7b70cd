--------------------------- MODULE ConditionalScope ---------------------------
(***************************************************************************)
(* Where the analyzer lets a variable be used.  It keeps, for each         *)
(* variable, the depth of the blocks it is declared in, and brings it one  *)
(* level out when a count says that every block of a chain (if and else;   *)
(* try, catch and finally) has assigned it.  Function bodies come last.    *)
(*                                                                         *)
(* A program is analyzed as it is read, word by word.  Beside the table of *)
(* the analyzer the module keeps what the interpreter does: valued is the  *)
(* set of variables that have a value on every way through the program to  *)
(* this word.  A variable that is read without a value ends the program    *)
(* with an exception (Context::getValue).                                  *)
(***************************************************************************)
EXTENDS Integers, Sequences, FiniteSets, SequencesExt

CONSTANTS
  ScopeVars, \* the variables of a program
  MaxDepth,  \* blocks inside each other (bound)
  MaxChains  \* chains of blocks outside of any other (bound)

VARIABLES
  verdict,             \* "analyzing", "bodies" or "rejected"
  table,               \* variables: what is declared, with its two levels
  nextConditionalLevel,
  chains,              \* the chains being analyzed, innermost last
  valued,
  loose,               \* history: uses outside of blocks accepted though not valued,
                       \* with where the variable was assigned
  spread,              \* history: where a variable is assigned, see Note
  chainCount           \* history: the chains outside of any other

scopeVars == <<verdict, table, nextConditionalLevel, chains, valued, loose, spread, chainCount>>

Undeclared == [level |-> -1, next |-> 0]
conditionalLevel == Len(chains)
Branches(level) == nextConditionalLevel[level + 1]

ScopeInit ==
  /\ verdict = "analyzing"
  /\ table = [x \in ScopeVars |-> Undeclared]
  /\ nextConditionalLevel = <<1, 0>>
  /\ chains = <<>>
  /\ valued = {} /\ loose = {}
  /\ spread = [x \in ScopeVars |-> 0] /\ chainCount = 0

Analyzing == verdict = "analyzing"

-----------------------------------------------------------------------------
(* Lines *)

\* A variable is spread over 0 (no block), the number of the only chain that
\* assigns it, Outside once it is assigned outside of blocks, or Many once
\* another chain, an inner one or the head of a block assigns it.
Outside  == -1
Many == -2
Note(x) ==
  spread' = [spread EXCEPT ![x] =
    CASE @ = Outside \/ conditionalLevel = 0               -> Outside
      [] conditionalLevel = 1 /\ @ \in {0, chainCount} -> chainCount
      [] OTHER                                          -> Many]

\* Fault: each assignment counts for a block, not the first of the block.
DeclaredEveryTime(x) ==
  LET held == table[x]
  IN  IF held # Undeclared /\ conditionalLevel > 0
      THEN IF conditionalLevel > held.level THEN held
           ELSE [held EXCEPT !.next = @ + 1]
      ELSE [level |-> conditionalLevel,
            next  |-> IF Branches(conditionalLevel) = 1 THEN 1 ELSE 0]

\* The entry of a variable after an assignment: next counts the blocks of the
\* chain that assigned it, as long as none was left out.
Declared(x) ==
  LET held == table[x]
  IN  IF held # Undeclared /\ conditionalLevel > 0
      THEN IF conditionalLevel > held.level THEN held
           ELSE [held EXCEPT !.next = IF Branches(conditionalLevel) - 1 = @ THEN @ + 1 ELSE @]
      ELSE [level |-> conditionalLevel,
            next  |-> IF Branches(conditionalLevel) = 1 THEN 1 ELSE 0]

AssignVariable(x) ==
  /\ Analyzing
  /\ table' = [table EXCEPT ![x] = Declared(x)]
  /\ valued' = valued \cup {x}
  /\ Note(x)
  /\ UNCHANGED <<verdict, nextConditionalLevel, chains, loose, chainCount>>

\* topVariable: the first error ends the analysis.
Use(x) ==
  /\ verdict # "rejected"
  /\ IF table[x] = Undeclared \/ table[x].level > conditionalLevel
     THEN verdict' = "rejected" /\ UNCHANGED loose
     ELSE /\ loose' = IF conditionalLevel = 0 /\ x \notin valued
                      THEN loose \cup {<<x, spread[x]>>} ELSE loose
          /\ UNCHANGED verdict
  /\ UNCHANGED <<table, nextConditionalLevel, chains, valued, spread, chainCount>>

-----------------------------------------------------------------------------
(* Blocks *)

\* The head of a for or a try declares its variable outside of the block; the
\* interpreter binds it in the block, or when there is an error to bind.
DeclareHead(kind, x) ==
  IF kind \in {"for", "try"}
  THEN /\ table' = [table EXCEPT ![x] = [level |-> 0, next |-> 0]]
       /\ spread' = [spread EXCEPT ![x] = IF @ = Outside THEN @ ELSE Many]
  ELSE UNCHANGED <<table, spread>>

\* A chain: its kind and the block that is being read, what was valued before it
\* and at the end of all blocks read, and the variable of its head.
Open(kind, x) ==
  /\ Analyzing /\ conditionalLevel < MaxDepth
  /\ conditionalLevel = 0 => chainCount < MaxChains
  /\ DeclareHead(kind, x)
  /\ chains' = Append(chains, [kind |-> kind, entry |-> valued, ends |-> ScopeVars, head |-> x])
  /\ nextConditionalLevel' =
       IF Len(nextConditionalLevel) <= conditionalLevel + 1
       THEN Append(nextConditionalLevel, 1)
       ELSE [nextConditionalLevel EXCEPT ![conditionalLevel + 2] = 1]
  /\ valued' = IF kind = "for" THEN valued \cup {x} ELSE valued
  /\ chainCount' = IF conditionalLevel = 0 THEN chainCount + 1 ELSE chainCount
  /\ UNCHANGED <<verdict, loose>>

\* What may follow a block in its chain.
Follows == {<<"if", "else">>, <<"try", "catch">>, <<"try", "finally">>, <<"catch", "finally">>}

\* What is valued when that block starts.  An error may leave a try anywhere,
\* and only a finally after a catch runs after one of two blocks.
AtStart(chain, kind) ==
  CASE kind = "catch"                           -> chain.entry \cup {chain.head}
    [] kind = "finally" /\ chain.kind = "catch" -> chain.ends \cap valued
    [] OTHER                                    -> chain.entry

NextBlock(kind) ==
  /\ Analyzing /\ chains # <<>>
  /\ LET chain == Last(chains)
     IN  /\ <<chain.kind, kind>> \in Follows
         /\ valued' = AtStart(chain, kind)
         /\ chains' = Append(Front(chains), [chain EXCEPT
                        !.kind = kind,
                        !.ends = IF kind = "finally" THEN ScopeVars ELSE valued])
  /\ nextConditionalLevel' = [nextConditionalLevel EXCEPT ![conditionalLevel + 1] = @ + 1]
  /\ UNCHANGED <<verdict, table, loose, spread, chainCount>>

\* What is valued behind the chain: a loop may not run at all, nor an if; the
\* error of a lone try ends the program.
AtEnd(chain) == IF chain.kind \in {"if", "while", "for"} THEN chain.entry
                ELSE chain.ends \cap valued

\* The end of a chain of several blocks: what all of them assign comes out.
CloseChain ==
  /\ Analyzing /\ chains # <<>>
  /\ table' = IF Branches(conditionalLevel) = 1 THEN table
              ELSE [x \in ScopeVars |->
                     IF table[x] # Undeclared /\ table[x].next = Branches(conditionalLevel)
                     THEN [table[x] EXCEPT !.level = conditionalLevel - 1] ELSE table[x]]
  /\ valued' = AtEnd(Last(chains))
  /\ chains' = Front(chains)
  /\ UNCHANGED <<verdict, nextConditionalLevel, loose, spread, chainCount>>

\* analyzeFunctionsBody: the bodies follow, and are taken to be called last.
StartBodies ==
  /\ Analyzing /\ chains = <<>>
  /\ verdict' = "bodies"
  /\ UNCHANGED <<table, nextConditionalLevel, chains, valued, loose, spread, chainCount>>

ScopeNext ==
  \/ \E x \in ScopeVars : \/ AssignVariable(x) \/ Use(x)
                          \/ \E kind \in {"if", "while", "for", "try"} : Open(kind, x)
  \/ \E kind \in {"else", "catch", "finally"} : NextBlock(kind)
  \/ CloseChain \/ StartBodies

ScopeSpec == ScopeInit /\ [][ScopeNext]_scopeVars

-----------------------------------------------------------------------------
(* Properties *)

\* A variable "has been declared conditionally and cannot be used outside of the
\* condition scope": a use outside of every block, or in a function called at the
\* end, that the analyzer lets through has a value on every way there.  That
\* holds of a variable that one chain of blocks assigns, and no block inside of
\* another and no head of a block.  And the counts of other chains never make a
\* variable conditional that was assigned outside of all.
OuterUsesAreBound ==
  /\ \A use \in loose : use[2] = Many
  /\ \A x \in ScopeVars : spread[x] = Outside => table[x].level = 0
=============================================================================
