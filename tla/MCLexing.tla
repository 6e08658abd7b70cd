------------------------------ MODULE MCLexing ------------------------------
(***************************************************************************)
(* The three stages of the lexer, side by side: the characters of a line   *)
(* to tokens (Tokenizer), tokens to the tokens of lines (TokenLexer),      *)
(* lines to blocks (BlockLexer).  A behaviour is one of one stage: part    *)
(* says of which, and the state of the other two rests.                    *)
(***************************************************************************)
EXTENDS BlockLexer, Tokenizer, TokenLexer

VARIABLE part

\* The statements of the language, each with what it leaves in the queue.
Phrase(ts, items) == [tokens |-> ts, items |-> items]

ListType == <<"list", "BRACKET_OPEN", "type", "BRACKET_CLOSE">>
Lines1 ==
  {Phrase(<<"literal", "value", "ASSIGNMENT", "eol">>, <<"line">>),
   Phrase(<<"value", "colon", "literal", "dot", "literal", "eol">>, <<"line">>),
   Phrase(<<"literal", "arrow", "literal", "arrow", "literal", "eol">>, <<"line">>),
   Phrase(<<"value">> \o ListType \o <<"eol">>, <<"line">>)}
Definitions ==
  {Phrase(<<"literal", "type", "arrow", "type", "funsig", "eol">>, <<"signature">>),
   Phrase(<<"STRUCT_NAME", "struct", "eol", "literal", "arrow">> \o ListType
            \o <<"eol", "literal", "arrow", "type", "eol", "tcurts", "eol">>, <<>>)}
Bodies == Lines1 \cup Definitions
Functions ==
  {Phrase(<<"literal", "FUN_SIGNATURE", "literal">> \o ListType \o <<"literal", "arrow", "type", "fun", "eol">>
            \o b.tokens \o <<"value", "return", "eol", "nuf", "eol">>, <<"function">>) : b \in Lines1}
Conditions ==
  {Phrase(<<"value", "if", "eol">> \o b.tokens \o <<"fi", "eol">>, <<"line", "code">>) : b \in Lines1}

Statements == Bodies \cup Functions \cup Conditions

\* The newlines at the end of a text are dropped, unless a comment ends it
\* (Lexer::tokenize).
Texts == UNION {[1..n -> Statements] : n \in 1..3}
TextTokens(t) == FlattenSeq([i \in DOMAIN t |-> t[i].tokens])
Sources == {TextTokens(t) : t \in Texts} \cup {Front(TextTokens(t)) : t \in Texts}

\* The grammar has these, and what they make.
ASSUME StatementsUnderstood ==
  \A t \in Texts :
    LET g == Understood(TextTokens(t))
    IN Documented(g) /\ g.items = FlattenSeq([i \in DOMAIN t |-> t[i].items])

NoTokens == <<>>

\* Any few of the tokens of one topic.
Topics == {{"literal", "dot", "colon", "arrow", "eol", "value", "get"},
           {"literal", "type", "arrow", "funsig", "eol", "FUN_SIGNATURE"},
           {"literal", "type", "arrow", "fun", "nuf", "colon"},
           {"list", "BRACKET_OPEN", "type", "STRUCT_NAME", "BRACKET_CLOSE"},
           {"STRUCT_NAME", "struct", "tcurts", "literal", "if", "fi"}}
Longer == {<<"literal", "arrow", "type", "colon", "literal", "fun", "nuf">>,
           <<"value", "if", "eol", "colon", "literal", "fi", "eol">>,
           <<"literal", "type", "arrow", "type", "funsig", "eol", "value", "eol">>,
           <<"literal", "arrow", "type", "colon", "literal", "if", "fun", "nuf", "fi">>}
Loose == UNION {UNION {[1..n -> T] : n \in 1..5} : T \in Topics} \cup Longer

TokenPrograms == Sources \cup Loose

-----------------------------------------------------------------------------

LexingInit ==
  /\ Init
  /\ \/ part = "blocks" /\ input = <<>> /\ TokenizerInit /\ Starts(NoTokens)
     \/ part = "tokenizer" /\ TokenizerInit /\ Starts(NoTokens)
     \/ part = "lexer" /\ input = <<>> /\ TokenizerInit /\ LexerInit

LexingNext ==
  /\ UNCHANGED part
  /\ \/ part = "blocks" /\ Next /\ UNCHANGED <<tokenizerVars, lexerVars>>
     \/ part = "tokenizer" /\ TokenizerNext /\ UNCHANGED <<vars, lexerVars>>
     \/ part = "lexer" /\ LexerNext /\ UNCHANGED <<vars, tokenizerVars>>

LexingSpec == LexingInit /\ [][LexingNext]_<<part, vars, tokenizerVars, lexerVars>>
=============================================================================
