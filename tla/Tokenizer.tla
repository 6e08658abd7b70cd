------------------------------ MODULE Tokenizer ------------------------------
(***************************************************************************)
(* Lexer::tokenize on one line, with the regular expressions of regex.cpp, *)
(* and what Lexer::lex makes of the literals.                              *)
(*                                                                         *)
(* input, the line, is a sequence of characters; "true" and "int" are      *)
(* words taken as one character that is a lower case letter.  found are    *)
(* the tokens made so far, each with the place its text was taken from;    *)
(* values are what the literals were converted to.                         *)
(***************************************************************************)
EXTENDS Integers, Sequences, FiniteSets, SequencesExt

CONSTANTS
  Characters,  \* the characters lines are made of
  MaxLength,   \* characters of a line (bound)
  MaxInt,      \* the largest number std::stoi takes
  MaxLong      \* the largest number an Int holds; one less than a power of two

ASSUME TokenizerAssumption ==
  /\ MaxLength \in Nat /\ MaxInt \in Nat /\ MaxLong \in Nat /\ MaxInt <= MaxLong
  /\ "end" \notin Characters

VARIABLES input, at, column, found, values, scan

tokenizerVars == <<input, at, column, found, values, scan>>

-----------------------------------------------------------------------------
(* The regular expressions (regex.cpp): how much of the text each matches,  *)
(* 0 if it does not.                                                        *)

Digits   == {"0", "1", "7"}
Upper    == {"B", "T"}
Lower    == {"b", "f", "x", "true", "int"}
Alnum    == Digits \cup Upper \cup Lower
HexDigits == Digits \cup {"b", "f", "B"}

\* The regular expressions spell "0b" and "0x" with these.
Quote == "quote"

Char(s, i) == IF i \in DOMAIN s THEN s[i] ELSE "end"

\* How many characters from place i on are in C.
Run(s, i, C) ==
  CHOOSE n \in 0..Len(s) : /\ \A k \in i..(i + n - 1) : Char(s, k) \in C
                           /\ Char(s, i + n) \notin C

When(test, n) == IF test THEN n ELSE 0

\* The lookahead (?=[^0-9a-zA-Z_]|$)
EndsWord(s, n) == Char(s, n + 1) \notin Alnum \cup {"_"}
WholeWord(s, n)     == When(EndsWord(s, n), n)

Sign(s)        == When(Char(s, 1) = "-", 1)
One(s, C)      == When(Char(s, 1) \in C, 1)

FloatMatch(s) ==
  LET dot == Sign(s) + Run(s, Sign(s) + 1, Digits) + 1
      n   == dot + Run(s, dot + 1, Digits)
  IN When(Char(s, dot) = "." /\ n > 1, n)

IntMatch(s) ==
  LET n == Run(s, Sign(s) + 1, Digits) IN When(n > 0, Sign(s) + n)

PrefixedMatch(s, c, C) ==
  When(Char(s, 1) = "0" /\ Char(s, 2) = c /\ Run(s, 3, C) > 0, 2 + Run(s, 3, C))

StringMatch(s, from) ==
  LET n == Run(s, from + 1, (Characters \cup Alnum) \ {Quote})
  IN When(Char(s, from) = Quote /\ Char(s, from + n + 1) = Quote, from + n + 1)

BooleanOperatorMatch(s) ==
  IF Char(s, 1) \in {"<", ">"} THEN 1 + When(Char(s, 2) = "=", 1)
  ELSE When(Char(s, 1) \in {"=", "!"} /\ Char(s, 2) = "=", 2)

Match(type, s) ==
  CASE type = "BIN"    -> PrefixedMatch(s, "b", {"0", "1"})
    [] type = "HEX"    -> PrefixedMatch(s, "x", HexDigits)
    [] type = "FLOAT"  -> FloatMatch(s)
    [] type = "INT"    -> IntMatch(s)
    [] type = "ARROW"  -> When(Char(s, 1) = "-" /\ Char(s, 2) = ">", 2)
    [] type = "BRACKET" -> One(s, {"[", "]"})
    [] type = "BOOL"   -> One(s, {"true"})
    [] type = "STRING" -> StringMatch(s, 1)
    [] type = "FSTRING" -> When(Char(s, 1) = "f", StringMatch(s, 2))
    [] type = "VALUE_TYPE" -> When(Char(s, 1) = "int", WholeWord(s, 1))
    [] type = "INDENT" -> One(s, {"tab"})
    [] type = "COLON"  -> One(s, {":"})
    [] type = "BOOLEAN_OPERATOR" -> BooleanOperatorMatch(s)
    [] type = "ASSIGNMENT" -> One(s, {"="})
    [] type = "OPERATOR" -> One(s, {"+", "-"})
    [] type = "EXPRESSION_SEPARATOR" -> One(s, {";"})
    [] type = "END_OF_LINE" -> One(s, {"newline"})
    [] type = "DOT"    -> One(s, {"."})
    [] type = "CAPS"   -> When(Char(s, 1) \in Upper, WholeWord(s, Run(s, 1, Upper \cup Digits \cup {"_"})))
    [] type = "STRUCT_NAME" -> When(Char(s, 1) \in Upper, WholeWord(s, Run(s, 1, Alnum)))
    [] type = "FUN_SIGNATURE" -> When(Char(s, 1) = "$" /\ Char(s, 2) \in Lower, 1 + Run(s, 2, Alnum))
    [] type = "LITERAL" -> When(Char(s, 1) \in Lower, Run(s, 1, Alnum))
    [] type = "COMMENT" -> One(s, {"#"})

\* The order with the operators before the arrow: a fault.
TokenRegexesSwapped ==
  <<"BIN", "HEX", "FLOAT", "INT", "OPERATOR", "ARROW", "BRACKET", "BOOL", "STRING", "FSTRING",
    "VALUE_TYPE", "INDENT", "COLON", "BOOLEAN_OPERATOR", "ASSIGNMENT",
    "EXPRESSION_SEPARATOR", "END_OF_LINE", "DOT", "CAPS", "STRUCT_NAME",
    "FUN_SIGNATURE", "LITERAL", "COMMENT">>

\* The order they are tried in (regex.hpp).  CAPS is a LITERAL too.
TokenRegexes ==
  <<"BIN", "HEX", "FLOAT", "INT", "ARROW", "BRACKET", "BOOL", "STRING", "FSTRING",
    "VALUE_TYPE", "INDENT", "COLON", "BOOLEAN_OPERATOR", "ASSIGNMENT", "OPERATOR",
    "EXPRESSION_SEPARATOR", "END_OF_LINE", "DOT", "CAPS", "STRUCT_NAME",
    "FUN_SIGNATURE", "LITERAL", "COMMENT">>

Matching(s) == {i \in DOMAIN TokenRegexes : Match(TokenRegexes[i], s) > 0}
First(s)    == TokenRegexes[CHOOSE i \in Matching(s) : \A j \in Matching(s) : i <= j]

-----------------------------------------------------------------------------
(* Lexer::tokenize *)

Rest == SubSeq(input, at + 1, Len(input))

\* The token of that type: its text is what the first group holds.
Token(type) ==
  LET n == Match(type, Rest)
      quotes == CASE type = "STRING" -> 1 [] type = "FSTRING" -> 2 [] OTHER -> 0
  IN [type |-> type, from |-> at, size |-> n, column |-> column,
      text |-> IF quotes = 0 THEN SubSeq(Rest, 1, n) ELSE SubSeq(Rest, quotes + 1, n - 1)]

\* Past the text and the spaces behind it; a tab counts for two columns.
Advance(type) ==
  LET n == Match(type, Rest)
      spaces == Run(Rest, n + 1, {" "})
  IN /\ at' = at + n + spaces
     /\ column' = column + n + spaces + When(type = "INDENT", 1)

Scan ==
  /\ scan = "scanning" /\ Rest # <<>>
  /\ \/ /\ Matching(Rest) = {}
        /\ scan' = "error"
        /\ UNCHANGED <<at, column, found>>
     \/ /\ Matching(Rest) # {} /\ First(Rest) = "COMMENT"
        /\ scan' = "lexing"
        /\ UNCHANGED <<at, column, found>>
     \/ /\ Matching(Rest) # {} /\ First(Rest) # "COMMENT"
        /\ found' = IF First(Rest) = "INDENT" THEN found ELSE Append(found, Token(First(Rest)))
        /\ Advance(First(Rest))
        /\ UNCHANGED scan
  /\ UNCHANGED <<input, values>>

\* At the end of the input the newlines at the end go, which a comment prevents.
Scanned ==
  /\ scan = "scanning" /\ Rest = <<>>
  /\ scan' = "lexing"
  /\ found' = SubSeq(found, 1,
                 CHOOSE n \in 0..Len(found) :
                   /\ \A k \in (n + 1)..Len(found) : found[k].type = "END_OF_LINE"
                   /\ n > 0 => found[n].type # "END_OF_LINE")
  /\ UNCHANGED <<input, at, column, values>>

-----------------------------------------------------------------------------
(* The literals in Lexer::lex *)

Ord == [c \in {"0", "1", "7", "b", "f", "B"} |->
          CASE c = "0" -> 0 [] c = "1" -> 1 [] c = "7" -> 7 [] c \in {"b", "B"} -> 11 [] c = "f" -> 15]

\* Shifts drop what does not fit an Int.
Wrapped(n) ==
  LET r == n % (2 * (MaxLong + 1)) IN IF r > MaxLong THEN r - 2 * (MaxLong + 1) ELSE r

Number(n) == [is |-> "number", number |-> n]
Other     == [is |-> "other", number |-> 0]
Threw     == [is |-> "threw", number |-> 0]
Refused   == [is |-> "error", number |-> 0]

\* The loops over the characters of a number, each of which counts as in digit.
Accumulated(t, base, digit) ==
  LET number[i \in 0..Len(t)] == IF i = 0 THEN 0 ELSE base * number[i - 1] + digit[t[i]]
  IN number[Len(t)]

\* std::stoi
ParseInt(t) ==
  LET n == Accumulated(IF t[1] = "-" THEN Tail(t) ELSE t, 10, Ord)
      v == IF t[1] = "-" THEN -n ELSE n
  IN IF v \in -(MaxInt + 1)..MaxInt THEN Number(v) ELSE Threw

\* Both read the prefix with the digits, its letter as a zero.
BinDigit == [c \in Alnum |-> When(c = "1", 1)]
ParseBinNumber(t) == Number(Wrapped(Accumulated(t, 2, BinDigit)))

\* Fault: the letters are taken from the first on.
HexDigitFromA ==
  [c \in Alnum |-> IF c \in HexDigits THEN Ord[c] - When(Ord[c] > 9, 10) ELSE 0]

HexDigit == [c \in Alnum |-> IF c \in HexDigits THEN Ord[c] ELSE 0]
ParseHexNumber(t) == Number(Wrapped(Accumulated(t, 16, HexDigit)))

\* std::stof; only whether it finds a digit.
ParseFloat(t) == IF \E i \in DOMAIN t : t[i] \in Digits THEN Other ELSE Threw

\* Lexer::parseFString: braces come in pairs, each pair ends a part.
ParseFString(t) ==
  IF \E i \in DOMAIN t : \/ t[i] = "{" /\ Char(t, i + 1) # "}"
                         \/ t[i] = "}" /\ (i = 1 \/ t[i - 1] # "{")
  THEN Refused
  ELSE Number(1 + Cardinality({i \in DOMAIN t : t[i] = "{"}))

Parsed(tk) ==
  CASE tk.type = "INT"   -> ParseInt(tk.text)
    [] tk.type = "BIN"   -> ParseBinNumber(tk.text)
    [] tk.type = "HEX"   -> ParseHexNumber(tk.text)
    [] tk.type = "FLOAT" -> ParseFloat(tk.text)
    [] tk.type = "FSTRING" -> ParseFString(tk.text)
    [] OTHER -> Other

\* One token; values has one element per token lexed.
Lex ==
  /\ scan = "lexing" /\ Len(values) < Len(found)
  /\ LET v == Parsed(found[Len(values) + 1])
     IN IF v \in {Threw, Refused} THEN scan' = v.is /\ UNCHANGED values
        ELSE values' = Append(values, v) /\ UNCHANGED scan
  /\ UNCHANGED <<input, at, column, found>>

TokenizerInit == /\ input \in UNION {[1..n -> Characters] : n \in 0..MaxLength}
                 /\ at = 0 /\ column = 0 /\ found = <<>> /\ values = <<>>
                 /\ scan = "scanning"

TokenizerNext == Scan \/ Scanned \/ Lex

TokenizerSpec == TokenizerInit /\ [][TokenizerNext]_tokenizerVars

-----------------------------------------------------------------------------
(* Properties *)

\* The order of the expressions gives the longest token there is, but for
\* true and false, which are cut off the front of a longer name.
LongestMatchWins ==
  \A i \in DOMAIN found :
    LET tk == found[i]
        rest == SubSeq(input, tk.from + 1, Len(input))
    IN tk.type # "BOOL" => \A t \in Matching(rest) : Match(TokenRegexes[t], rest) <= tk.size

\* What the digits of a number say: one with k digits behind it counts for base^k.
DigitsSay(digits, base) ==
  LET weight[k \in 0..Len(digits)] == IF k = 0 THEN 1 ELSE base * weight[k - 1]
      sum[k \in 0..Len(digits)] ==
        IF k = 0 THEN 0 ELSE sum[k - 1] + Ord[digits[Len(digits) - k + 1]] * weight[k - 1]
  IN sum[Len(digits)]

\* A number in any base is the number written, as long as an Int can hold it;
\* the lexer throws only at a decimal number larger than an int, which an Int
\* could hold, and at "-.", which passes for a float.
NumbersAsWritten ==
  LET Says(tk) ==
        CASE tk.type = "INT" /\ tk.text[1] = "-" -> -DigitsSay(Tail(tk.text), 10)
          [] tk.type = "INT" /\ tk.text[1] # "-" -> DigitsSay(tk.text, 10)
          [] tk.type = "BIN" -> DigitsSay(SubSeq(tk.text, 3, Len(tk.text)), 2)
          [] tk.type = "HEX" -> DigitsSay(SubSeq(tk.text, 3, Len(tk.text)), 16)
          [] OTHER -> MaxLong + 1
  IN /\ \A i \in DOMAIN values : Says(found[i]) <= MaxLong => values[i] = Number(Says(found[i]))
     /\ scan = "threw" =>
          LET tk == found[Len(values) + 1]
          IN \/ tk.type = "INT" /\ Says(tk) \notin -(MaxInt + 1)..MaxInt
             \/ tk.text = <<"-", ".">>
=============================================================================
