------------------------------ MODULE TypeRules ------------------------------
(***************************************************************************)
(* The type rules of the language, once as the analyzer knows them         *)
(* (RPNValueType, Analyzer::getOperatorType, Analyzer::analyzeOperator)    *)
(* and once as the values carry them out (the to and op... methods of each *)
(* value class).                                                           *)
(*                                                                         *)
(* The analyzer's type of an operand is a record [kind, elem], where elem  *)
(* is the type of the elements of a list and "NONE" for any other kind.    *)
(* The value the interpreter has in its place is a record [kind, elem,     *)
(* has], where has is the set of the kinds its elements really have.  A    *)
(* rule about scalars only takes and yields bare kinds.                    *)
(***************************************************************************)
EXTENDS Naturals

Numbers == {"INT", "FLOAT", "BOOL"}
Scalars == Numbers \cup {"STRING", "NONE"}
Kinds   == Scalars \cup {"LIST"}

Arithmetic == {"ADD", "SUB", "MUL", "DIV", "MOD", "POW"}
Equality   == {"EQ", "NE"}
Order      == {"GT", "GE", "LT", "LE"}
Operators  == Arithmetic \cup Equality \cup Order

StaticScalar(k) == [kind |-> k, elem |-> "NONE"]
ListOf(e)       == [kind |-> "LIST", elem |-> e]

Value(k)         == [kind |-> k, elem |-> "NONE", has |-> {}]
ListValue(e, ks) == [kind |-> "LIST", elem |-> e, has |-> ks]

\* What the runtime yields where it has no value to yield.
Threw     == "threw"      \* an exception nothing catches
Undefined == "undefined"  \* a null pointer or a wrong cast is dereferenced
Failures  == {Threw, Undefined}

-----------------------------------------------------------------------------
(* The analyzer *)

\* RPNValueType::isCastableTo
CastableTo(from, to) ==
  \/ from = to
  \/ to \in {"ANY", "BOOL"}
  \/ from \in Numbers /\ to \in {"INT", "FLOAT", "STRING"}
  \/ from = "LIST" /\ to = "STRING"

NoType == "NOTYPE"

\* Analyzer::getOperatorType on operands of which one is a list ...
ListOperatorType(op, l, r) ==
  IF op = "ADD" /\ r = "LIST" THEN "LIST"
  ELSE IF op = "MUL" /\ l = "LIST" /\ r = "INT" THEN "LIST"
  ELSE IF op \in Equality THEN "BOOL" ELSE NoType

\* Fault: a string may be repeated any number of times.
StringNumberType(op, l, r) ==
  IF op = "ADD" /\ l = "STRING" /\ r = "STRING" THEN "STRING"
  ELSE IF op = "MUL" /\ l = "STRING" /\ r \in Numbers THEN "STRING"
  ELSE IF op \in Equality THEN "BOOL" ELSE NoType

\* ... one is a string ...
StringOperatorType(op, l, r) ==
  IF op = "ADD" /\ l = "STRING" /\ r = "STRING" THEN "STRING"
  ELSE IF op = "MUL" /\ l = "STRING" /\ r = "INT" THEN "STRING"
  ELSE IF op \in Equality THEN "BOOL" ELSE NoType

\* Fault: a division is always given a float.
RealDivisionType(op, l, r) ==
  IF op \in Equality THEN "BOOL"
  ELSE IF {l, r} \subseteq Numbers
       THEN IF op \in Order THEN "BOOL"
            ELSE IF op = "DIV" \/ "FLOAT" \in {l, r} THEN "FLOAT" ELSE "INT"
       ELSE NoType

\* ... and on all others.
NumberOperatorType(op, l, r) ==
  IF op \in Equality THEN "BOOL"
  ELSE IF {l, r} \subseteq Numbers
       THEN IF op \in Order THEN "BOOL"
            ELSE IF "FLOAT" \in {l, r} THEN "FLOAT" ELSE "INT"
       ELSE NoType

OperatorType(op, l, r) ==
  IF "LIST" \in {l, r} THEN ListOperatorType(op, l, r)
  ELSE IF "STRING" \in {l, r} THEN StringOperatorType(op, l, r)
  ELSE NumberOperatorType(op, l, r)

\* The type analyzeOperator gives the result, once OperatorType accepts it: a
\* list operand makes it a list, whatever the operator.
ResultType(op, s, t) ==
  LET elem == OperatorType(op, s.elem, t.elem)
      kind == OperatorType(op, s.kind, t.kind)
  IN IF s.kind = "LIST" /\ t.kind = "LIST"
     THEN IF elem # NoType THEN ListOf(elem) ELSE [kind |-> kind, elem |-> "NONE"]
     ELSE IF s.kind = "LIST" THEN ListOf(s.elem)
     ELSE IF t.kind = "LIST" THEN ListOf(t.elem)
     ELSE StaticScalar(kind)

-----------------------------------------------------------------------------
(* The values *)

\* Int, Float and Bool agree but for the type of the result.
NumberOp(op, r, result) ==
  IF op \in Equality THEN "BOOL"
  ELSE IF r \notin Numbers THEN Threw
  ELSE IF op \in Order THEN "BOOL" ELSE result

IntOp(op, r)   == NumberOp(op, r, IF r = "FLOAT" THEN "FLOAT" ELSE "INT")
FloatOp(op, r) == NumberOp(op, r, "FLOAT")
BoolOp(op, r)  == NumberOp(op, r, IF r = "FLOAT" THEN "FLOAT" ELSE "INT")

\* opmul casts its operand to an Int without a look at its type.
StringOp(op, r) ==
  IF op \in Equality THEN "BOOL"
  ELSE IF op = "ADD" THEN "STRING"
  ELSE IF op = "MUL" THEN (IF r = "INT" THEN "STRING" ELSE Undefined)
  ELSE Threw

NoneOp(op, r) == IF op \in Equality THEN "BOOL" ELSE Threw

ScalarOp(op, l, r) ==
  CASE l = "INT"    -> IntOp(op, r)
    [] l = "FLOAT"  -> FloatOp(op, r)
    [] l = "BOOL"   -> BoolOp(op, r)
    [] l = "STRING" -> StringOp(op, r)
    [] l = "NONE"   -> NoneOp(op, r)

\* The order of the enumeration ValueType, which lessRestrictive compares.
Rank == [INT |-> 0, FLOAT |-> 1, STRING |-> 2, BOOL |-> 6, LIST |-> 10, NONE |-> 14]
LessRestrictive(a, b) == IF Rank[a] >= Rank[b] THEN a ELSE b

\* A concatenation holds the elements of both lists, a repetition those of one.
ListOp(op, l, r) ==
  IF op = "ADD" /\ r.kind = "LIST"
  THEN ListValue(LessRestrictive(l.elem, r.elem), l.has \cup r.has)
  ELSE IF op = "MUL" /\ r.kind = "INT" THEN l
  ELSE IF op \in Equality THEN Value("BOOL")
  ELSE Value(Threw)

\* Value::applyOperator; a failure stands where the kind of the result would.
Apply(op, l, r) ==
  IF l.kind = "LIST" THEN ListOp(op, l, r) ELSE Value(ScalarOp(op, l.kind, r.kind))

\* The to method of each scalar class.
Convert(from, to) ==
  IF \/ from \in Numbers /\ to \in Numbers \cup {"STRING"}
     \/ from = "STRING" /\ to \in {"STRING", "BOOL"}
     \/ from = "NONE" /\ to \in {"NONE", "BOOL"}
  THEN to ELSE Threw
=============================================================================
