-------------------------- MODULE MCExpressionTypes --------------------------
(* Small instances of ExpressionTypes for TLC. *)
EXTENDS ExpressionTypes, TLC

\* Straight programs, programs with every construct of the language, and ones that
\* are straight but for the calls of native functions.
SmallPrograms == {{}, {"branch", "for", "fstring"}, {"native"}}
\* math.floor, math.ceil and math.round: of the parameters one is used.
Rounding == {[arity |-> 1, params |-> <<"FLOAT", "FLOAT">>, declares |-> "INT", yields |-> "FLOAT"]}

\* Names are interchangeable.
Symmetry == Permutations(Names)
=============================================================================
