-------------------------------- MODULE MCTypes --------------------------------
(***************************************************************************)
(* What the analyzer promises of a variable, side by side: its type        *)
(* (ExpressionTypes) and that it has a value at all (ConditionalScope).  A *)
(* behaviour is one of one of them; the state of the other rests.          *)
(***************************************************************************)
EXTENDS MCExpressionTypes, ConditionalScope

VARIABLE part

TypesInit == part \in {"types", "scope"} /\ Init /\ ScopeInit

TypesNext ==
  \/ part = "types" /\ Next      /\ UNCHANGED <<part, scopeVars>>
  \/ part = "scope" /\ ScopeNext /\ UNCHANGED <<part, vars>>

TypesSpec == TypesInit /\ [][TypesNext]_<<part, vars, scopeVars>>
=============================================================================
