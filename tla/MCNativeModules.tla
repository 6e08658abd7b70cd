---------------------------- MODULE MCNativeModules ----------------------------
(***************************************************************************)
(* NativeModules with two files of the user's own, whose functions share a *)
(* name and little else.                                                   *)
(***************************************************************************)
EXTENDS NativeModules

\* What the functions of the two files are declared to take and return.
UserDeclarations ==
  [f \in UserFiles |-> IF f = "A" THEN [params |-> <<"INT">>, returns |-> "INT"]
                      ELSE [params |-> <<"STRING">>, returns |-> "NONE"]]
=============================================================================
