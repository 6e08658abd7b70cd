--------------------------- MODULE MCModuleRegistry ---------------------------
(***************************************************************************)
(* Small programs for ModuleRegistry: a file imports or does nothing, then *)
(* defines or uses something; the main program imports twice, and then     *)
(* uses something.                                                         *)
(***************************************************************************)
EXTENDS ModuleRegistry

SomePath == CHOOSE p \in Paths : TRUE
Import == {[kind |-> "import", path |-> p, name |-> n, value |-> "v"] : p \in Paths, n \in Names}
Line_(kind, n, v) == [kind |-> kind, path |-> SomePath, name |-> n, value |-> v]
Use    == {Line_("use", n, v) : n \in Names, v \in Values}
Define == {Line_("define", CHOOSE n \in Names : TRUE, "v")}
          \cup {Line_("function", n, "f") : n \in Names}

Files ==
  {<<d>> : d \in Define} \cup {<<i, d>> : i \in Import, d \in Define \cup {Line_("use", n, "v") : n \in Names}}
SmallPrograms ==
  [main : {<<i, j, u>> : i \in Import, j \in Import, u \in Use},
   files : [Paths -> Files], interactive : BOOLEAN]
=============================================================================
