---------------------------- MODULE MCInterpreter ----------------------------
(***************************************************************************)
(* The interpreter on small instances.                                     *)
(***************************************************************************)
EXTENDS Interpreter

\* A program that has ended uses its stacks no more: states that differ only in
\* what it left there are explored once, those that break an invariant apart.
WithoutEnds ==
  IF doing \in {"ended", "fatal", "escaped", "undefined"}
  THEN <<doing, TypeOK /\ ScopesMatch /\ SettingsMatch /\ LevelMatch /\ OperandsKept>>
  ELSE vars

==============================================================================
