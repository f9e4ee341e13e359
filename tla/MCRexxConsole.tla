--------------------------- MODULE MCRexxConsole ---------------------------
(***************************************************************************)
(* The instance of RexxConsole that TLC checks.                            *)
(***************************************************************************)
EXTENDS RexxConsole

=============================================================================
