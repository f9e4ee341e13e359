------------------------------ MODULE MCSpeech ------------------------------
(***************************************************************************)
(* The instance of Speech that TLC checks.                                 *)
(***************************************************************************)
EXTENDS Speech

=============================================================================
