------------------------------ MODULE MCIOMgr ------------------------------
(***************************************************************************)
(* The instance of IOMgr that TLC checks.                                  *)
(***************************************************************************)
EXTENDS IOMgr

\* f is read and written, g only opened and closed.
MCMaxLen   == [n \in Names |-> IF n \in Idle THEN 0 ELSE 3]
MCContents == [n \in Names |-> IF n \in Idle THEN {<< >>}
                               ELSE {<<Newline, "a", Newline>>, Absent}]
MCStrings  == {<< >>, <<"a">>}

\* The call and its result are read by no operation, only by what a step may do; but
\* for a crash, after which there is none.
WithoutCall == <<[m EXCEPT !.cache = IF m.iCache < 0 THEN "" ELSE @], Crashed>>

=============================================================================
