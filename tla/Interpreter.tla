----------------------------- MODULE Interpreter -----------------------------
(***************************************************************************)
(* Control flow of the interpreter: Interpreter.cpp, with the routine      *)
(* stack of Routines.cpp and the trace settings of Tracer.h.               *)
(*                                                                         *)
(* Three classes keep a stack of their own, and nothing but the order of   *)
(* the calls keeps them in step: Routines (the current routine rtn, a copy *)
(* of each interrupted one in aRtne), Tracer (buf, one setting per call,   *)
(* and a level of interactive strings) and VariableHandler (scopes).       *)
(* Conditions and syntax errors are C++ exceptions that leave mainLoop at  *)
(* any opcode; recoverFromException puts the stacks right again.           *)
(*                                                                         *)
(* The program is arbitrary: a position of the code buffer is only what    *)
(* the interpreter can tell, and an opcode is a choice.  The operand stack *)
(* is its height m_top.  An interpreted string has no clause opcode        *)
(* (OnTimeCompiler::onNewClause adds none) and no label.                   *)
(*                                                                         *)
(* Definitions named Mut... are wrong variants of the one that follows:    *)
(* the properties are tried against them.                                  *)
(***************************************************************************)
EXTENDS Integers, Sequences, FiniteSets

CONSTANTS Conds,     \* the conditions that occur, SYNTAX aside
          StackSize, \* STACK_SIZE
          MaxSets,   \* bound: I_SET_PROP executed, to set a trap or TRACE
          MaxDepth,  \* bound: interrupted routines and strings
          MaxArgs    \* bound: arguments of a call

Callable == {"ERROR", "FAILURE", "HALT", "NOTREADY"}

Signals  == Conds \cup {"SYNTAX"}
Setting  == [interactive : BOOLEAN, clauses : BOOLEAN]

ASSUME CondsAreConditions == Conds \subseteq Callable \cup {"NOVALUE", "LOSTDIGITS"}
ASSUME SizesAreNat == /\ StackSize \in Nat \ {0}
                      /\ MaxSets \in Nat
                      /\ MaxDepth \in Nat
                      /\ MaxArgs \in Nat

VARIABLES rtn,     \* Routines: the current routine or interpreted string
          aRtne,   \* Routines: the interrupted ones, the main program first
          pending, \* Routines: m_pendingConds
          setting, \* Tracer: m_setting
          buf,     \* Tracer: the settings of the interrupted routines
          level,   \* Tracer: m_levelInteractive
          scopes,  \* VariableHandler: the number of variable scopes
          top,     \* m_top
          pos,     \* the position in the code buffer
          sets,    \* how many I_SET_PROP were executed
          doing,   \* what the interpreter is in the middle of, or how it ended
          thrown   \* the exception being recovered from

routines == <<rtn, aRtne, pending>>
tracer   == <<setting, buf, level>>
vars == <<routines, tracer, scopes, top, pos, sets, doing, thrown>>

\* "clause": at a clause or label opcode; "procLabel": at the label of a
\* PROCEDURE; "proc": at I_PROC; "body": past the opcode of a clause;
\* "string": in an interpreted string; "operand": an opcode is half read.
Labels    == {"clause", "procLabel"}
Inside    == {"body", "string"}
Positions == Labels \cup Inside \cup {"proc", "operand"}

CallTypes == {"COMMAND", "SUBROUTINE", "FUNCTION", "INTERPRET"}
Doing     == {"run", "recover", "returnEmpty", "returnResult",
              "ended",      \* mainLoop returned
              "fatal",      \* FatalException: a message and the end
              "escaped",    \* a RecoverableException left run()
              "undefined"}  \* undefined behaviour

\* top, base: m_top, m_base.  Not fields of Routine: floor, the height at
\* which the compiled code now running started, below which it never pops;
\* began, whether the routine has executed an instruction.
Routine == [ct : CallTypes, isProcedure : BOOLEAN, disabled : BOOLEAN,
            signals : SUBSET Signals, callons : SUBSET Conds,
            top : Int, base : Int, floor : Int,
            posCur : Positions, began : BOOLEAN]

Main == [ct |-> "COMMAND", isProcedure |-> FALSE, disabled |-> FALSE,
         signals |-> {}, callons |-> {}, top |-> -1, base |-> -1,
         floor |-> -1, posCur |-> "clause", began |-> TRUE]

None == [sig |-> "SYNTAX", isStmtSignal |-> TRUE, isSignalDisabled |-> FALSE]

Init ==
  /\ rtn = Main /\ aRtne = <<>> /\ pending = {}
  /\ setting = [interactive |-> FALSE, clauses |-> FALSE]
  /\ buf = <<>> /\ level = 0
  /\ scopes = 1 /\ sets = 0
  /\ top = -1 /\ pos = "clause" /\ doing = "run"
  /\ thrown = None

Last(s)   == s[Len(s)]
AllBut(s) == SubSeq(s, 1, Len(s) - 1)

-----------------------------------------------------------------------------
(***************************************************************************)
(* Raising.                                                                *)
(***************************************************************************)
\* r is the current routine when run() catches the exception.
throw(sig, isStmtSignal, r) ==
  /\ doing' = "recover"
  /\ thrown' = [sig |-> sig, isStmtSignal |-> isStmtSignal,
                isSignalDisabled |-> r.disabled]

canRecoverFromSyntax(r) == "SYNTAX" \in r.signals \/ r.disabled

\* m_erh << ECE__ERROR: handleSyntaxError.
syntaxError(r) ==
  IF canRecoverFromSyntax(r) THEN throw("SYNTAX", TRUE, r)
                             ELSE doing' = "fatal" /\ UNCHANGED thrown

\* raisePendingConds: the order is fixed.
Taken == CASE "ERROR"   \in pending -> "ERROR"
           [] "FAILURE" \in pending /\ "ERROR" \notin pending -> "FAILURE"
           [] "HALT"    \in pending /\ pending \cap {"ERROR", "FAILURE"} = {} -> "HALT"
           [] OTHER -> "NOTREADY"

\* The opcode at hand is of one of these positions.
Run(where) == doing = "run" /\ pos \in where /\ UNCHANGED sets

\* Routine::raise by an opcode, with r as the current routine.  A condition
\* trapped by CALL waits for the end of the clause.
Pending(sig, r) == IF sig \in r.callons THEN pending \cup {sig} ELSE pending

raise(sig, r) ==
  IF sig \in r.signals /\ ~r.disabled
  THEN throw(sig, TRUE, r) /\ UNCHANGED pending
  ELSE pending' = Pending(sig, r) /\ UNCHANGED <<doing, thrown>>

-----------------------------------------------------------------------------
(***************************************************************************)
(* Starting and ending routines and interpreted strings.                   *)
(***************************************************************************)
\* Routines::startRoutine, from routine r with the operands up to t.
Started(r, ct, args, t) ==
  [r EXCEPT !.ct = ct, !.isProcedure = FALSE, !.posCur = pos,
            !.top = t, !.floor = t, !.began = FALSE,
            !.base = IF ct = "SUBROUTINE" THEN t - args - 1 ELSE t - args]

MutSavedSettings == IF level > 0 THEN buf ELSE Append(buf, setting)
SavedSettings == Append(buf, setting)

\* startInternal: the routine is started; then its labels are passed, where a
\* pending condition is raised; then I_PROC is executed, which opens a scope.
startInternal(r, ct, args, t, target) ==
  /\ Len(aRtne) < MaxDepth
  /\ aRtne' = Append(aRtne, r)
  /\ buf' = SavedSettings
  /\ top' = t
  /\ IF pending # {}
     THEN /\ rtn' = Started(r, ct, args, t)
          /\ pos' = target
          /\ pending' = pending \ {Taken}
          /\ UNCHANGED scopes
     ELSE /\ rtn' = [Started(r, ct, args, t) EXCEPT
                       !.isProcedure = (target = "procLabel"), !.began = TRUE]
          /\ pos' = IF target = "procLabel" THEN "clause" ELSE "body"
          /\ scopes' = IF target = "procLabel" THEN scopes + 1 ELSE scopes
          /\ UNCHANGED pending
  /\ UNCHANGED <<setting, level>>

MutEndInternalScopes == scopes
EndInternalScopes == IF rtn.isProcedure THEN scopes - 1 ELSE scopes

endInternal ==
  /\ scopes' = EndInternalScopes
  /\ pos' = rtn.posCur /\ top' = rtn.base
  /\ rtn' = Last(aRtne) /\ aRtne' = AllBut(aRtne)
  /\ setting' = Last(buf) /\ buf' = AllBut(buf)
  /\ UNCHANGED <<pending, level>>

\* startInterpret, the string being the operand at t; m_top is `left` when its
\* code starts.  A string that does not compile raises the error with the new
\* string already current.
startInterpret(isInteractiveTrace, t, left) ==
  /\ Len(aRtne) < MaxDepth
  /\ aRtne' = Append(aRtne, rtn)
  /\ rtn' = [rtn EXCEPT !.ct = "INTERPRET", !.isProcedure = FALSE,
                        !.posCur = pos, !.top = t, !.base = t - 1,
                        !.floor = left,
                        !.disabled = @ \/ isInteractiveTrace]
  /\ level' = IF isInteractiveTrace \/ level > 0 THEN level + 1 ELSE level
  /\ top' = left
  /\ pos' = "string"
  /\ UNCHANGED <<setting, buf, scopes>>

\* The traps for SIGNAL are inherited back, unless they are disabled; the
\* traps for CALL are not.
MutInherited(r) == [r EXCEPT !.signals = rtn.signals, !.disabled = rtn.disabled]
Inherited(r) == [r EXCEPT !.signals = IF rtn.disabled THEN @ ELSE rtn.signals]

MutEndedLevel == level - 1
EndedLevel == IF level > 0 THEN level - 1 ELSE level

endInterpret ==
  /\ pos' = rtn.posCur /\ top' = rtn.base
  /\ rtn' = Inherited(Last(aRtne)) /\ aRtne' = AllBut(aRtne)
  /\ level' = EndedLevel
  /\ UNCHANGED <<pending, setting, buf, scopes>>

compile(compiles) == IF compiles THEN UNCHANGED <<doing, thrown>>
                                 ELSE syntaxError(rtn')

-----------------------------------------------------------------------------
(***************************************************************************)
(* The opcodes, as mainLoop executes them.                                 *)
(***************************************************************************)
\* The beginning of a clause, or a label: processTraceClause.
clausePending ==
  /\ Run(Labels) /\ pending # {}
  /\ pending' = pending \ {Taken}
  /\ throw(Taken, FALSE, rtn)
  /\ UNCHANGED <<rtn, aRtne, tracer, scopes, top, pos>>

clause ==
  /\ Run(Labels) /\ pending = {}
  /\ IF pos = "procLabel"
     THEN pos' = "proc" /\ UNCHANGED rtn
     ELSE pos' = "body" /\ rtn' = [rtn EXCEPT !.began = TRUE]
  /\ UNCHANGED <<aRtne, pending, tracer, scopes, top, doing, thrown>>

isMyselfInteractive == level = 0 /\ setting.interactive

\* The user types a string at the pause before a clause.
pause(compiles) ==
  /\ Run(Labels) /\ pending = {}
  /\ setting.clauses /\ isMyselfInteractive
  /\ startInterpret(TRUE, top + 1, top + 1)
  /\ IF top + 1 >= StackSize THEN doing' = "undefined" /\ UNCHANGED thrown
                             ELSE compile(compiles)
  /\ UNCHANGED pending

\* The clause ends; what follows is another clause or label.
endClause(next) ==
  /\ Run({"body"})
  /\ pos' = next
  /\ UNCHANGED <<routines, tracer, scopes, top, doing, thrown>>

\* I_EOF, of the program or of a string.
eof ==
  /\ Run(Inside)
  /\ IF rtn.ct = "INTERPRET"
     THEN endInterpret /\ UNCHANGED doing
     ELSE /\ doing' = "ended"
          /\ UNCHANGED <<routines, tracer, scopes, top, pos>>
  /\ UNCHANGED thrown

\* An operand is pushed.  The limit is tested by equality, and not by every
\* opcode; the opcode refused has its operand still to read.
push(tested) ==
  /\ Run(Inside)
  /\ top' = top + 1
  /\ IF tested /\ top + 1 = StackSize - 1
     THEN pos' = "operand" /\ syntaxError(rtn)
     ELSE /\ doing' = IF top + 1 >= StackSize THEN "undefined" ELSE doing
          /\ UNCHANGED <<pos, thrown>>
  /\ UNCHANGED <<routines, tracer, scopes>>

pop ==
  /\ Run(Inside) /\ top > rtn.floor
  /\ top' = top - 1
  /\ UNCHANGED <<routines, tracer, scopes, pos, doing, thrown>>

\* Any other opcode, a built-in function included, that raises a condition
\* or a syntax error.
condition(sig) ==
  /\ Run(Inside)
  /\ raise(sig, rtn)
  /\ UNCHANGED <<rtn, aRtne, tracer, scopes, top, pos>>

failure ==
  /\ Run(Inside)
  /\ syntaxError(rtn)
  /\ UNCHANGED <<routines, tracer, scopes, top, pos>>

\* I_PROC met by mainLoop: error 17.1.  Its operands are not read.
procedureBad ==
  /\ Run({"proc"})
  /\ syntaxError(rtn)
  /\ UNCHANGED <<routines, tracer, scopes, top, pos>>

\* I_SET_PROP, and the built-in function TRACE.
setProp ==
  /\ doing = "run" /\ pos \in Inside
  /\ sets < MaxSets /\ sets' = sets + 1

\* setDefaultTrapper, setTrapper: a condition is trapped one way only.
setTrapper(sig, isSignalStmt) ==
  /\ setProp
  /\ rtn' = IF isSignalStmt
            THEN [rtn EXCEPT !.signals = @ \cup {sig}, !.callons = @ \ {sig}]
            ELSE [rtn EXCEPT !.callons = @ \cup {sig}, !.signals = @ \ {sig}]
  /\ UNCHANGED <<aRtne, pending, tracer, scopes, top, pos, doing, thrown>>

unsetTrapper(sig, isSignalStmt) ==
  /\ setProp
  /\ rtn' = IF isSignalStmt THEN [rtn EXCEPT !.signals = @ \ {sig}]
                            ELSE [rtn EXCEPT !.callons = @ \ {sig}]
  /\ UNCHANGED <<aRtne, pending, tracer, scopes, top, pos, doing, thrown>>

\* The height to which a jump clears the operand stack.
MutGetStackTop == rtn.base
getStackTop == rtn.top

\* I_JMP_LBL: the interpreted string, if any, is not ended.
jumpLabel(target, isExternal) ==
  /\ Run(Inside)
  /\ top' = getStackTop
  /\ IF isExternal
     THEN syntaxError(rtn) /\ UNCHANGED <<rtn, pos>>
     ELSE /\ pos' = target /\ rtn' = [rtn EXCEPT !.floor = rtn.top]
          /\ UNCHANGED <<doing, thrown>>
  /\ UNCHANGED <<aRtne, pending, tracer, scopes>>

\* I_JMP_VAL: the stack is cleared before the label's name is popped.
jumpValue(target, isExternal) ==
  /\ Run(Inside) /\ top > rtn.floor
  /\ top' = getStackTop - 1
  /\ IF getStackTop < 0
     THEN doing' = "undefined" /\ UNCHANGED <<rtn, pos, thrown>>
     ELSE IF isExternal
     THEN syntaxError(rtn) /\ UNCHANGED <<rtn, pos>>
     ELSE /\ pos' = target /\ rtn' = [rtn EXCEPT !.floor = rtn.top - 1]
          /\ UNCHANGED <<doing, thrown>>
  /\ UNCHANGED <<aRtne, pending, tracer, scopes>>

\* I_CALL_ANY, I_CALL_REF of an internal routine.
call(ct, args, target) ==
  /\ Run(Inside) /\ top >= rtn.floor + args + 1
  /\ startInternal(rtn, ct, args, top, target)
  /\ IF pending # {} THEN throw(Taken, FALSE, rtn) ELSE UNCHANGED <<doing, thrown>>

interpret(compiles) ==
  /\ Run(Inside) /\ top > rtn.floor
  /\ startInterpret(FALSE, top, top)
  /\ compile(compiles)
  /\ UNCHANGED pending

\* I_SYSTEM, of which the return code is not 0: processCommand.
commandFails ==
  /\ Run(Inside) /\ top >= rtn.floor + 2
  /\ raise("ERROR", rtn)
  /\ top' = IF doing' = "recover" THEN top ELSE top - 2
  /\ UNCHANGED <<rtn, aRtne, tracer, scopes, pos>>

\* The user types a string when shown the return code: it starts before the
\* condition is raised and before the command's operands are popped.
commandFailsPause(compiles) ==
  /\ Run(Inside) /\ top >= rtn.floor + 2
  /\ isMyselfInteractive
  /\ IF top + 1 >= StackSize
     THEN /\ startInterpret(TRUE, top + 1, top + 1)
          /\ doing' = "undefined" /\ UNCHANGED <<pending, thrown>>
     ELSE IF compiles
     THEN startInterpret(TRUE, top + 1, top - 1) /\ raise("ERROR", rtn')
     ELSE startInterpret(TRUE, top + 1, top + 1) /\ compile(FALSE) /\ UNCHANGED pending

\* TRACE.  The instruction is ignored in a program being traced interactively,
\* the built-in function is not (denySkipCount).
IsIgnored(denySkipCount) == isMyselfInteractive /\ ~denySkipCount

setTraceSetting(new, denySkipCount) ==
  /\ setProp /\ ~IsIgnored(denySkipCount)
  /\ setting' = new
  /\ UNCHANGED <<routines, buf, level, scopes, top, pos, doing, thrown>>

\* A wrong setting is an error, but its question marks have been obeyed.
traceBad(toggles, denySkipCount) ==
  /\ setProp /\ ~IsIgnored(denySkipCount)
  /\ setting' = [setting EXCEPT !.interactive = @ # toggles]
  /\ syntaxError(rtn)
  /\ UNCHANGED <<routines, buf, level, scopes, top, pos>>

exit ==
  /\ Run(Inside)
  /\ doing' = "ended"
  /\ UNCHANGED <<routines, tracer, scopes, top, pos, thrown>>

return(withResult) ==
  /\ Run(Inside) /\ (withResult => top > rtn.floor)
  /\ doing' = IF withResult THEN "returnResult" ELSE "returnEmpty"
  /\ UNCHANGED <<routines, tracer, scopes, top, pos, thrown>>

-----------------------------------------------------------------------------
(***************************************************************************)
(* Leaving.  RETURN and recoverFromException first end the interpreted     *)
(* strings of the current routine, one by one.                             *)
(***************************************************************************)
unwind ==
  /\ doing \in {"recover", "returnEmpty", "returnResult"}
  /\ rtn.ct = "INTERPRET"
  /\ endInterpret
  /\ UNCHANGED <<sets, doing, thrown>>

\* The rest of I_RETURN_EMPTY and I_RETURN_RESULT.
returned ==
  /\ doing \in {"returnEmpty", "returnResult"} /\ rtn.ct # "INTERPRET"
  /\ UNCHANGED sets
  /\ IF doing = "returnEmpty" /\ rtn.ct = "FUNCTION"
     THEN syntaxError(rtn) /\ UNCHANGED <<routines, tracer, scopes, top, pos>>
     ELSE IF aRtne = <<>>
     THEN doing' = "ended" /\ UNCHANGED <<routines, tracer, scopes, top, pos, thrown>>
     ELSE endInternal /\ doing' = "run" /\ UNCHANGED thrown

Recover == doing = "recover" /\ rtn.ct # "INTERPRET" /\ UNCHANGED sets

\* An error in an interactive string, or in a routine it called: the program
\* goes on with the next opcode.
pursue ==
  /\ Recover /\ thrown.isSignalDisabled
  /\ thrown' = None
  /\ doing' = IF pos \in {"proc", "operand"} THEN "undefined" ELSE "run"
  /\ UNCHANGED <<routines, tracer, scopes, top, pos>>

\* getSignal: the trap is taken once.
Trapped == [rtn EXCEPT !.signals = @ \ {thrown.sig}, !.callons = @ \ {thrown.sig}]

\* There is no such label.  The error is raised by the handler of run() itself.
labelNotFound ==
  /\ Recover /\ ~thrown.isSignalDisabled
  /\ rtn' = Trapped /\ thrown' = None
  /\ doing' = IF canRecoverFromSyntax(Trapped) THEN "escaped" ELSE "fatal"
  /\ UNCHANGED <<aRtne, pending, tracer, scopes, top, pos>>

signalOn(target) ==
  /\ Recover /\ ~thrown.isSignalDisabled /\ thrown.isStmtSignal
  /\ rtn' = [Trapped EXCEPT !.floor = rtn.top, !.began = TRUE]
  /\ top' = getStackTop /\ pos' = target /\ doing' = "run"
  /\ thrown' = None
  /\ UNCHANGED <<aRtne, pending, tracer, scopes>>

\* The condition's label is called as a subroutine.  A second pending condition
\* is then raised in the handler of run().
callOn(target) ==
  /\ Recover /\ ~thrown.isSignalDisabled /\ ~thrown.isStmtSignal
  /\ startInternal(Trapped, "SUBROUTINE", 0, top + 1, target)
  /\ doing' = IF top + 1 >= StackSize THEN "undefined"
              ELSE IF pending # {} THEN "escaped" ELSE "run"
  /\ thrown' = None

-----------------------------------------------------------------------------
Clause == \/ clausePending \/ clause \/ eof \/ procedureBad
          \/ \E compiles \in BOOLEAN : pause(compiles)
          \/ \E next \in Labels : endClause(next)

Operands == pop \/ \E tested \in BOOLEAN : push(tested)

\* SIGNAL traps any condition, CALL some (Compiler::handleCondition).
Set ==
  \/ \E sig \in Signals : setTrapper(sig, TRUE) \/ unsetTrapper(sig, TRUE)
  \/ \E sig \in Conds \cap Callable : setTrapper(sig, FALSE) \/ unsetTrapper(sig, FALSE)
  \/ \E denySkipCount \in BOOLEAN :
        \/ \E new \in Setting : setTraceSetting(new, denySkipCount)
        \/ \E toggles \in BOOLEAN : traceBad(toggles, denySkipCount)

\* What opcodes and built-in functions raise; ERROR is raised by commands, and
\* HALT and FAILURE, which may be trapped, by nothing.
Raised == Conds \cap {"NOTREADY", "NOVALUE", "LOSTDIGITS"}

Raise == \/ \E sig \in Raised : condition(sig)
         \/ failure \/ commandFails
         \/ \E compiles \in BOOLEAN : commandFailsPause(compiles)

Jump == \E target \in Labels, isExternal \in BOOLEAN :
           jumpLabel(target, isExternal) \/ jumpValue(target, isExternal)

Call == \/ \E ct \in {"SUBROUTINE", "FUNCTION"}, args \in 0..MaxArgs, target \in Labels :
              call(ct, args, target)
        \/ \E compiles \in BOOLEAN : interpret(compiles)

Leave == \/ exit \/ unwind \/ returned \/ pursue \/ labelNotFound
         \/ \E withResult \in BOOLEAN : return(withResult)
         \/ \E target \in Labels : signalOn(target) \/ callOn(target)

Next == Clause \/ Operands \/ Set \/ Raise \/ Jump \/ Call \/ Leave

Spec == Init /\ [][Next]_vars

-----------------------------------------------------------------------------
(***************************************************************************)
(* Properties.                                                             *)
(***************************************************************************)
TypeOK ==
  /\ rtn \in Routine /\ aRtne \in Seq(Routine)
  /\ pending \subseteq Conds
  /\ setting \in Setting /\ buf \in Seq(Setting)
  /\ level \in Nat /\ scopes \in Nat
  /\ top \in Int /\ pos \in Positions /\ doing \in Doing /\ sets \in Nat
  /\ thrown \in [sig : Signals, isStmtSignal : BOOLEAN, isSignalDisabled : BOOLEAN]

\* The routines and strings that have not ended, the current one last.
Frames == Append(aRtne, rtn)
Where(fs, K) == {i \in 1..Len(fs) : fs[i] \in K}
HowMany(K) == Cardinality(Where(Frames, K))

Procedures == {r \in Routine : r.isProcedure}
Routines   == {r \in Routine : r.ct \in {"SUBROUTINE", "FUNCTION"}}
Quiet      == {r \in Routine : r.disabled /\ r.ct = "INTERPRET"}

\* The variables a program sees are those of its innermost PROCEDURE: however
\* routines and strings were left (RETURN, SIGNAL, a condition or an error in
\* any of them, at any opcode), there is the global scope and one for each
\* PROCEDURE still active (m_isProcedure "remember to pop it", endInternal).
ScopesMatch == scopes = 1 + HowMany(Procedures)

\* Tracer::endRoutine takes the setting its own startRoutine saved: there is
\* one saved setting for each active routine, and none for a string, which
\* shares the setting of its routine.
SettingsMatch == Len(buf) = HowMany(Routines)

\* Tracer counts the strings started by an interactive pause, and those they
\* start in turn; Routines disables signals in them.  The two agree: after
\* the last string signals are taken again and the next pause is not
\* suppressed (endInterpret, "the trick is to avoid to copy back").
LevelMatch == /\ level = HowMany(Quiet)
              /\ rtn.disabled <=> level > 0

\* A routine or string runs above the operands of the code it interrupted,
\* and gives them back: no return, jump or recovery leaves m_top lower than
\* the running code expects.
OperandsKept ==
  /\ \A i \in 1..Len(aRtne) : Frames[i].floor <= Frames[i+1].floor
  /\ doing = "run" /\ ~rtn.disabled => top >= rtn.floor

\* raisePendingConds throws for four conditions only; if any other were
\* pending it would return, and processTraceClause would read the clause
\* number one byte too early.
PendingIsCallable == pending \subseteq Callable

\* "PROCEDURE is valid only when it is the first instruction executed after an
\* internal CALL or function invocation" (error 17.1, MsgTemplate.cpp:223):
\* mainLoop, which refuses I_PROC, meets it only in a routine that has executed
\* an instruction.
RefusedIsNotFirst == pos = "proc" => rtn.began

\* "SIG_SYNTAX only" (Interpreter.cpp:132): while signals are disabled, the
\* only exception recovered from is a syntax error.
DisabledIsSyntaxOnly ==
  doing = "recover" /\ thrown.isSignalDisabled => thrown.sig = "SYNTAX"

\* "jmp to a label resulting from an expr" (Interpreter.cpp:310): what SIGNAL
\* VALUE reads, at m_routines.m_top, is the operand its expression left at
\* m_top.
JumpsToValue ==
  [][\A target \in Labels, isExternal \in BOOLEAN :
       jumpValue(target, isExternal) => rtn.top = top]_vars
=============================================================================
