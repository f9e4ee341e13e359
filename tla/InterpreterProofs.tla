-------------------------- MODULE InterpreterProofs --------------------------
(***************************************************************************)
(* Theorems about Interpreter, for every set of conditions, every size of  *)
(* the operand stack and every bound.                                      *)
(*                                                                         *)
(* ScopesMatch, SettingsMatch and LevelMatch say that three counts agree   *)
(* with the routines and strings that are active.  They are not inductive  *)
(* alone: when a routine or a string ends, what is taken off each stack is *)
(* decided by the fields of the one that ends and of the one that goes on. *)
(* IInv adds what is known of those (Well): only the main program is a     *)
(* COMMAND, a string is no PROCEDURE, and signals are disabled exactly in  *)
(* what runs inside a string that disabled them.                           *)
(*                                                                         *)
(* The second half is about the operand stack: OperandsKept, from OpInv.   *)
(***************************************************************************)
EXTENDS Interpreter, FiniteSetTheorems, SequenceTheorems, TLAPS

N(fs, K) == Cardinality(Where(fs, K))
One(p)   == IF p THEN 1 ELSE 0

\* What is known of the i-th active routine or string r.
Well(r, i) ==
  /\ r.ct = "COMMAND" <=> i = 1
  /\ r.ct = "INTERPRET" => ~r.isProcedure
  /\ r.callons \subseteq Callable

\* Some string among the first i interrupted ones disabled signals.
QuietIn(fs, i) == \E j \in 1..i : fs[j] \in Quiet

Stacked == \A i \in 1..Len(aRtne) :
             /\ Well(aRtne[i], i)
             /\ aRtne[i].disabled <=> QuietIn(aRtne, i)

Current == /\ Well(rtn, Len(aRtne) + 1)
           /\ rtn.disabled <=> (rtn \in Quiet \/ QuietIn(aRtne, Len(aRtne)))

Counted == /\ scopes = 1 + N(aRtne, Procedures) + One(rtn \in Procedures)
           /\ Len(buf) = N(aRtne, Routines) + One(rtn \in Routines)
           /\ level = N(aRtne, Quiet) + One(rtn \in Quiet)

StacksTyped ==
  /\ rtn \in Routine /\ aRtne \in Seq(Routine)
  /\ pending \subseteq Conds
  /\ setting \in Setting /\ buf \in Seq(Setting)
  /\ level \in Nat /\ scopes \in Nat
  /\ top \in Int /\ pos \in Positions

Exception == [sig : Signals, isStmtSignal : BOOLEAN, isSignalDisabled : BOOLEAN]
StateTyped == doing \in Doing /\ sets \in Nat /\ thrown \in Exception

StacksOK == StacksTyped /\ Stacked /\ Current /\ Counted /\ PendingIsCallable

IInv == StacksOK /\ StateTyped

-----------------------------------------------------------------------------
(* Facts about sequences and counts.                                       *)

\* The elements counted are a finite set.
LEMMA WhereFinite ==
  ASSUME NEW fs \in Seq(Routine), NEW K
  PROVE  IsFiniteSet(Where(fs, K)) /\ N(fs, K) \in Nat
<1>1. Len(fs) \in Nat
  BY LenProperties
<1>2. IsFiniteSet(1..Len(fs))
  BY <1>1, FS_Interval
<1>3. Where(fs, K) \in SUBSET (1..Len(fs))
  BY DEF Where
<1>4. IsFiniteSet(Where(fs, K))
  BY <1>2, <1>3, FS_Subset
<1>5. QED BY <1>4, FS_CardinalityType DEF N

\* One more routine or string counts for one, if it is of the kind counted.
LEMMA CountAppend ==
  ASSUME NEW fs \in Seq(Routine), NEW x \in Routine, NEW K
  PROVE  N(Append(fs, x), K) = N(fs, K) + One(x \in K)
<1> DEFINE gs == Append(fs, x)
<1>1. /\ Len(fs) \in Nat
      /\ Len(gs) = Len(fs) + 1
      /\ \A i \in 1..Len(fs) : gs[i] = fs[i]
      /\ gs[Len(fs) + 1] = x
  BY LenProperties, AppendProperties
<1>2. IsFiniteSet(Where(fs, K)) /\ N(fs, K) \in Nat
  BY WhereFinite
<1>3. Len(fs) + 1 \notin Where(fs, K)
  BY <1>1 DEF Where
<1>4. CASE x \in K
  <2>1. Where(gs, K) = Where(fs, K) \cup {Len(fs) + 1}
    BY <1>1, <1>4 DEF Where
  <2>2. Cardinality(Where(fs, K) \cup {Len(fs) + 1}) = Cardinality(Where(fs, K)) + 1
    BY <1>2, <1>3, FS_AddElement
  <2>3. QED BY <1>4, <2>1, <2>2 DEF N, One
<1>5. CASE x \notin K
  <2>1. Where(gs, K) = Where(fs, K)
    BY <1>1, <1>5 DEF Where
  <2>2. QED BY <1>2, <1>5, <2>1 DEF N, One
<1>6. QED BY <1>4, <1>5

\* None is active in an empty stack.
LEMMA CountEmpty == \A K : N(<<>>, K) = 0
<1>1. \A K : Where(<<>>, K) = {}
  BY DEF Where
<1>2. QED BY <1>1, FS_EmptySet DEF N

\* Some are counted if and only if there are some.
LEMMA CountPositive ==
  ASSUME NEW fs \in Seq(Routine), NEW K
  PROVE  N(fs, K) > 0 <=> \E i \in 1..Len(fs) : fs[i] \in K
<1>1. IsFiniteSet(Where(fs, K)) /\ N(fs, K) \in Nat
  BY WhereFinite
<1>2. N(fs, K) = 0 <=> Where(fs, K) = {}
  BY <1>1, FS_EmptySet DEF N
<1>3. Where(fs, K) = {} <=> ~ \E i \in 1..Len(fs) : fs[i] \in K
  BY DEF Where
<1>4. QED BY <1>1, <1>2, <1>3

\* The stack below its last element: restore().
LEMMA Popped ==
  ASSUME NEW S, NEW fs \in Seq(S), fs # <<>>
  PROVE  /\ AllBut(fs) \in Seq(S)
         /\ Last(fs) \in S
         /\ Len(fs) \in Nat \ {0}
         /\ Len(AllBut(fs)) = Len(fs) - 1
         /\ \A i \in 1..Len(fs) - 1 : AllBut(fs)[i] = fs[i]
<1>1. Len(fs) \in Nat \ {0}
  BY EmptySeq, LenProperties
<1>2. \A i \in 1..Len(fs) : fs[i] \in S
  BY ElementOfSeq
<1>3. \A i \in 1..Len(fs)-1 : fs[i] \in S
  BY <1>1, <1>2
<1>4. /\ SubSeq(fs, 1, Len(fs) - 1) \in Seq(S)
      /\ Len(SubSeq(fs, 1, Len(fs) - 1)) = IF 1 <= Len(fs) - 1 THEN Len(fs) - 1 - 1 + 1 ELSE 0
      /\ \A i \in 1..Len(fs) - 1 - 1 + 1 : SubSeq(fs, 1, Len(fs) - 1)[i] = fs[1 + i - 1]
  BY <1>1, <1>3, SubSeqProperties
<1>5. \A n \in Nat \ {0} : /\ (IF 1 <= n - 1 THEN n - 1 - 1 + 1 ELSE 0) = n - 1
                           /\ n - 1 - 1 + 1 = n - 1
  OBVIOUS
<1>6. \A i \in 1..Len(fs) - 1 : SubSeq(fs, 1, Len(fs) - 1)[i] = fs[i]
  BY <1>1, <1>4, <1>5
<1>7. Len(SubSeq(fs, 1, Len(fs) - 1)) = Len(fs) - 1
  BY <1>1, <1>4, <1>5
<1>8. Last(fs) \in S
  BY <1>1, <1>2 DEF Last
<1>9. AllBut(fs) = SubSeq(fs, 1, Len(fs) - 1)
  BY DEF AllBut
<1>10. QED BY <1>1, <1>4, <1>6, <1>7, <1>8, <1>9

\* The stack is the one below its last element, and that element.
LEMMA PoppedAppend ==
  ASSUME NEW S, NEW fs \in Seq(S), fs # <<>>
  PROVE  fs = Append(AllBut(fs), Last(fs))
<1> DEFINE gs == Append(AllBut(fs), Last(fs))
<1>1. /\ AllBut(fs) \in Seq(S)
      /\ Last(fs) \in S
      /\ Len(fs) \in Nat \ {0}
      /\ Len(AllBut(fs)) = Len(fs) - 1
      /\ \A i \in 1..Len(fs) - 1 : AllBut(fs)[i] = fs[i]
  BY Popped
<1>2. /\ gs \in Seq(S)
      /\ Len(gs) = Len(fs) - 1 + 1
      /\ \A i \in 1..Len(fs) - 1 : gs[i] = AllBut(fs)[i]
      /\ gs[Len(fs) - 1 + 1] = Last(fs)
  BY <1>1, AppendProperties
<1>3. Len(gs) = Len(fs)
  BY <1>1, <1>2
<1>4. \A i \in 1..Len(fs) : gs[i] = fs[i]
  BY <1>1, <1>2 DEF Last
<1>5. QED BY <1>2, <1>3, <1>4, SeqEqual

-----------------------------------------------------------------------------
(* What happens to the stack of routines.                                  *)

\* The fields that say what a routine counts as.
Like(r, s) == /\ r.ct = s.ct
              /\ r.isProcedure = s.isProcedure
              /\ r.disabled = s.disabled

Kinds == {Procedures, Routines, Quiet}

LEMMA LikeCounts ==
  ASSUME NEW r \in Routine, NEW s \in Routine, Like(r, s), NEW K \in Kinds
  PROVE  r \in K <=> s \in K
<1>1. r \in Procedures <=> s \in Procedures
  BY DEF Like, Procedures
<1>2. r \in Routines <=> s \in Routines
  BY DEF Like, Routines
<1>3. r \in Quiet <=> s \in Quiet
  BY DEF Like, Quiet
<1>4. QED BY <1>1, <1>2, <1>3 DEF Kinds

\* A routine like rtn is saved: Routines::save.
LEMMA Saved ==
  ASSUME IInv, NEW r \in Routine, Like(r, rtn), r.callons \subseteq Callable,
         aRtne' = Append(aRtne, r)
  PROVE  /\ aRtne' \in Seq(Routine)
         /\ Len(aRtne') = Len(aRtne) + 1
         /\ Len(aRtne) \in Nat
         /\ Stacked'
         /\ QuietIn(aRtne', Len(aRtne')) <=> rtn.disabled
         /\ \A K \in Kinds : N(aRtne', K) = N(aRtne, K) + One(rtn \in K)
<1>1. aRtne \in Seq(Routine) /\ rtn \in Routine
  BY DEF IInv, StacksOK, StacksTyped
<1>2. /\ aRtne' \in Seq(Routine)
      /\ Len(aRtne) \in Nat
      /\ Len(aRtne') = Len(aRtne) + 1
      /\ \A i \in 1..Len(aRtne) : aRtne'[i] = aRtne[i]
      /\ aRtne'[Len(aRtne) + 1] = r
  BY <1>1, AppendProperties, LenProperties
<1>3. r \in Quiet <=> rtn \in Quiet
  BY <1>1, LikeCounts DEF Kinds
<1>4. \A i \in 1..Len(aRtne) : QuietIn(aRtne', i) <=> QuietIn(aRtne, i)
  BY <1>2 DEF QuietIn
<1>5. QuietIn(aRtne', Len(aRtne')) <=> (rtn \in Quiet \/ QuietIn(aRtne, Len(aRtne)))
  BY <1>2, <1>3 DEF QuietIn
<1>6. QuietIn(aRtne', Len(aRtne')) <=> rtn.disabled
  BY <1>5 DEF IInv, StacksOK, Current
<1>7. ASSUME NEW i \in 1..Len(aRtne')
      PROVE  Well(aRtne'[i], i) /\ (aRtne'[i].disabled <=> QuietIn(aRtne', i))
  <2>1. CASE i \in 1..Len(aRtne)
    BY <1>2, <1>4, <2>1 DEF IInv, StacksOK, Stacked
  <2>2. CASE i = Len(aRtne')
    <3>1. Well(r, i)
      BY <1>2, <2>2 DEF IInv, StacksOK, Current, Well, Like
    <3>2. r.disabled <=> QuietIn(aRtne', i)
      BY <1>6, <2>2 DEF Like
    <3>3. QED BY <1>2, <2>2, <3>1, <3>2
  <2>3. QED BY <1>2, <2>1, <2>2
<1>8. Stacked'
  BY <1>7 DEF Stacked, QuietIn, Quiet, Well
<1>9. ASSUME NEW K \in Kinds
      PROVE  N(aRtne', K) = N(aRtne, K) + One(rtn \in K)
  <2>1. N(aRtne', K) = N(aRtne, K) + One(r \in K)
    BY <1>1, CountAppend
  <2>2. r \in K <=> rtn \in K
    BY <1>1, LikeCounts
  <2>3. QED BY <2>1, <2>2 DEF One
<1>10. QED BY <1>2, <1>6, <1>8, <1>9

\* The last saved routine goes on: Routines::restore.
LEMMA Resumed ==
  ASSUME IInv, aRtne # <<>>, aRtne' = AllBut(aRtne), rtn' \in Routine,
         Like(rtn', Last(aRtne)), rtn'.callons \subseteq Callable
  PROVE  /\ aRtne' \in Seq(Routine)
         /\ Stacked'
         /\ Current'
         /\ \A K \in Kinds : N(aRtne, K) = N(aRtne', K) + One(rtn' \in K)
<1>1. aRtne \in Seq(Routine)
  BY DEF IInv, StacksOK, StacksTyped
<1>2. /\ aRtne' \in Seq(Routine)
      /\ Last(aRtne) \in Routine
      /\ Len(aRtne) \in Nat \ {0}
      /\ Len(aRtne') = Len(aRtne) - 1
      /\ \A i \in 1..Len(aRtne) - 1 : aRtne'[i] = aRtne[i]
  BY <1>1, Popped
<1>3. aRtne = Append(aRtne', Last(aRtne))
  BY <1>1, PoppedAppend
<1>4. Last(aRtne) = aRtne[Len(aRtne)]
  BY DEF Last
<1>5. \A i \in 1..Len(aRtne) - 1 : QuietIn(aRtne', i) <=> QuietIn(aRtne, i)
  BY <1>2 DEF QuietIn
<1>6. \A i \in 1..Len(aRtne') : Well(aRtne'[i], i) /\ (aRtne'[i].disabled <=> QuietIn(aRtne', i))
  BY <1>2, <1>5 DEF IInv, StacksOK, Stacked
<1>7. Stacked'
  BY <1>6 DEF Stacked, QuietIn, Quiet, Well
<1>8. rtn' \in Quiet <=> Last(aRtne) \in Quiet
  BY <1>2, LikeCounts DEF Kinds
<1>9. QuietIn(aRtne, Len(aRtne)) <=> (Last(aRtne) \in Quiet \/ QuietIn(aRtne', Len(aRtne')))
  BY <1>2, <1>4 DEF QuietIn
<1>10. /\ Well(Last(aRtne), Len(aRtne))
       /\ Last(aRtne).disabled <=> QuietIn(aRtne, Len(aRtne))
  BY <1>2, <1>4 DEF IInv, StacksOK, Stacked
<1>11. Well(rtn', Len(aRtne') + 1)
  BY <1>2, <1>10 DEF Well, Like
<1>12. rtn'.disabled <=> (rtn' \in Quiet \/ QuietIn(aRtne', Len(aRtne')))
  BY <1>8, <1>9, <1>10 DEF Like
<1>13. Current'
  BY <1>11, <1>12 DEF Current, QuietIn, Quiet, Well
<1>14. ASSUME NEW K \in Kinds
       PROVE  N(aRtne, K) = N(aRtne', K) + One(rtn' \in K)
  <2>1. N(Append(aRtne', Last(aRtne)), K) = N(aRtne', K) + One(Last(aRtne) \in K)
    BY <1>2, CountAppend
  <2>2. rtn' \in K <=> Last(aRtne) \in K
    BY <1>2, LikeCounts
  <2>3. QED BY <1>3, <2>1, <2>2 DEF One
<1>15. QED BY <1>2, <1>7, <1>13, <1>14

-----------------------------------------------------------------------------
(* The four ways an operation changes the stacks.                          *)

\* Nothing starts or ends.
LEMMA SameFrames ==
  ASSUME IInv, StacksTyped', aRtne' = aRtne, Like(rtn', rtn),
         rtn'.callons \subseteq Callable, pending' \subseteq Callable,
         buf' = buf, level' = level, scopes' = scopes
  PROVE  StacksOK'
<1>1. rtn \in Routine /\ rtn' \in Routine
  BY DEF IInv, StacksOK, StacksTyped
<1>2. \A K \in Kinds : rtn' \in K <=> rtn \in K
  BY <1>1, LikeCounts
<1>3. /\ rtn' \in Procedures <=> rtn \in Procedures
      /\ rtn' \in Routines <=> rtn \in Routines
      /\ rtn' \in Quiet <=> rtn \in Quiet
  BY <1>2 DEF Kinds
<1>4. Stacked'
  BY DEF IInv, StacksOK, Stacked, QuietIn, Quiet, Well
<1>5. Well(rtn', Len(aRtne') + 1)
  BY DEF IInv, StacksOK, Current, Well, Like
<1>6. rtn'.disabled <=> (rtn' \in Quiet \/ QuietIn(aRtne', Len(aRtne')))
  BY <1>3 DEF IInv, StacksOK, Current, Like
<1>7. Current'
  BY <1>5, <1>6 DEF Current, QuietIn, Quiet, Well
<1>8. /\ scopes' = 1 + N(aRtne', Procedures) + One(rtn' \in Procedures)
      /\ Len(buf') = N(aRtne', Routines) + One(rtn' \in Routines)
      /\ level' = N(aRtne', Quiet) + One(rtn' \in Quiet)
  BY <1>3 DEF IInv, StacksOK, Counted, One
<1>9. Counted'
  BY <1>8 DEF Counted, N, One, Where, Procedures, Routines, Quiet
<1>10. QED BY <1>4, <1>7, <1>9 DEF StacksOK, PendingIsCallable

\* The fields of a routine that is started (Routines::startRoutine).
LEMMA StartedType ==
  ASSUME IInv, NEW r \in Routine, NEW ct \in {"SUBROUTINE", "FUNCTION"},
         NEW args \in Nat, NEW t \in Int
  PROVE  /\ Started(r, ct, args, t) \in Routine
         /\ Started(r, ct, args, t).ct = ct
         /\ Started(r, ct, args, t).isProcedure = FALSE
         /\ Started(r, ct, args, t).disabled = r.disabled
         /\ Started(r, ct, args, t).callons = r.callons
<1>1. pos \in Positions /\ ct \in CallTypes
  BY DEF IInv, StacksOK, StacksTyped, CallTypes
<1>2. t - args - 1 \in Int /\ t - args \in Int
  OBVIOUS
<1>3. QED BY <1>1, <1>2 DEF Started, Routine

\* An internal routine starts: Interpreter::startInternal.
LEMMA InternalStarts ==
  ASSUME IInv, NEW r \in Routine, Like(r, rtn), r.callons \subseteq Callable,
         NEW ct \in {"SUBROUTINE", "FUNCTION"}, NEW args \in Nat, NEW t \in Int,
         NEW target \in Labels, startInternal(r, ct, args, t, target)
  PROVE  StacksOK'
<1> DEFINE new == Started(r, ct, args, t)
           isProc == pending = {} /\ target = "procLabel"
<1>1. /\ StacksTyped /\ Stacked /\ Current /\ Counted /\ PendingIsCallable
  BY DEF IInv, StacksOK
<1>2. /\ aRtne' = Append(aRtne, r)
      /\ buf' = Append(buf, setting)
      /\ top' = t /\ setting' = setting /\ level' = level
  BY DEF startInternal, SavedSettings
<1>3. /\ aRtne' \in Seq(Routine)
      /\ Len(aRtne') = Len(aRtne) + 1
      /\ Len(aRtne) \in Nat
      /\ Stacked'
      /\ QuietIn(aRtne', Len(aRtne')) <=> rtn.disabled
      /\ \A K \in Kinds : N(aRtne', K) = N(aRtne, K) + One(rtn \in K)
  BY <1>2, Saved
<1>4. /\ new \in Routine /\ new.ct = ct /\ new.isProcedure = FALSE
      /\ new.disabled = r.disabled /\ new.callons = r.callons
  BY StartedType
<1>5. /\ rtn' \in Routine /\ rtn'.ct = ct /\ rtn'.isProcedure = isProc
      /\ rtn'.disabled = rtn.disabled /\ rtn'.callons = r.callons
  <2>1. CASE pending # {}
    BY <1>4, <2>1 DEF startInternal, Like
  <2>2. CASE pending = {}
    <3>1. rtn' = [new EXCEPT !.isProcedure = (target = "procLabel"), !.began = TRUE]
      BY <2>2 DEF startInternal
    <3>2. QED BY <1>4, <2>2, <3>1 DEF Like, Routine
  <2>3. QED BY <2>1, <2>2
<1>6. pending' \subseteq pending
  BY DEF startInternal
<1>7. pos' \in Positions
  BY DEF startInternal, Positions, Labels, Inside
<1>8. scopes' = scopes + One(isProc)
  BY <1>1 DEF startInternal, One, StacksTyped
<1>9. scopes' \in Nat
  BY <1>1, <1>8 DEF One, StacksTyped
<1>10. StacksTyped'
  <2>1. buf' \in Seq(Setting)
    BY <1>1, <1>2, AppendProperties DEF StacksTyped
  <2>2. QED BY <1>1, <1>2, <1>3, <1>5, <1>6, <1>7, <1>9, <2>1 DEF StacksTyped
<1>11. /\ rtn' \notin Quiet
       /\ rtn' \in Routines
       /\ rtn' \in Procedures <=> isProc
  BY <1>5 DEF Quiet, Routines, Procedures
<1>12. Current'
  <2>1. Well(rtn', Len(aRtne') + 1)
    BY <1>3, <1>5 DEF Well
  <2>2. rtn'.disabled <=> (rtn' \in Quiet \/ QuietIn(aRtne', Len(aRtne')))
    BY <1>3, <1>5, <1>11
  <2>3. QED BY <2>1, <2>2 DEF Current, QuietIn, Quiet, Well
<1>13. Counted'
  <2>1. Len(buf') = Len(buf) + 1
    BY <1>1, <1>2, AppendProperties DEF StacksTyped
  <2>2. /\ N(aRtne', Procedures) = N(aRtne, Procedures) + One(rtn \in Procedures)
        /\ N(aRtne', Routines) = N(aRtne, Routines) + One(rtn \in Routines)
        /\ N(aRtne', Quiet) = N(aRtne, Quiet) + One(rtn \in Quiet)
    BY <1>3 DEF Kinds
  <2>3. /\ N(aRtne, Procedures) \in Nat /\ N(aRtne, Routines) \in Nat
        /\ N(aRtne, Quiet) \in Nat
    BY <1>1, WhereFinite DEF StacksTyped
  <2>4. /\ scopes' = 1 + N(aRtne', Procedures) + One(rtn' \in Procedures)
        /\ Len(buf') = N(aRtne', Routines) + One(rtn' \in Routines)
        /\ level' = N(aRtne', Quiet) + One(rtn' \in Quiet)
    BY <1>1, <1>2, <1>8, <1>11, <2>1, <2>2, <2>3 DEF Counted, One
  <2>5. QED BY <2>4 DEF Counted, N, One, Where, Procedures, Routines, Quiet
<1>14. PendingIsCallable'
  BY <1>1, <1>6 DEF PendingIsCallable
<1>15. QED BY <1>3, <1>10, <1>12, <1>13, <1>14 DEF StacksOK

\* Interactive strings are counted exactly while signals are disabled.
LEMMA LevelPositive ==
  ASSUME IInv
  PROVE  /\ rtn.disabled <=> level > 0
         /\ N(aRtne, Procedures) \in Nat /\ N(aRtne, Routines) \in Nat
         /\ N(aRtne, Quiet) \in Nat
<1>1. aRtne \in Seq(Routine) /\ Current /\ Counted
  BY DEF IInv, StacksOK, StacksTyped
<1>2. /\ N(aRtne, Procedures) \in Nat /\ N(aRtne, Routines) \in Nat
      /\ N(aRtne, Quiet) \in Nat
  BY <1>1, WhereFinite
<1>3. N(aRtne, Quiet) > 0 <=> QuietIn(aRtne, Len(aRtne))
  BY <1>1, CountPositive DEF QuietIn
<1>4. level > 0 <=> (N(aRtne, Quiet) > 0 \/ rtn \in Quiet)
  BY <1>1, <1>2 DEF Counted, One
<1>5. QED BY <1>1, <1>2, <1>3, <1>4 DEF Current

\* A string starts: Interpreter::startInterpret.
LEMMA StringStarts ==
  ASSUME IInv, NEW isInteractiveTrace \in BOOLEAN, NEW t \in Int, NEW left \in Int,
         startInterpret(isInteractiveTrace, t, left),
         pending' \subseteq Conds, pending' \subseteq Callable
  PROVE  StacksOK' /\ rtn' \in Routine
<1>1. /\ StacksTyped /\ Stacked /\ Current /\ Counted /\ PendingIsCallable
  BY DEF IInv, StacksOK
<1>2. /\ aRtne' = Append(aRtne, rtn)
      /\ level' = IF isInteractiveTrace \/ level > 0 THEN level + 1 ELSE level
      /\ top' = left /\ pos' = "string"
      /\ setting' = setting /\ buf' = buf /\ scopes' = scopes
  BY DEF startInterpret
<1>3. /\ aRtne' \in Seq(Routine)
      /\ Len(aRtne') = Len(aRtne) + 1
      /\ Len(aRtne) \in Nat
      /\ Stacked'
      /\ QuietIn(aRtne', Len(aRtne')) <=> rtn.disabled
      /\ \A K \in Kinds : N(aRtne', K) = N(aRtne, K) + One(rtn \in K)
  BY <1>1, <1>2, Saved DEF Like, Current, Well, StacksTyped
<1>4. /\ rtn' \in Routine /\ rtn'.ct = "INTERPRET" /\ rtn'.isProcedure = FALSE
      /\ rtn'.disabled = (rtn.disabled \/ isInteractiveTrace)
      /\ rtn'.callons = rtn.callons
  <2>1. rtn' = [rtn EXCEPT !.ct = "INTERPRET", !.isProcedure = FALSE,
                           !.posCur = pos, !.top = t, !.base = t - 1,
                           !.floor = left,
                           !.disabled = @ \/ isInteractiveTrace]
    BY DEF startInterpret
  <2>2. pos \in Positions /\ t - 1 \in Int /\ rtn \in Routine
    BY <1>1 DEF StacksTyped
  <2>3. QED BY <2>1, <2>2 DEF Routine, CallTypes
<1>5. rtn.disabled <=> level > 0
  BY LevelPositive
<1>6. level' = level + One(rtn'.disabled)
  <2>1. level \in Nat
    BY <1>1 DEF StacksTyped
  <2>2. rtn'.disabled <=> (isInteractiveTrace \/ level > 0)
    BY <1>4, <1>5
  <2>3. CASE isInteractiveTrace \/ level > 0
    BY <1>2, <2>1, <2>2, <2>3 DEF One
  <2>4. CASE ~(isInteractiveTrace \/ level > 0)
    BY <1>2, <2>1, <2>2, <2>4 DEF One
  <2>5. QED BY <2>3, <2>4
<1>7. StacksTyped'
  <2>1. pos' \in Positions
    BY <1>2 DEF Positions, Inside
  <2>2. level' \in Nat
    BY <1>1, <1>6 DEF One, StacksTyped
  <2>3. QED BY <1>1, <1>2, <1>3, <1>4, <2>1, <2>2 DEF StacksTyped
<1>8. /\ rtn' \in Quiet <=> rtn'.disabled
      /\ rtn' \notin Routines
      /\ rtn' \notin Procedures
  BY <1>4 DEF Quiet, Routines, Procedures
<1>9. Current'
  <2>1. Well(rtn', Len(aRtne') + 1)
    BY <1>1, <1>3, <1>4 DEF Well, Current
  <2>2. rtn'.disabled <=> (rtn' \in Quiet \/ QuietIn(aRtne', Len(aRtne')))
    BY <1>3, <1>4, <1>8
  <2>3. QED BY <2>1, <2>2 DEF Current, QuietIn, Quiet, Well
<1>10. Counted'
  <2>1. /\ N(aRtne', Procedures) = N(aRtne, Procedures) + One(rtn \in Procedures)
        /\ N(aRtne', Routines) = N(aRtne, Routines) + One(rtn \in Routines)
        /\ N(aRtne', Quiet) = N(aRtne, Quiet) + One(rtn \in Quiet)
    BY <1>3 DEF Kinds
  <2>2. /\ N(aRtne, Procedures) \in Nat /\ N(aRtne, Routines) \in Nat
        /\ N(aRtne, Quiet) \in Nat
    BY LevelPositive
  <2>3. /\ scopes' = 1 + N(aRtne', Procedures) + One(rtn' \in Procedures)
        /\ Len(buf') = N(aRtne', Routines) + One(rtn' \in Routines)
        /\ level' = N(aRtne', Quiet) + One(rtn' \in Quiet)
    BY <1>1, <1>2, <1>6, <1>8, <2>1, <2>2 DEF Counted, One
  <2>4. QED BY <2>3 DEF Counted, N, One, Where, Procedures, Routines, Quiet
<1>11. QED BY <1>3, <1>4, <1>7, <1>9, <1>10 DEF StacksOK, PendingIsCallable

\* A string ends: Interpreter::endInterpret.
LEMMA StringEnds ==
  ASSUME IInv, rtn.ct = "INTERPRET", endInterpret
  PROVE  StacksOK'
<1>1. /\ StacksTyped /\ Stacked /\ Current /\ Counted /\ PendingIsCallable
  BY DEF IInv, StacksOK
<1>2. /\ aRtne # <<>> /\ aRtne \in Seq(Routine) /\ rtn \in Routine
      /\ rtn.isProcedure = FALSE
  <2>1. Len(aRtne) + 1 # 1
    BY <1>1 DEF Current, Well
  <2>2. Len(<<>>) = 0
    BY EmptySeq
  <2>3. aRtne # <<>>
    BY <2>1, <2>2
  <2>4. QED BY <1>1, <2>3 DEF Current, Well, StacksTyped, Routine
<1>3. Last(aRtne) \in Routine /\ Last(aRtne).callons \subseteq Callable
  <2>1. Last(aRtne) \in Routine /\ Len(aRtne) \in Nat \ {0}
    BY <1>2, Popped
  <2>2. QED BY <1>1, <2>1 DEF Stacked, Well, Last
<1>4. /\ rtn' = Inherited(Last(aRtne))
      /\ aRtne' = AllBut(aRtne)
      /\ level' = EndedLevel
      /\ pos' = rtn.posCur /\ top' = rtn.base
      /\ pending' = pending /\ setting' = setting /\ buf' = buf /\ scopes' = scopes
  BY DEF endInterpret
<1>5. rtn' \in Routine /\ Like(rtn', Last(aRtne)) /\ rtn'.callons = Last(aRtne).callons
  BY <1>2, <1>3, <1>4 DEF Inherited, Routine, Like
<1>6. /\ aRtne' \in Seq(Routine)
      /\ Stacked' /\ Current'
      /\ \A K \in Kinds : N(aRtne, K) = N(aRtne', K) + One(rtn' \in K)
  BY <1>2, <1>3, <1>4, <1>5, Resumed
<1>7. rtn.disabled <=> level > 0
  BY LevelPositive
<1>8. /\ rtn \in Quiet <=> level > 0
      /\ rtn \notin Routines
      /\ rtn \notin Procedures
  BY <1>2, <1>7 DEF Quiet, Routines, Procedures
<1>9. level' = level - One(rtn \in Quiet) /\ level' \in Nat
  BY <1>1, <1>4, <1>8 DEF EndedLevel, One, StacksTyped
<1>10. StacksTyped'
  <2>1. rtn.posCur \in Positions /\ rtn.base \in Int
    BY <1>2 DEF Routine
  <2>2. QED BY <1>1, <1>4, <1>5, <1>6, <1>9, <2>1 DEF StacksTyped
<1>11. Counted'
  <2>1. /\ N(aRtne, Procedures) = N(aRtne', Procedures) + One(rtn' \in Procedures)
        /\ N(aRtne, Routines) = N(aRtne', Routines) + One(rtn' \in Routines)
        /\ N(aRtne, Quiet) = N(aRtne', Quiet) + One(rtn' \in Quiet)
    BY <1>6 DEF Kinds
  <2>2. /\ N(aRtne', Procedures) \in Nat /\ N(aRtne', Routines) \in Nat
        /\ N(aRtne', Quiet) \in Nat
    BY <1>6, WhereFinite
  <2>3. /\ scopes' = 1 + N(aRtne', Procedures) + One(rtn' \in Procedures)
        /\ Len(buf') = N(aRtne', Routines) + One(rtn' \in Routines)
        /\ level' = N(aRtne', Quiet) + One(rtn' \in Quiet)
    BY <1>1, <1>4, <1>8, <1>9, <2>1, <2>2 DEF Counted, One
  <2>4. QED BY <2>3 DEF Counted, N, One, Where, Procedures, Routines, Quiet
<1>12. QED BY <1>1, <1>4, <1>6, <1>10, <1>11 DEF StacksOK, PendingIsCallable

\* An internal routine ends: Interpreter::endInternal.
LEMMA InternalEnds ==
  ASSUME IInv, rtn.ct # "INTERPRET", aRtne # <<>>, endInternal
  PROVE  StacksOK'
<1>1. /\ StacksTyped /\ Stacked /\ Current /\ Counted /\ PendingIsCallable
  BY DEF IInv, StacksOK
<1>2. aRtne \in Seq(Routine) /\ rtn \in Routine /\ buf \in Seq(Setting)
  BY <1>1 DEF StacksTyped
<1>3. /\ Last(aRtne) \in Routine /\ Last(aRtne).callons \subseteq Callable
      /\ Len(aRtne) \in Nat \ {0}
  <2>1. Last(aRtne) \in Routine /\ Len(aRtne) \in Nat \ {0}
    BY <1>2, Popped
  <2>2. QED BY <1>1, <2>1 DEF Stacked, Well, Last
<1>4. /\ rtn' = Last(aRtne)
      /\ aRtne' = AllBut(aRtne)
      /\ scopes' = EndInternalScopes
      /\ pos' = rtn.posCur /\ top' = rtn.base
      /\ setting' = Last(buf) /\ buf' = AllBut(buf)
      /\ pending' = pending /\ level' = level
  BY DEF endInternal
<1>5. rtn' \in Routine /\ Like(rtn', Last(aRtne))
  BY <1>3, <1>4 DEF Like
<1>6. /\ aRtne' \in Seq(Routine)
      /\ Stacked' /\ Current'
      /\ \A K \in Kinds : N(aRtne, K) = N(aRtne', K) + One(rtn' \in K)
  BY <1>3, <1>4, <1>5, Resumed
<1>7. rtn.ct # "COMMAND"
  BY <1>1, <1>3 DEF Current, Well
<1>8. /\ rtn \notin Quiet
      /\ rtn \in Routines
      /\ rtn \in Procedures <=> rtn.isProcedure
  BY <1>2, <1>7 DEF Quiet, Routines, Procedures, Routine, CallTypes
<1>9. scopes' = scopes - One(rtn \in Procedures)
  BY <1>1, <1>4, <1>8 DEF EndInternalScopes, One, StacksTyped
<1>10. /\ N(aRtne, Procedures) \in Nat /\ N(aRtne, Routines) \in Nat
       /\ N(aRtne, Quiet) \in Nat
  BY LevelPositive
<1>11. buf # <<>>
  <2>1. Len(buf) = N(aRtne, Routines) + 1
    BY <1>1, <1>8 DEF Counted, One
  <2>2. Len(<<>>) = 0
    BY EmptySeq
  <2>3. QED BY <1>10, <2>1, <2>2
<1>12. /\ buf' \in Seq(Setting) /\ setting' \in Setting
       /\ Len(buf') = Len(buf) - 1
  BY <1>2, <1>4, <1>11, Popped
<1>13. StacksTyped'
  <2>1. rtn.posCur \in Positions /\ rtn.base \in Int
    BY <1>2 DEF Routine
  <2>2. scopes' \in Nat
    BY <1>1, <1>9, <1>10 DEF Counted, One
  <2>3. QED BY <1>1, <1>4, <1>5, <1>6, <1>12, <2>1, <2>2 DEF StacksTyped
<1>14. Counted'
  <2>1. /\ N(aRtne, Procedures) = N(aRtne', Procedures) + One(rtn' \in Procedures)
        /\ N(aRtne, Routines) = N(aRtne', Routines) + One(rtn' \in Routines)
        /\ N(aRtne, Quiet) = N(aRtne', Quiet) + One(rtn' \in Quiet)
    BY <1>6 DEF Kinds
  <2>2. /\ N(aRtne', Procedures) \in Nat /\ N(aRtne', Routines) \in Nat
        /\ N(aRtne', Quiet) \in Nat
    BY <1>6, WhereFinite
  <2>3. /\ scopes' = 1 + N(aRtne', Procedures) + One(rtn' \in Procedures)
        /\ Len(buf') = N(aRtne', Routines) + One(rtn' \in Routines)
        /\ level' = N(aRtne', Quiet) + One(rtn' \in Quiet)
    BY <1>1, <1>4, <1>8, <1>9, <1>12, <2>1, <2>2 DEF Counted, One
  <2>4. QED BY <2>3 DEF Counted, N, One, Where, Procedures, Routines, Quiet
<1>15. QED BY <1>1, <1>4, <1>6, <1>13, <1>14 DEF StacksOK, PendingIsCallable

-----------------------------------------------------------------------------
(* Exceptions.                                                             *)

LEMMA Throws ==
  ASSUME NEW sig \in Signals, NEW isStmtSignal \in BOOLEAN, NEW r \in Routine,
         throw(sig, isStmtSignal, r)
  PROVE  doing' \in Doing /\ thrown' \in Exception
<1>1. r.disabled \in BOOLEAN
  BY DEF Routine
<1>2. QED BY <1>1 DEF throw, Doing, Exception

LEMMA SyntaxErrors ==
  ASSUME thrown \in Exception, NEW r \in Routine, syntaxError(r)
  PROVE  doing' \in Doing /\ thrown' \in Exception
<1>1. CASE canRecoverFromSyntax(r)
  <2>1. throw("SYNTAX", TRUE, r)
    BY <1>1 DEF syntaxError
  <2>2. "SYNTAX" \in Signals
    BY DEF Signals
  <2>3. QED BY <2>1, <2>2, Throws
<1>2. CASE ~canRecoverFromSyntax(r)
  BY <1>2 DEF syntaxError, Doing
<1>3. QED BY <1>1, <1>2

\* raisePendingConds finds one of the conditions that are pending.
LEMMA TakenType ==
  ASSUME IInv, pending # {}
  PROVE  Taken \in pending /\ Taken \in Signals
<1>1. pending \subseteq Callable /\ pending \subseteq Conds
  BY DEF IInv, StacksOK, StacksTyped, PendingIsCallable
<1>2. CASE "ERROR" \in pending
  BY <1>1, <1>2 DEF Taken, Signals
<1>3. CASE "ERROR" \notin pending /\ "FAILURE" \in pending
  BY <1>1, <1>3 DEF Taken, Signals
<1>4. CASE "ERROR" \notin pending /\ "FAILURE" \notin pending /\ "HALT" \in pending
  BY <1>1, <1>4 DEF Taken, Signals
<1>5. CASE pending \cap {"ERROR", "FAILURE", "HALT"} = {}
  <2>1. "NOTREADY" \in pending
    BY <1>1, <1>5 DEF Callable
  <2>2. Taken = "NOTREADY"
    BY <1>5 DEF Taken
  <2>3. QED BY <1>1, <2>1, <2>2 DEF Signals
<1>6. QED BY <1>2, <1>3, <1>4, <1>5

\* Routines::raise only makes pending what CALL traps.
LEMMA Raises ==
  ASSUME IInv, NEW sig \in Conds, NEW r \in Routine, r.callons \subseteq Callable,
         raise(sig, r)
  PROVE  /\ doing' \in Doing /\ thrown' \in Exception
         /\ pending' \subseteq Conds /\ pending' \subseteq Callable
<1>1. /\ pending \subseteq Callable /\ pending \subseteq Conds
      /\ doing \in Doing /\ thrown \in Exception
  BY DEF IInv, StacksOK, StacksTyped, StateTyped, PendingIsCallable
<1>2. CASE sig \in r.signals /\ ~r.disabled
  <2>1. throw(sig, TRUE, r) /\ pending' = pending
    BY <1>2 DEF raise
  <2>2. QED BY <1>1, <2>1, Throws DEF Signals
<1>3. CASE ~(sig \in r.signals /\ ~r.disabled)
  <2>1. pending' = Pending(sig, r) /\ doing' = doing /\ thrown' = thrown
    BY <1>3 DEF raise
  <2>2. QED BY <1>1, <2>1 DEF Pending
<1>4. QED BY <1>2, <1>3

-----------------------------------------------------------------------------
(* The actions.                                                            *)

\* The current routine's fields change, or nothing of the routines does.
LEMMA FrameKept ==
  ASSUME IInv, rtn' \in Routine, Like(rtn', rtn), rtn'.callons \subseteq Callable,
         aRtne' = aRtne, buf' = buf, level' = level, scopes' = scopes,
         setting' \in Setting, pending' \subseteq Conds, pending' \subseteq Callable,
         top' \in Int, pos' \in Positions
  PROVE  StacksOK'
<1>1. StacksTyped'
  BY DEF IInv, StacksOK, StacksTyped
<1>2. QED BY <1>1, SameFrames

LEMMA RtnKept ==
  ASSUME IInv, rtn' = rtn, aRtne' = aRtne, buf' = buf, level' = level, scopes' = scopes,
         setting' \in Setting, pending' \subseteq Conds, pending' \subseteq Callable,
         top' \in Int, pos' \in Positions
  PROVE  StacksOK'
<1>1. rtn \in Routine /\ rtn.callons \subseteq Callable
  BY DEF IInv, StacksOK, StacksTyped, Current, Well
<1>2. QED BY <1>1, FrameKept DEF Like

\* The facts every action starts from.
LEMMA Facts ==
  ASSUME IInv
  PROVE  /\ rtn \in Routine /\ rtn.callons \subseteq Callable /\ rtn.callons \subseteq Conds
         /\ rtn.signals \subseteq Signals
         /\ rtn.top \in Int /\ rtn.base \in Int /\ rtn.floor \in Int
         /\ pending \subseteq Conds /\ pending \subseteq Callable
         /\ setting \in Setting /\ top \in Int /\ pos \in Positions
         /\ doing \in Doing /\ sets \in Nat /\ thrown \in Exception
<1>1. /\ rtn \in Routine /\ rtn.callons \subseteq Callable
      /\ pending \subseteq Conds /\ pending \subseteq Callable
      /\ setting \in Setting /\ top \in Int /\ pos \in Positions
      /\ doing \in Doing /\ sets \in Nat /\ thrown \in Exception
  BY DEF IInv, StacksOK, StacksTyped, StateTyped, Current, Well, PendingIsCallable
<1>2. QED BY <1>1 DEF Routine

\* A command that fails raises ERROR, which may not be among Conds.
LEMMA CommandRaises ==
  ASSUME IInv, NEW r \in Routine, r.callons \subseteq Callable, raise("ERROR", r)
  PROVE  /\ doing' \in Doing /\ thrown' \in Exception
         /\ pending' \subseteq Conds /\ pending' \subseteq Callable
<1>1. /\ pending \subseteq Callable /\ pending \subseteq Conds
      /\ doing \in Doing /\ thrown \in Exception
  BY DEF IInv, StacksOK, StacksTyped, StateTyped, PendingIsCallable
<1>2. r.callons \subseteq Conds /\ r.signals \subseteq Signals
  BY DEF Routine
<1>3. CASE "ERROR" \in r.signals /\ ~r.disabled
  <2>1. throw("ERROR", TRUE, r) /\ pending' = pending
    BY <1>3 DEF raise
  <2>2. QED BY <1>1, <1>2, <1>3, <2>1, Throws
<1>4. CASE ~("ERROR" \in r.signals /\ ~r.disabled)
  <2>1. pending' = Pending("ERROR", r) /\ doing' = doing /\ thrown' = thrown
    BY <1>4 DEF raise
  <2>2. QED BY <1>1, <1>2, <2>1 DEF Pending
<1>5. QED BY <1>3, <1>4

\* The fields of a string that is started.
LEMMA StringType ==
  ASSUME rtn \in Routine, pos \in Positions, NEW isInteractiveTrace \in BOOLEAN,
         NEW t \in Int, NEW left \in Int, startInterpret(isInteractiveTrace, t, left)
  PROVE  rtn' \in Routine /\ rtn'.callons = rtn.callons
<1>1. rtn' = [rtn EXCEPT !.ct = "INTERPRET", !.isProcedure = FALSE,
                         !.posCur = pos, !.top = t, !.base = t - 1,
                         !.floor = left,
                         !.disabled = @ \/ isInteractiveTrace]
  BY DEF startInterpret
<1>2. t - 1 \in Int /\ (rtn.disabled \/ isInteractiveTrace) \in BOOLEAN
  BY DEF Routine
<1>3. QED BY <1>1, <1>2 DEF Routine, CallTypes

\* Taking a trap changes only which conditions are trapped.
LEMMA TrappedType ==
  ASSUME IInv
  PROVE  Trapped \in Routine /\ Like(Trapped, rtn) /\ Trapped.callons \subseteq Callable
<1>1. Trapped = [rtn EXCEPT !.signals = rtn.signals \ {thrown.sig},
                            !.callons = rtn.callons \ {thrown.sig}]
  BY Facts DEF Trapped, Routine
<1>2. QED BY <1>1, Facts DEF Routine, Like

\* The beginning of a clause, the end of one, and of the program.
LEMMA ClauseStep ==
  ASSUME IInv, Clause
  PROVE  IInv'
<1>1. CASE clausePending
  <2>1. Taken \in pending /\ Taken \in Signals
    BY <1>1, TakenType DEF clausePending
  <2>2. doing' \in Doing /\ thrown' \in Exception
    BY <1>1, <2>1, Facts, Throws DEF clausePending
  <2>3. StacksOK'
    BY <1>1, Facts, RtnKept DEF clausePending, tracer
  <2>4. QED BY <1>1, <2>2, <2>3, Facts DEF clausePending, Run, IInv, StateTyped, Exception
<1>2. CASE clause
  <2>1. /\ rtn' \in Routine /\ Like(rtn', rtn) /\ rtn'.callons = rtn.callons
    BY <1>2, Facts DEF clause, Like, Routine
  <2>2. pos' \in Positions
    BY <1>2 DEF clause, Positions, Inside
  <2>3. StacksOK'
    BY <1>2, <2>1, <2>2, Facts, FrameKept DEF clause, tracer
  <2>4. QED BY <1>2, <2>3, Facts DEF clause, Run, IInv, StateTyped, Exception
<1>3. CASE eof
  <2>1. CASE rtn.ct = "INTERPRET"
    <3>1. StacksOK'
      BY <1>3, <2>1, StringEnds DEF eof
    <3>2. QED BY <1>3, <2>1, <3>1, Facts DEF eof, Run, IInv, StateTyped, Exception
  <2>2. CASE rtn.ct # "INTERPRET"
    <3>1. StacksOK'
      BY <1>3, <2>2, Facts, RtnKept DEF eof, routines, tracer
    <3>2. QED BY <1>3, <2>2, <3>1, Facts DEF eof, Run, IInv, StateTyped, Exception, Doing
  <2>3. QED BY <2>1, <2>2
<1>4. CASE procedureBad
  <2>1. doing' \in Doing /\ thrown' \in Exception
    BY <1>4, Facts, SyntaxErrors DEF procedureBad
  <2>2. StacksOK'
    BY <1>4, Facts, RtnKept DEF procedureBad, routines, tracer
  <2>3. QED BY <1>4, <2>1, <2>2, Facts DEF procedureBad, Run, IInv, StateTyped, Exception
<1>5. ASSUME NEW compiles \in BOOLEAN, pause(compiles)
      PROVE  IInv'
  <2>0. top + 1 \in Int
    BY Facts
  <2>1. startInterpret(TRUE, top + 1, top + 1) /\ pending' = pending /\ sets' = sets
    BY <1>5 DEF pause, Run
  <2>2. StacksOK' /\ rtn' \in Routine
    BY <2>0, <2>1, Facts, StringStarts
  <2>3. doing' \in Doing /\ thrown' \in Exception
    <3>1. CASE top + 1 >= StackSize
      BY <1>5, <3>1, Facts DEF pause, Doing
    <3>2. CASE ~(top + 1 >= StackSize) /\ compiles
      BY <1>5, <3>2, Facts DEF pause, compile
    <3>3. CASE ~(top + 1 >= StackSize) /\ ~compiles
      BY <1>5, <2>2, <3>3, Facts, SyntaxErrors DEF pause, compile
    <3>4. QED BY <3>1, <3>2, <3>3
  <2>4. QED BY <2>1, <2>2, <2>3, Facts DEF IInv, StateTyped, Exception
<1>6. ASSUME NEW next \in Labels, endClause(next)
      PROVE  IInv'
  <2>1. StacksOK'
    BY <1>6, Facts, RtnKept DEF endClause, routines, tracer, Positions
  <2>2. QED BY <1>6, <2>1, Facts DEF endClause, Run, IInv, StateTyped, Exception
<1>7. QED BY <1>1, <1>2, <1>3, <1>4, <1>5, <1>6 DEF Clause

\* Operands are pushed and popped.
LEMMA OperandsStep ==
  ASSUME IInv, Operands
  PROVE  IInv'
<1>1. CASE pop
  <2>1. StacksOK'
    BY <1>1, Facts, RtnKept DEF pop, routines, tracer
  <2>2. QED BY <1>1, <2>1, Facts DEF pop, Run, IInv, StateTyped, Exception
<1>2. ASSUME NEW tested \in BOOLEAN, push(tested)
      PROVE  IInv'
  <2>1. /\ top' = top + 1 /\ sets' = sets
        /\ rtn' = rtn /\ aRtne' = aRtne /\ pending' = pending
        /\ setting' = setting /\ buf' = buf /\ level' = level /\ scopes' = scopes
    BY <1>2 DEF push, Run, routines, tracer
  <2>2. pos' \in Positions
    BY <1>2, Facts DEF push, Positions
  <2>3. StacksOK'
    BY <2>1, <2>2, Facts, RtnKept
  <2>4. doing' \in Doing /\ thrown' \in Exception
    <3>1. CASE tested /\ top + 1 = StackSize - 1
      BY <1>2, <3>1, Facts, SyntaxErrors DEF push
    <3>2. CASE ~(tested /\ top + 1 = StackSize - 1)
      BY <1>2, <3>2, Facts DEF push, Doing
    <3>3. QED BY <3>1, <3>2
  <2>5. QED BY <2>1, <2>3, <2>4, Facts DEF IInv, StateTyped, Exception
<1>3. QED BY <1>1, <1>2 DEF Operands

\* Traps and the trace setting.
LEMMA SetStep ==
  ASSUME IInv, Set
  PROVE  IInv'
<1>1. ASSUME NEW sig \in Signals, NEW isSignalStmt \in BOOLEAN,
             isSignalStmt \/ sig \in Conds \cap Callable,
             setTrapper(sig, isSignalStmt) \/ unsetTrapper(sig, isSignalStmt)
      PROVE  IInv'
  <2>1. /\ sets' \in Nat
        /\ aRtne' = aRtne /\ pending' = pending /\ setting' = setting /\ buf' = buf
        /\ level' = level /\ scopes' = scopes /\ top' = top /\ pos' = pos
        /\ doing' = doing /\ thrown' = thrown
    BY <1>1, Facts DEF setTrapper, unsetTrapper, setProp, tracer
  <2>2. PICK S \in SUBSET Signals, C \in SUBSET (Conds \cap Callable) :
          rtn' = [rtn EXCEPT !.signals = S, !.callons = C]
    <3>1. CASE isSignalStmt /\ setTrapper(sig, isSignalStmt)
      <4>1. rtn' = [rtn EXCEPT !.signals = rtn.signals \cup {sig},
                               !.callons = rtn.callons \ {sig}]
        BY <3>1 DEF setTrapper
      <4>2. /\ rtn.signals \cup {sig} \in SUBSET Signals
            /\ rtn.callons \ {sig} \in SUBSET (Conds \cap Callable)
        BY Facts
      <4>3. QED BY <4>1, <4>2
    <3>2. CASE ~isSignalStmt /\ setTrapper(sig, isSignalStmt)
      <4>1. rtn' = [rtn EXCEPT !.signals = rtn.signals \ {sig},
                               !.callons = rtn.callons \cup {sig}]
        BY <3>2, Facts DEF setTrapper, Routine
      <4>2. /\ rtn.signals \ {sig} \in SUBSET Signals
            /\ rtn.callons \cup {sig} \in SUBSET (Conds \cap Callable)
        BY <1>1, <3>2, Facts
      <4>3. QED BY <4>1, <4>2
    <3>3. CASE isSignalStmt /\ unsetTrapper(sig, isSignalStmt)
      <4>1. rtn' = [rtn EXCEPT !.signals = rtn.signals \ {sig}, !.callons = rtn.callons]
        BY <3>3, Facts DEF unsetTrapper, Routine
      <4>2. /\ rtn.signals \ {sig} \in SUBSET Signals
            /\ rtn.callons \in SUBSET (Conds \cap Callable)
        BY Facts
      <4>3. QED BY <4>1, <4>2
    <3>4. CASE ~isSignalStmt /\ unsetTrapper(sig, isSignalStmt)
      <4>1. rtn' = [rtn EXCEPT !.signals = rtn.signals, !.callons = rtn.callons \ {sig}]
        BY <3>4, Facts DEF unsetTrapper, Routine
      <4>2. /\ rtn.signals \in SUBSET Signals
            /\ rtn.callons \ {sig} \in SUBSET (Conds \cap Callable)
        BY Facts
      <4>3. QED BY <4>1, <4>2
    <3>5. QED BY <1>1, <3>1, <3>2, <3>3, <3>4
  <2>3. rtn' \in Routine /\ Like(rtn', rtn) /\ rtn'.callons \subseteq Callable
    BY <2>2, Facts DEF Routine, Like
  <2>4. StacksOK'
    BY <2>1, <2>3, Facts, FrameKept
  <2>5. QED BY <2>1, <2>4, Facts DEF IInv, StateTyped, Exception
<1>2. ASSUME NEW denySkipCount \in BOOLEAN, NEW new \in Setting,
             setTraceSetting(new, denySkipCount)
      PROVE  IInv'
  <2>1. StacksOK'
    BY <1>2, Facts, RtnKept DEF setTraceSetting, routines
  <2>2. QED BY <1>2, <2>1, Facts DEF setTraceSetting, setProp, IInv, StateTyped, Exception
<1>3. ASSUME NEW denySkipCount \in BOOLEAN, NEW toggles \in BOOLEAN,
             traceBad(toggles, denySkipCount)
      PROVE  IInv'
  <2>1. setting' \in Setting
    BY <1>3, Facts DEF traceBad, Setting
  <2>2. StacksOK'
    BY <1>3, <2>1, Facts, RtnKept DEF traceBad, routines
  <2>3. doing' \in Doing /\ thrown' \in Exception
    BY <1>3, Facts, SyntaxErrors DEF traceBad
  <2>4. QED BY <1>3, <2>2, <2>3, Facts DEF traceBad, setProp, IInv, StateTyped, Exception
<1>4. QED BY <1>1, <1>2, <1>3 DEF Set, Signals

\* Conditions and errors.
LEMMA RaiseStep ==
  ASSUME IInv, Raise
  PROVE  IInv'
<1>1. ASSUME NEW sig \in Raised, condition(sig)
      PROVE  IInv'
  <2>0. sig \in Conds
    BY <1>1 DEF Raised
  <2>1. /\ doing' \in Doing /\ thrown' \in Exception
        /\ pending' \subseteq Conds /\ pending' \subseteq Callable
    BY <1>1, <2>0, Facts, Raises DEF condition
  <2>2. StacksOK'
    BY <1>1, <2>0, <2>1, Facts, RtnKept DEF condition, tracer
  <2>3. QED BY <1>1, <2>0, <2>1, <2>2, Facts DEF condition, Run, IInv, StateTyped, Exception
<1>2. CASE failure
  <2>1. doing' \in Doing /\ thrown' \in Exception
    BY <1>2, Facts, SyntaxErrors DEF failure
  <2>2. StacksOK'
    BY <1>2, Facts, RtnKept DEF failure, routines, tracer
  <2>3. QED BY <1>2, <2>1, <2>2, Facts DEF failure, Run, IInv, StateTyped, Exception
<1>3. CASE commandFails
  <2>1. /\ doing' \in Doing /\ thrown' \in Exception
        /\ pending' \subseteq Conds /\ pending' \subseteq Callable
    BY <1>3, Facts, CommandRaises DEF commandFails
  <2>2. top' \in Int
    BY <1>3, Facts DEF commandFails
  <2>3. StacksOK'
    BY <1>3, <2>1, <2>2, Facts, RtnKept DEF commandFails, tracer
  <2>4. QED BY <1>3, <2>1, <2>3, Facts DEF commandFails, Run, IInv, StateTyped, Exception
<1>4. ASSUME NEW compiles \in BOOLEAN, commandFailsPause(compiles)
      PROVE  IInv'
  <2>1. PICK left \in Int : startInterpret(TRUE, top + 1, left)
    <3>1. top + 1 \in Int /\ top - 1 \in Int
      BY Facts
    <3>2. \/ startInterpret(TRUE, top + 1, top + 1)
          \/ startInterpret(TRUE, top + 1, top - 1)
      BY <1>4 DEF commandFailsPause
    <3>3. QED BY <3>1, <3>2
  <2>2. top + 1 \in Int /\ sets' = sets
    BY <1>4, Facts DEF commandFailsPause, Run
  <2>3. CASE pending' = pending
    <3>1. StacksOK' /\ rtn' \in Routine
      BY <2>1, <2>2, <2>3, Facts, StringStarts
    <3>2. rtn'.callons = rtn.callons
      BY <2>1, Facts DEF startInterpret, Routine
    <3>3. doing' \in Doing /\ thrown' \in Exception
      <4>1. CASE top + 1 >= StackSize
        BY <1>4, <4>1, Facts DEF commandFailsPause, Doing
      <4>2. CASE ~(top + 1 >= StackSize) /\ compiles
        BY <1>4, <3>1, <3>2, <4>2, Facts, CommandRaises DEF commandFailsPause
      <4>3. CASE ~(top + 1 >= StackSize) /\ ~compiles
        BY <1>4, <3>1, <4>3, Facts, SyntaxErrors DEF commandFailsPause, compile
      <4>4. QED BY <4>1, <4>2, <4>3
    <3>4. QED BY <2>2, <3>1, <3>3, Facts DEF IInv, StateTyped, Exception
  <2>4. CASE pending' # pending
    <3>1. raise("ERROR", rtn')
      BY <1>4, <2>4 DEF commandFailsPause
    <3>2. rtn'.callons = rtn.callons /\ rtn' \in Routine
      BY <2>1, <2>2, Facts, StringType
    <3>3. /\ doing' \in Doing /\ thrown' \in Exception
          /\ pending' \subseteq Conds /\ pending' \subseteq Callable
      BY <3>1, <3>2, Facts, CommandRaises
    <3>4. StacksOK'
      BY <2>1, <2>2, <3>3, StringStarts
    <3>5. QED BY <2>2, <3>3, <3>4, Facts DEF IInv, StateTyped, Exception
  <2>5. QED BY <2>3, <2>4
<1>5. QED BY <1>1, <1>2, <1>3, <1>4 DEF Raise

\* SIGNAL.
LEMMA JumpStep ==
  ASSUME IInv, Jump
  PROVE  IInv'
<1>1. ASSUME NEW target \in Labels, NEW isExternal \in BOOLEAN,
             jumpLabel(target, isExternal) \/ jumpValue(target, isExternal)
      PROVE  IInv'
  <2>1. /\ aRtne' = aRtne /\ pending' = pending /\ setting' = setting /\ buf' = buf
        /\ level' = level /\ scopes' = scopes /\ sets' = sets
    BY <1>1 DEF jumpLabel, jumpValue, Run, tracer
  <2>2. top' \in Int
    BY <1>1, Facts DEF jumpLabel, jumpValue, getStackTop
  <2>3. pos' \in Positions
    BY <1>1, Facts DEF jumpLabel, jumpValue, Positions
  <2>4. rtn' \in Routine /\ Like(rtn', rtn) /\ rtn'.callons = rtn.callons
    <3>1. rtn' = rtn \/ \E h \in Int : rtn' = [rtn EXCEPT !.floor = h]
      BY <1>1, Facts DEF jumpLabel, jumpValue
    <3>2. QED BY <3>1, Facts DEF Routine, Like
  <2>5. doing' \in Doing /\ thrown' \in Exception
    <3>1. CASE syntaxError(rtn)
      BY <3>1, Facts, SyntaxErrors
    <3>2. CASE ~syntaxError(rtn)
      BY <1>1, <3>2, Facts DEF jumpLabel, jumpValue, Doing
    <3>3. QED BY <3>1, <3>2
  <2>6. StacksOK'
    BY <2>1, <2>2, <2>3, <2>4, Facts, FrameKept
  <2>7. QED BY <2>1, <2>5, <2>6, Facts DEF IInv, StateTyped, Exception
<1>2. QED BY <1>1 DEF Jump

\* CALL, functions and INTERPRET.
LEMMA CallStep ==
  ASSUME IInv, Call
  PROVE  IInv'
<1>1. ASSUME NEW ct \in {"SUBROUTINE", "FUNCTION"}, NEW args \in 0..MaxArgs,
             NEW target \in Labels, call(ct, args, target)
      PROVE  IInv'
  <2>1. startInternal(rtn, ct, args, top, target) /\ sets' = sets
    BY <1>1 DEF call, Run
  <2>2. StacksOK'
    BY <2>1, Facts, InternalStarts, SizesAreNat DEF Like
  <2>3. doing' \in Doing /\ thrown' \in Exception
    <3>1. CASE pending # {}
      BY <1>1, <3>1, Facts, TakenType, Throws DEF call
    <3>2. CASE pending = {}
      BY <1>1, <3>2, Facts DEF call
    <3>3. QED BY <3>1, <3>2
  <2>4. QED BY <2>1, <2>2, <2>3, Facts DEF IInv, StateTyped, Exception
<1>2. ASSUME NEW compiles \in BOOLEAN, interpret(compiles)
      PROVE  IInv'
  <2>1. startInterpret(FALSE, top, top) /\ pending' = pending /\ sets' = sets
    BY <1>2 DEF interpret, Run
  <2>2. StacksOK' /\ rtn' \in Routine
    BY <2>1, Facts, StringStarts
  <2>3. doing' \in Doing /\ thrown' \in Exception
    <3>1. CASE compiles
      BY <1>2, <3>1, Facts DEF interpret, compile
    <3>2. CASE ~compiles
      BY <1>2, <2>2, <3>2, Facts, SyntaxErrors DEF interpret, compile
    <3>3. QED BY <3>1, <3>2
  <2>4. QED BY <2>1, <2>2, <2>3, Facts DEF IInv, StateTyped, Exception
<1>3. QED BY <1>1, <1>2 DEF Call

\* EXIT, RETURN and the recovery from an exception.
LEMMA LeaveStep ==
  ASSUME IInv, Leave
  PROVE  IInv'
<1>1. CASE exit
  <2>1. StacksOK'
    BY <1>1, Facts, RtnKept DEF exit, routines, tracer
  <2>2. QED BY <1>1, <2>1, Facts DEF exit, Run, IInv, StateTyped, Exception, Doing
<1>2. CASE unwind
  <2>1. StacksOK'
    BY <1>2, StringEnds DEF unwind
  <2>2. QED BY <1>2, <2>1, Facts DEF unwind, IInv, StateTyped, Exception
<1>3. CASE returned
  <2>1. sets' = sets /\ rtn.ct # "INTERPRET"
    BY <1>3 DEF returned
  <2>2. CASE doing = "returnEmpty" /\ rtn.ct = "FUNCTION"
    <3>1. doing' \in Doing /\ thrown' \in Exception
      BY <1>3, <2>2, Facts, SyntaxErrors DEF returned
    <3>2. StacksOK'
      BY <1>3, <2>2, Facts, RtnKept DEF returned, routines, tracer
    <3>3. QED BY <2>1, <3>1, <3>2, Facts DEF IInv, StateTyped, Exception
  <2>3. CASE ~(doing = "returnEmpty" /\ rtn.ct = "FUNCTION") /\ aRtne = <<>>
    <3>1. StacksOK'
      BY <1>3, <2>3, Facts, RtnKept DEF returned, routines, tracer
    <3>2. QED BY <1>3, <2>1, <2>3, <3>1, Facts
              DEF returned, IInv, StateTyped, Exception, Doing
  <2>4. CASE ~(doing = "returnEmpty" /\ rtn.ct = "FUNCTION") /\ aRtne # <<>>
    <3>1. StacksOK'
      BY <1>3, <2>1, <2>4, InternalEnds DEF returned
    <3>2. QED BY <1>3, <2>1, <2>4, <3>1, Facts
              DEF returned, IInv, StateTyped, Exception, Doing
  <2>5. QED BY <2>2, <2>3, <2>4
<1>4. CASE pursue
  <2>1. StacksOK'
    BY <1>4, Facts, RtnKept DEF pursue, routines, tracer
  <2>2. thrown' \in Exception /\ doing' \in Doing
    BY <1>4 DEF pursue, None, Exception, Signals, Doing
  <2>3. QED BY <1>4, <2>1, <2>2, Facts DEF pursue, Recover, IInv, StateTyped, Exception
<1>5. CASE labelNotFound
  <2>1. /\ rtn' \in Routine /\ Like(rtn', rtn) /\ rtn'.callons \subseteq Callable
    BY <1>5, TrappedType DEF labelNotFound
  <2>2. StacksOK'
    BY <1>5, <2>1, Facts, FrameKept DEF labelNotFound, tracer
  <2>3. thrown' \in Exception /\ doing' \in Doing
    BY <1>5 DEF labelNotFound, None, Exception, Signals, Doing
  <2>4. QED BY <1>5, <2>2, <2>3, Facts DEF labelNotFound, Recover, IInv, StateTyped, Exception
<1>6. ASSUME NEW withResult \in BOOLEAN, return(withResult)
      PROVE  IInv'
  <2>1. StacksOK'
    BY <1>6, Facts, RtnKept DEF return, routines, tracer
  <2>2. QED BY <1>6, <2>1, Facts DEF return, Run, IInv, StateTyped, Exception, Doing
<1>7. ASSUME NEW target \in Labels, signalOn(target)
      PROVE  IInv'
  <2>1. /\ rtn' \in Routine /\ Like(rtn', rtn) /\ rtn'.callons \subseteq Callable
    <3>1. Trapped \in Routine /\ Like(Trapped, rtn) /\ Trapped.callons \subseteq Callable
      BY TrappedType
    <3>2. rtn' = [Trapped EXCEPT !.floor = rtn.top, !.began = TRUE]
      BY <1>7 DEF signalOn
    <3>3. QED BY <3>1, <3>2, Facts DEF Routine, Like
  <2>2. top' \in Int /\ pos' \in Positions
    BY <1>7, Facts DEF signalOn, getStackTop, Positions
  <2>3. StacksOK'
    BY <1>7, <2>1, <2>2, Facts, FrameKept DEF signalOn, tracer
  <2>4. thrown' \in Exception /\ doing' \in Doing
    BY <1>7 DEF signalOn, None, Exception, Signals, Doing
  <2>5. QED BY <1>7, <2>3, <2>4, Facts DEF signalOn, Recover, IInv, StateTyped, Exception
<1>8. ASSUME NEW target \in Labels, callOn(target)
      PROVE  IInv'
  <2>1. StacksOK'
    <3>1. Trapped \in Routine /\ Like(Trapped, rtn) /\ Trapped.callons \subseteq Callable
      BY TrappedType
    <3>2. startInternal(Trapped, "SUBROUTINE", 0, top + 1, target)
      BY <1>8 DEF callOn
    <3>3. top + 1 \in Int
      BY Facts
    <3>4. QED BY <3>1, <3>2, <3>3, InternalStarts
  <2>2. thrown' \in Exception /\ doing' \in Doing
    BY <1>8 DEF callOn, None, Exception, Signals, Doing
  <2>3. QED BY <1>8, <2>1, <2>2, Facts DEF callOn, Recover, IInv, StateTyped, Exception
<1>9. QED BY <1>1, <1>2, <1>3, <1>4, <1>5, <1>6, <1>7, <1>8 DEF Leave

-----------------------------------------------------------------------------
(* The theorems.                                                           *)

LEMMA InitIInv == Init => IInv
<1> SUFFICES ASSUME Init PROVE IInv
  OBVIOUS
<1>1. /\ rtn = Main /\ aRtne = <<>> /\ pending = {} /\ buf = <<>> /\ level = 0
      /\ scopes = 1 /\ sets = 0 /\ top = -1 /\ pos = "clause" /\ doing = "run"
      /\ thrown = None /\ setting \in Setting
  BY DEF Init, Setting
<1>2. /\ rtn \in Routine /\ rtn.ct = "COMMAND" /\ rtn.callons = {}
      /\ rtn.isProcedure = FALSE /\ rtn.disabled = FALSE
  BY <1>1 DEF Main, Routine, CallTypes, Positions, Labels
<1>3. /\ aRtne \in Seq(Routine) /\ buf \in Seq(Setting)
      /\ Len(aRtne) = 0 /\ Len(buf) = 0
  BY <1>1, EmptySeq
<1>4. StacksTyped
  BY <1>1, <1>2, <1>3 DEF StacksTyped, Positions, Labels
<1>5. Stacked
  BY <1>3 DEF Stacked
<1>6. Current
  <2>1. ~QuietIn(aRtne, Len(aRtne))
    BY <1>3 DEF QuietIn
  <2>2. rtn \notin Quiet
    BY <1>2 DEF Quiet
  <2>3. Well(rtn, Len(aRtne) + 1)
    BY <1>2, <1>3 DEF Well
  <2>4. QED BY <1>2, <2>1, <2>2, <2>3 DEF Current
<1>7. Counted
  <2>1. rtn \notin Quiet /\ rtn \notin Routines /\ rtn \notin Procedures
    BY <1>2 DEF Quiet, Routines, Procedures
  <2>2. \A K : N(aRtne, K) = 0
    BY <1>1, CountEmpty
  <2>3. QED BY <1>1, <1>3, <2>1, <2>2 DEF Counted, One
<1>8. StateTyped
  BY <1>1 DEF StateTyped, Doing, None, Exception, Signals
<1>9. QED BY <1>1, <1>4, <1>5, <1>6, <1>7, <1>8 DEF IInv, StacksOK, PendingIsCallable

LEMMA NextIInv == IInv /\ [Next]_vars => IInv'
<1> SUFFICES ASSUME IInv, [Next]_vars PROVE IInv'
  OBVIOUS
<1>1. CASE Next
  BY <1>1, ClauseStep, OperandsStep, SetStep, RaiseStep, JumpStep, CallStep, LeaveStep
  DEF Next
<1>2. CASE UNCHANGED vars
  <2>1. /\ rtn' = rtn /\ aRtne' = aRtne /\ pending' = pending /\ setting' = setting
        /\ buf' = buf /\ level' = level /\ scopes' = scopes /\ top' = top /\ pos' = pos
        /\ sets' = sets /\ doing' = doing /\ thrown' = thrown
    BY <1>2 DEF vars, routines, tracer
  <2>2. StacksOK'
    BY <2>1, Facts, RtnKept
  <2>3. QED BY <2>1, <2>2, Facts DEF IInv, StateTyped, Exception
<1>3. QED BY <1>1, <1>2

\* What IInv counts is what the properties count.
LEMMA FramesCount ==
  ASSUME IInv
  PROVE  \A K \in Kinds : HowMany(K) = N(aRtne, K) + One(rtn \in K)
<1>1. aRtne \in Seq(Routine) /\ rtn \in Routine
  BY DEF IInv, StacksOK, StacksTyped
<1>2. \A K \in Kinds : N(Append(aRtne, rtn), K) = N(aRtne, K) + One(rtn \in K)
  BY <1>1, CountAppend
<1>3. QED BY <1>2 DEF HowMany, Frames, N

LEMMA IInvImplies ==
  ASSUME IInv
  PROVE  TypeOK /\ ScopesMatch /\ SettingsMatch /\ LevelMatch /\ PendingIsCallable
<1>1. StacksTyped /\ StateTyped /\ Counted /\ PendingIsCallable
  BY DEF IInv, StacksOK
<1>2. TypeOK
  BY <1>1 DEF TypeOK, StacksTyped, StateTyped, Exception
<1>3. /\ HowMany(Procedures) = N(aRtne, Procedures) + One(rtn \in Procedures)
      /\ HowMany(Routines) = N(aRtne, Routines) + One(rtn \in Routines)
      /\ HowMany(Quiet) = N(aRtne, Quiet) + One(rtn \in Quiet)
  BY FramesCount DEF Kinds
<1>4. ScopesMatch
  BY <1>1, <1>3, LevelPositive DEF Counted, ScopesMatch, One
<1>5. SettingsMatch
  BY <1>1, <1>3 DEF Counted, SettingsMatch
<1>6. LevelMatch
  BY <1>1, <1>3, LevelPositive DEF Counted, LevelMatch
<1>7. QED BY <1>1, <1>2, <1>4, <1>5, <1>6

\* The inductive invariant holds in every reachable state of run().
THEOREM Invariance == Spec => []IInv
<1>1. Init => IInv
  BY InitIInv
<1>2. IInv /\ [Next]_vars => IInv'
  BY NextIInv
<1>3. QED BY <1>1, <1>2, PTL DEF Spec

\* Every variable keeps its type, whatever program is interpreted.
THEOREM TypeCorrect == Spec => []TypeOK
<1>1. IInv => TypeOK
  BY IInvImplies
<1>2. QED BY <1>1, Invariance, PTL

\* There is one variable scope for each active PROCEDURE: endInternal pops
\* the scope of a routine however the strings it interpreted were left.
THEOREM ScopesAlwaysMatch == Spec => []ScopesMatch
<1>1. IInv => ScopesMatch
  BY IInvImplies
<1>2. QED BY <1>1, Invariance, PTL

\* There is one saved trace setting for each active routine: Tracer::endRoutine
\* never takes the setting another routine saved.
THEOREM SettingsAlwaysMatch == Spec => []SettingsMatch
<1>1. IInv => SettingsMatch
  BY IInvImplies
<1>2. QED BY <1>1, Invariance, PTL

\* The tracer's level and the routines' disabled signals agree: when the last
\* string of an interactive pause has ended, signals are taken again.
THEOREM LevelAlwaysMatches == Spec => []LevelMatch
<1>1. IInv => LevelMatch
  BY IInvImplies
<1>2. QED BY <1>1, Invariance, PTL

\* Only conditions that raisePendingConds knows are ever pending.
THEOREM PendingAlwaysCallable == Spec => []PendingIsCallable
<1>1. IInv => PendingIsCallable
  BY IInvImplies
<1>2. QED BY <1>1, Invariance, PTL

-----------------------------------------------------------------------------
(***************************************************************************)
(* The operand stack: OperandsKept, for every program and every size of    *)
(* the stack.                                                              *)
(*                                                                         *)
(* What is taken off the stack when a routine or a string ends was fixed   *)
(* when it started (base), and where a jump clears the stack to as well    *)
(* (top); so each active routine must hold its own two above the floor of  *)
(* the one it interrupted (Above).  Of the running code, the height is     *)
(* known while it runs, but also from the moment a condition of CALL is    *)
(* thrown until its routine is called (Needs): a syntax error may be       *)
(* raised by a jump that has already cleared the stack too low.  Nothing   *)
(* is said of code in which signals are disabled: after an error there the *)
(* program goes on with whatever is on the stack.                          *)
(***************************************************************************)
Above(p, r) == /\ p.floor <= r.floor /\ p.floor < r.top
               /\ ~p.disabled => p.floor <= r.base

FloorsOK ==
  /\ \A i \in 1..Len(aRtne) : aRtne[i].floor <= aRtne[i].top
  /\ rtn.floor <= rtn.top
  /\ \A i \in 1..Len(aRtne) - 1 : Above(aRtne[i], aRtne[i+1])
  /\ aRtne # << >> => Above(aRtne[Len(aRtne)], rtn)

Needs == doing = "run" \/ (doing = "recover" /\ (~thrown.isStmtSignal \/ thrown.isSignalDisabled))

\* The running code is above its floor.
Kept == ~rtn.disabled => top >= rtn.floor

HeightOK ==
  /\ Needs => Kept
  /\ doing = "recover" /\ ~thrown.isSignalDisabled => ~rtn.disabled

OpInv == FloorsOK /\ HeightOK

-----------------------------------------------------------------------------
(* The frames.                                                             *)

SameFrame(r, s) == /\ r.floor = s.floor /\ r.top = s.top /\ r.base = s.base
                   /\ r.disabled <=> s.disabled

LEMMA FramesTyped ==
  ASSUME IInv
  PROVE  /\ Len(aRtne) \in Nat /\ aRtne \in Seq(Routine) /\ rtn \in Routine
         /\ (aRtne # << >> => Len(aRtne) > 0) /\ (aRtne = << >> => Len(aRtne) = 0)
         /\ \A i \in 1..Len(aRtne) : aRtne[i] \in Routine
<1>1. aRtne \in Seq(Routine) /\ rtn \in Routine
  BY DEF IInv, StacksOK, StacksTyped
<1>2. Len(aRtne) \in Nat /\ (aRtne # << >> => Len(aRtne) > 0) /\ (aRtne = << >> => Len(aRtne) = 0)
  BY <1>1, LenProperties, EmptySeq
<1>3. QED BY <1>1, <1>2, ElementOfSeq

LEMMA Heights == \A r \in Routine : r.floor \in Int /\ r.top \in Int /\ r.base \in Int
BY DEF Routine

\* Of the current routine nothing changes that the floors depend on.
LEMMA FloorsSame ==
  ASSUME FloorsOK, aRtne' = aRtne, SameFrame(rtn', rtn)
  PROVE  FloorsOK'
BY DEF FloorsOK, Above, SameFrame

\* The stack was cleared by a jump.
LEMMA FloorsJumped ==
  ASSUME IInv, FloorsOK, aRtne' = aRtne, rtn'.floor \in {rtn.top, rtn.top - 1},
         rtn'.top = rtn.top, rtn'.base = rtn.base
  PROVE  FloorsOK'
<1>1. rtn.top \in Int /\ \A i \in 1..Len(aRtne) : aRtne[i].floor \in Int
  BY FramesTyped, Heights
<1>2. rtn'.floor <= rtn'.top
  BY <1>1
<1>3. aRtne # << >> => Above(aRtne[Len(aRtne)], rtn')
  BY <1>1, FramesTyped DEF FloorsOK, Above
<1>4. QED BY <1>2, <1>3 DEF FloorsOK

\* A routine or a string starts.
LEMMA FloorsSaved ==
  ASSUME IInv, FloorsOK, NEW r \in Routine, SameFrame(r, rtn), aRtne' = Append(aRtne, r),
         Above(rtn, rtn'), rtn'.floor <= rtn'.top
  PROVE  FloorsOK'
<1>1. /\ Len(aRtne') = Len(aRtne) + 1 /\ aRtne'[Len(aRtne) + 1] = r
      /\ \A i \in 1..Len(aRtne) : aRtne'[i] = aRtne[i]
  BY FramesTyped, AppendProperties
<1>2. Above(r, rtn') /\ r.floor <= r.top
  BY DEF Above, SameFrame, FloorsOK
<1>3. aRtne # << >> => Above(aRtne[Len(aRtne)], r)
  BY DEF Above, SameFrame, FloorsOK
<1>4. \A i \in 1..Len(aRtne') : aRtne'[i].floor <= aRtne'[i].top
  <2> TAKE i \in 1..Len(aRtne')
  <2>1. CASE i = Len(aRtne) + 1
    BY <1>1, <1>2, <2>1
  <2>2. CASE i # Len(aRtne) + 1
    BY <1>1, <2>2, FramesTyped DEF FloorsOK
  <2>3. QED BY <2>1, <2>2
<1>5. \A i \in 1..Len(aRtne') - 1 : Above(aRtne'[i], aRtne'[i+1])
  <2> TAKE i \in 1..Len(aRtne') - 1
  <2>1. CASE i = Len(aRtne)
    <3>1. aRtne # << >>
      BY <2>1, FramesTyped
    <3>2. aRtne'[i] = aRtne[Len(aRtne)] /\ aRtne'[i+1] = r
      BY <1>1, <2>1, FramesTyped
    <3>3. QED BY <1>3, <3>1, <3>2
  <2>2. CASE i # Len(aRtne)
    <3>1. i \in 1..Len(aRtne) - 1 /\ aRtne'[i] = aRtne[i] /\ aRtne'[i+1] = aRtne[i+1]
      BY <1>1, <2>2, FramesTyped
    <3>2. QED BY <3>1 DEF FloorsOK
  <2>3. QED BY <2>1, <2>2
<1>6. Above(aRtne'[Len(aRtne')], rtn')
  BY <1>1, <1>2
<1>7. QED BY <1>4, <1>5, <1>6 DEF FloorsOK

\* One ends.
LEMMA FloorsResumed ==
  ASSUME IInv, FloorsOK, aRtne # << >>, aRtne' = AllBut(aRtne), SameFrame(rtn', Last(aRtne))
  PROVE  FloorsOK'
<1>1. /\ Len(aRtne) \in Nat \ {0} /\ Len(aRtne') = Len(aRtne) - 1
      /\ \A i \in 1..Len(aRtne) - 1 : aRtne'[i] = aRtne[i]
  BY FramesTyped, Popped
<1>2. Last(aRtne) = aRtne[Len(aRtne)]
  BY DEF Last
<1>3. rtn'.floor <= rtn'.top /\ \A i \in 1..Len(aRtne') : aRtne'[i].floor <= aRtne'[i].top
  BY <1>1, <1>2 DEF FloorsOK, SameFrame
<1>4. \A i \in 1..Len(aRtne') - 1 : Above(aRtne'[i], aRtne'[i+1])
  BY <1>1 DEF FloorsOK
<1>5. aRtne' # << >> => Above(aRtne'[Len(aRtne')], rtn')
  <2> SUFFICES ASSUME aRtne' # << >> PROVE Above(aRtne'[Len(aRtne')], rtn')
    OBVIOUS
  <2>1. Len(aRtne') > 0
    <3>1. aRtne' \in Seq(Routine)
      BY FramesTyped, Popped
    <3>2. QED BY <3>1, EmptySeq, LenProperties
  <2>2. Above(aRtne[Len(aRtne) - 1], aRtne[Len(aRtne)])
    BY <1>1, <2>1 DEF FloorsOK
  <2>3. QED BY <1>1, <1>2, <2>1, <2>2 DEF Above, SameFrame
<1>6. QED BY <1>3, <1>4, <1>5 DEF FloorsOK

-----------------------------------------------------------------------------
(* The end and the start of routines and strings.                          *)

\* What the interrupted code finds when the current one ends at its base.
LEMMA EndedHeight ==
  ASSUME IInv, FloorsOK, aRtne # << >>, aRtne' = AllBut(aRtne), SameFrame(rtn', Last(aRtne)),
         top' = rtn.base
  PROVE  FloorsOK' /\ Kept'
<1>1. ~Last(aRtne).disabled => Last(aRtne).floor <= rtn.base
  BY DEF FloorsOK, Above, Last
<1>2. QED BY <1>1, FloorsResumed DEF SameFrame, Kept

LEMMA StringResumes ==
  ASSUME IInv, FloorsOK, rtn.ct = "INTERPRET", endInterpret
  PROVE  FloorsOK' /\ Kept' /\ (rtn'.disabled => rtn.disabled)
<1>1. aRtne # << >>
  <2>1. Len(aRtne) + 1 # 1
    BY DEF IInv, StacksOK, Current, Well
  <2>2. QED BY <2>1, FramesTyped
<1>2. Last(aRtne) \in Routine /\ Last(aRtne) = aRtne[Len(aRtne)] /\ Len(aRtne) \in Nat \ {0}
  BY <1>1, FramesTyped, Popped DEF Last
<1>3. rtn' = [Last(aRtne) EXCEPT !.signals = IF rtn.disabled THEN @ ELSE rtn.signals]
  BY DEF endInterpret, Inherited
<1>4. SameFrame(rtn', Last(aRtne))
  BY <1>2, <1>3 DEF Routine, SameFrame
<1>5. Last(aRtne).disabled => rtn.disabled
  <2>1. aRtne[Len(aRtne)].disabled <=> QuietIn(aRtne, Len(aRtne))
    BY <1>2 DEF IInv, StacksOK, Stacked
  <2>2. QED BY <1>2, <2>1 DEF IInv, StacksOK, Current
<1>6. QED BY <1>1, <1>4, <1>5, EndedHeight DEF endInterpret, SameFrame

LEMMA RoutineResumes ==
  ASSUME IInv, FloorsOK, aRtne # << >>, endInternal
  PROVE  FloorsOK' /\ Kept'
<1>1. SameFrame(rtn', Last(aRtne))
  BY DEF endInternal, SameFrame
<1>2. QED BY <1>1, EndedHeight DEF endInternal

\* A routine starts above its arguments.
LEMMA RoutineAbove ==
  ASSUME IInv, FloorsOK, NEW r \in Routine, SameFrame(r, rtn),
         NEW ct \in {"SUBROUTINE", "FUNCTION"}, NEW args \in Nat, NEW t \in Int,
         NEW target \in Labels, startInternal(r, ct, args, t, target),
         rtn.floor < t, ~rtn.disabled => rtn.floor <= t - args - 1
  PROVE  FloorsOK' /\ Kept' /\ (rtn'.disabled <=> rtn.disabled)
<1> DEFINE new == Started(r, ct, args, t)
<1>1. /\ new \in Routine /\ (new.disabled <=> r.disabled)
      /\ new.top = t /\ new.floor = t /\ new.base \in {t - args - 1, t - args}
  <2>1. pos \in Positions /\ ct \in CallTypes /\ t - args - 1 \in Int /\ t - args \in Int
    BY Facts DEF CallTypes
  <2>2. QED BY <2>1 DEF Started, Routine
<1> HIDE DEF new
<1>2. SameFrame(rtn', new)
  <2>1. rtn' = new \/ \E b \in BOOLEAN : rtn' = [new EXCEPT !.isProcedure = b, !.began = TRUE]
    BY DEF startInternal, new
  <2>2. QED BY <1>1, <2>1 DEF Routine, SameFrame
<1>3. aRtne' = Append(aRtne, r) /\ top' = t
  BY DEF startInternal
<1>4. rtn'.floor = t /\ rtn'.top = t /\ rtn'.base \in {t - args - 1, t - args}
  BY <1>1, <1>2 DEF SameFrame
<1>5. rtn.floor \in Int /\ rtn'.floor <= rtn'.top
  BY <1>4, Facts
<1>6. Above(rtn, rtn')
  BY <1>4, <1>5 DEF Above
<1>7. FloorsOK'
  BY <1>3, <1>5, <1>6, FloorsSaved
<1>8. Kept'
  BY <1>3, <1>4 DEF Kept
<1>9. rtn'.disabled <=> rtn.disabled
  BY <1>1, <1>2 DEF SameFrame
<1>10. QED BY <1>7, <1>8, <1>9

\* So does a string, above the operand it is.
LEMMA StringAbove ==
  ASSUME IInv, FloorsOK, NEW isInteractiveTrace \in BOOLEAN, NEW t \in Int, NEW left \in Int,
         startInterpret(isInteractiveTrace, t, left),
         rtn.floor < t, rtn.floor <= left, left <= t
  PROVE  FloorsOK' /\ Kept' /\ (rtn'.disabled <=> rtn.disabled \/ isInteractiveTrace)
<1>1. rtn' = [rtn EXCEPT !.ct = "INTERPRET", !.isProcedure = FALSE, !.posCur = pos, !.top = t,
                         !.base = t - 1, !.floor = left, !.disabled = @ \/ isInteractiveTrace]
  BY DEF startInterpret
<1>2. rtn \in Routine /\ rtn.floor \in Int
  BY Facts
<1>3. rtn'.floor = left /\ rtn'.top = t /\ rtn'.base = t - 1
  BY <1>1, <1>2 DEF Routine
<1>4. rtn'.disabled <=> rtn.disabled \/ isInteractiveTrace
  BY <1>1, <1>2 DEF Routine
<1>5. Above(rtn, rtn') /\ rtn'.floor <= rtn'.top
  BY <1>2, <1>3 DEF Above
<1>6. aRtne' = Append(aRtne, rtn) /\ top' = left
  BY DEF startInterpret
<1>7. FloorsOK'
  BY <1>2, <1>5, <1>6, FloorsSaved DEF SameFrame
<1>8. QED BY <1>3, <1>4, <1>6, <1>7 DEF Kept

-----------------------------------------------------------------------------
(* The height of the running code.                                         *)

LEMMA ThrowHeight ==
  ASSUME NEW sig, NEW isStmtSignal \in BOOLEAN, NEW r \in Routine,
         throw(sig, isStmtSignal, r), r.disabled <=> rtn'.disabled,
         Kept' \/ isStmtSignal
  PROVE  HeightOK'
<1>1. /\ doing' = "recover" /\ thrown'.isStmtSignal = isStmtSignal
      /\ thrown'.isSignalDisabled = r.disabled
  BY DEF throw
<1>2. ~thrown'.isSignalDisabled => ~rtn'.disabled
  BY <1>1
<1>3. Needs' => ~isStmtSignal \/ rtn'.disabled
  BY <1>1 DEF Needs
<1>4. rtn'.disabled => Kept'
  BY DEF Kept
<1>5. QED BY <1>2, <1>3, <1>4 DEF HeightOK

LEMMA ErrorHeight ==
  ASSUME NEW r \in Routine, syntaxError(r), r.disabled <=> rtn'.disabled
  PROVE  HeightOK'
<1>1. CASE canRecoverFromSyntax(r)
  <2>1. throw("SYNTAX", TRUE, r)
    BY <1>1 DEF syntaxError
  <2>2. QED BY <2>1, ThrowHeight
<1>2. CASE ~canRecoverFromSyntax(r)
  BY <1>2 DEF syntaxError, HeightOK, Needs
<1>3. QED BY <1>1, <1>2

LEMMA RunHeight ==
  ASSUME doing = "run", doing' # "recover", Kept'
  PROVE  HeightOK'
BY DEF HeightOK

LEMMA RaiseHeight ==
  ASSUME NEW sig, NEW r \in Routine, raise(sig, r), doing = "run",
         r.disabled <=> rtn'.disabled, Kept'
  PROVE  HeightOK'
<1>1. CASE sig \in r.signals /\ ~r.disabled
  <2>1. throw(sig, TRUE, r)
    BY <1>1 DEF raise
  <2>2. QED BY <2>1, ThrowHeight
<1>2. CASE ~(sig \in r.signals /\ ~r.disabled)
  <2>1. doing' = doing
    BY <1>2 DEF raise
  <2>2. QED BY <2>1, RunHeight
<1>3. QED BY <1>1, <1>2

LEMMA EndHeight ==
  ASSUME doing' \in {"ended", "fatal", "escaped", "undefined", "returnEmpty", "returnResult"}
  PROVE  HeightOK'
BY DEF HeightOK, Needs

\* The routines do not change.
LEMMA Unmoved ==
  ASSUME FloorsOK, rtn' = rtn, aRtne' = aRtne
  PROVE  FloorsOK' /\ (rtn'.disabled <=> rtn.disabled)
BY FloorsSame DEF SameFrame

-----------------------------------------------------------------------------
(* The actions.                                                            *)

LEMMA ClauseKeeps ==
  ASSUME IInv, OpInv, Clause
  PROVE  OpInv'
<1>0. FloorsOK /\ HeightOK /\ rtn \in Routine /\ top \in Int /\ rtn.floor \in Int
  BY Facts DEF OpInv
<1>1. CASE clausePending
  <2>1. FloorsOK' /\ (rtn'.disabled <=> rtn.disabled) /\ Kept'
    BY <1>0, <1>1, Unmoved DEF clausePending, Run, HeightOK, Needs, Kept
  <2>2. HeightOK'
    BY <1>0, <1>1, <2>1, ThrowHeight DEF clausePending
  <2>3. QED BY <2>1, <2>2 DEF OpInv
<1>2. CASE clause
  <2>1. SameFrame(rtn', rtn)
    BY <1>0, <1>2 DEF clause, SameFrame, Routine
  <2>2. FloorsOK' /\ Kept'
    BY <1>0, <1>2, <2>1, FloorsSame DEF clause, Run, HeightOK, Needs, Kept, SameFrame
  <2>3. QED BY <1>2, <2>2, RunHeight DEF clause, Run, OpInv
<1>3. CASE eof
  <2>1. CASE rtn.ct = "INTERPRET"
    BY <1>0, <1>3, <2>1, StringResumes, RunHeight DEF eof, Run, OpInv
  <2>2. CASE rtn.ct # "INTERPRET"
    BY <1>0, <1>3, <2>2, Unmoved, EndHeight DEF eof, routines, OpInv
  <2>3. QED BY <2>1, <2>2
<1>4. CASE procedureBad
  <2>1. FloorsOK' /\ (rtn'.disabled <=> rtn.disabled)
    BY <1>0, <1>4, Unmoved DEF procedureBad, routines
  <2>2. QED BY <1>0, <1>4, <2>1, ErrorHeight DEF procedureBad, OpInv
<1>5. ASSUME NEW compiles \in BOOLEAN, pause(compiles)
      PROVE  OpInv'
  <2>1. startInterpret(TRUE, top + 1, top + 1) /\ level = 0 /\ doing = "run"
    BY <1>5 DEF pause, Run, isMyselfInteractive
  <2>2. top >= rtn.floor
    <3>1. ~rtn.disabled
      BY <2>1, LevelPositive
    <3>2. QED BY <1>0, <2>1, <3>1 DEF HeightOK, Needs, Kept
  <2>3. FloorsOK' /\ Kept'
    <3>1. TRUE \in BOOLEAN /\ top + 1 \in Int /\ rtn.floor < top + 1 /\ rtn.floor <= top + 1
          /\ top + 1 <= top + 1
      BY <1>0, <2>2
    <3>2. QED BY <1>0, <2>1, <3>1, StringAbove
  <2>4. rtn' \in Routine
    <3>1. TRUE \in BOOLEAN /\ top + 1 \in Int
      BY <1>0
    <3>2. QED BY <1>0, <2>1, <3>1, StringType, Facts
  <2>5. HeightOK'
    <3>1. CASE top + 1 >= StackSize
      BY <1>5, <3>1, EndHeight DEF pause
    <3>2. CASE ~(top + 1 >= StackSize) /\ compiles
      BY <1>5, <2>1, <2>3, <3>2, RunHeight DEF pause, compile
    <3>3. CASE ~(top + 1 >= StackSize) /\ ~compiles
      BY <1>5, <2>4, <3>3, ErrorHeight DEF pause, compile
    <3>4. QED BY <3>1, <3>2, <3>3
  <2>6. QED BY <2>3, <2>5 DEF OpInv
<1>6. ASSUME NEW next \in Labels, endClause(next)
      PROVE  OpInv'
  <2>1. FloorsOK' /\ Kept'
    BY <1>0, <1>6, Unmoved DEF endClause, Run, routines, HeightOK, Needs, Kept
  <2>2. QED BY <1>6, <2>1, RunHeight DEF endClause, Run, OpInv
<1>7. QED BY <1>1, <1>2, <1>3, <1>4, <1>5, <1>6 DEF Clause

LEMMA OperandsKeep ==
  ASSUME IInv, OpInv, Operands
  PROVE  OpInv'
<1>0. FloorsOK /\ HeightOK /\ rtn \in Routine /\ top \in Int /\ rtn.floor \in Int
  BY Facts DEF OpInv
<1>1. CASE pop
  <2>1. FloorsOK' /\ Kept'
    BY <1>0, <1>1, Unmoved DEF pop, routines, Kept
  <2>2. QED BY <1>1, <2>1, RunHeight DEF pop, Run, OpInv
<1>2. ASSUME NEW tested \in BOOLEAN, push(tested)
      PROVE  OpInv'
  <2>1. FloorsOK' /\ (rtn'.disabled <=> rtn.disabled) /\ Kept'
    BY <1>0, <1>2, Unmoved DEF push, Run, routines, HeightOK, Needs, Kept
  <2>2. CASE tested /\ top + 1 = StackSize - 1
    BY <1>0, <1>2, <2>1, <2>2, ErrorHeight DEF push, OpInv
  <2>3. CASE ~(tested /\ top + 1 = StackSize - 1)
    BY <1>2, <2>1, <2>3, RunHeight DEF push, Run, OpInv
  <2>4. QED BY <2>2, <2>3
<1>3. QED BY <1>1, <1>2 DEF Operands

LEMMA SetKeeps ==
  ASSUME IInv, OpInv, Set
  PROVE  OpInv'
<1>0. FloorsOK /\ HeightOK /\ rtn \in Routine /\ top \in Int /\ rtn.floor \in Int
  BY Facts DEF OpInv
<1>1. ASSUME doing = "run", SameFrame(rtn', rtn), aRtne' = aRtne, top' = top, doing' = doing
      PROVE  OpInv'
  <2>1. FloorsOK' /\ Kept'
    BY <1>0, <1>1, FloorsSame DEF HeightOK, Needs, Kept, SameFrame
  <2>2. QED BY <1>1, <2>1, RunHeight DEF OpInv
<1>2. ASSUME NEW sig \in Signals, NEW isSignalStmt \in BOOLEAN,
             setTrapper(sig, isSignalStmt) \/ unsetTrapper(sig, isSignalStmt)
      PROVE  OpInv'
  <2>1. SameFrame(rtn', rtn)
    BY <1>0, <1>2 DEF setTrapper, unsetTrapper, SameFrame, Routine
  <2>2. QED BY <1>1, <1>2, <2>1 DEF setTrapper, unsetTrapper, setProp
<1>3. ASSUME NEW denySkipCount \in BOOLEAN, NEW new \in Setting, setTraceSetting(new, denySkipCount)
      PROVE  OpInv'
  BY <1>1, <1>3 DEF setTraceSetting, setProp, routines, SameFrame
<1>4. ASSUME NEW denySkipCount \in BOOLEAN, NEW toggles \in BOOLEAN, traceBad(toggles, denySkipCount)
      PROVE  OpInv'
  <2>1. FloorsOK' /\ (rtn'.disabled <=> rtn.disabled)
    BY <1>0, <1>4, Unmoved DEF traceBad, routines
  <2>2. QED BY <1>0, <1>4, <2>1, ErrorHeight DEF traceBad, OpInv
<1>5. Conds \subseteq Signals
  BY DEF Signals
<1>6. QED BY <1>2, <1>3, <1>4, <1>5 DEF Set

LEMMA RaiseKeeps ==
  ASSUME IInv, OpInv, Raise
  PROVE  OpInv'
<1>0. FloorsOK /\ HeightOK /\ rtn \in Routine /\ top \in Int /\ rtn.floor \in Int
  BY Facts DEF OpInv
<1>1. ASSUME NEW sig \in Raised, condition(sig)
      PROVE  OpInv'
  <2>1. FloorsOK' /\ (rtn'.disabled <=> rtn.disabled) /\ Kept'
    BY <1>0, <1>1, Unmoved DEF condition, Run, HeightOK, Needs, Kept
  <2>2. QED BY <1>0, <1>1, <2>1, RaiseHeight DEF condition, Run, OpInv
<1>2. CASE failure
  <2>1. FloorsOK' /\ (rtn'.disabled <=> rtn.disabled)
    BY <1>0, <1>2, Unmoved DEF failure, routines
  <2>2. QED BY <1>0, <1>2, <2>1, ErrorHeight DEF failure, OpInv
<1>3. CASE commandFails
  <2>1. FloorsOK' /\ (rtn'.disabled <=> rtn.disabled) /\ Kept'
    BY <1>0, <1>3, Unmoved DEF commandFails, Kept
  <2>2. QED BY <1>0, <1>3, <2>1, RaiseHeight DEF commandFails, Run, OpInv
<1>4. ASSUME NEW compiles \in BOOLEAN, commandFailsPause(compiles)
      PROVE  OpInv'
  <2>1. doing = "run" /\ top >= rtn.floor + 2
    BY <1>4 DEF commandFailsPause, Run
  <2>2. PICK left \in {top - 1, top + 1} : startInterpret(TRUE, top + 1, left)
    BY <1>4 DEF commandFailsPause
  <2>3. /\ TRUE \in BOOLEAN /\ top + 1 \in Int /\ left \in Int
        /\ rtn.floor < top + 1 /\ rtn.floor <= left /\ left <= top + 1
    BY <1>0, <2>1
  <2>4. FloorsOK' /\ Kept'
    BY <1>0, <2>2, <2>3, StringAbove
  <2>5. rtn' \in Routine
    BY <1>0, <2>2, <2>3, StringType, Facts
  <2>6. HeightOK'
    <3>1. CASE top + 1 >= StackSize
      BY <1>4, <3>1, EndHeight DEF commandFailsPause
    <3>2. CASE ~(top + 1 >= StackSize) /\ compiles
      BY <1>4, <2>1, <2>4, <2>5, <3>2, RaiseHeight DEF commandFailsPause
    <3>3. CASE ~(top + 1 >= StackSize) /\ ~compiles
      BY <1>4, <2>5, <3>3, ErrorHeight DEF commandFailsPause, compile
    <3>4. QED BY <3>1, <3>2, <3>3
  <2>7. QED BY <2>4, <2>6 DEF OpInv
<1>5. QED BY <1>1, <1>2, <1>3, <1>4 DEF Raise

LEMMA JumpKeeps ==
  ASSUME IInv, OpInv, Jump
  PROVE  OpInv'
<1>0. FloorsOK /\ HeightOK /\ rtn \in Routine /\ top \in Int /\ rtn.floor \in Int /\ rtn.top \in Int
  BY Facts DEF OpInv
<1>1. ASSUME NEW target \in Labels, NEW isExternal \in BOOLEAN, jumpLabel(target, isExternal)
      PROVE  OpInv'
  <2>1. CASE isExternal
    <3>1. FloorsOK' /\ (rtn'.disabled <=> rtn.disabled)
      BY <1>0, <1>1, <2>1, Unmoved DEF jumpLabel
    <3>2. QED BY <1>0, <1>1, <2>1, <3>1, ErrorHeight DEF jumpLabel, OpInv
  <2>2. CASE ~isExternal
    <3>1. rtn'.floor = rtn.top /\ rtn'.top = rtn.top /\ rtn'.base = rtn.base
      BY <1>0, <1>1, <2>2 DEF jumpLabel, Routine
    <3>2. FloorsOK' /\ Kept'
      BY <1>0, <1>1, <3>1, FloorsJumped DEF jumpLabel, getStackTop, Kept
    <3>3. QED BY <1>1, <2>2, <3>2, RunHeight DEF jumpLabel, Run, OpInv
  <2>3. QED BY <2>1, <2>2
<1>2. ASSUME NEW target \in Labels, NEW isExternal \in BOOLEAN, jumpValue(target, isExternal)
      PROVE  OpInv'
  <2>1. CASE getStackTop < 0
    BY <1>0, <1>2, <2>1, Unmoved, EndHeight DEF jumpValue, OpInv
  <2>2. CASE ~(getStackTop < 0) /\ isExternal
    <3>1. FloorsOK' /\ (rtn'.disabled <=> rtn.disabled)
      BY <1>0, <1>2, <2>2, Unmoved DEF jumpValue
    <3>2. QED BY <1>0, <1>2, <2>2, <3>1, ErrorHeight DEF jumpValue, OpInv
  <2>3. CASE ~(getStackTop < 0) /\ ~isExternal
    <3>1. rtn'.floor = rtn.top - 1 /\ rtn'.top = rtn.top /\ rtn'.base = rtn.base
      BY <1>0, <1>2, <2>3 DEF jumpValue, Routine
    <3>2. FloorsOK' /\ Kept'
      BY <1>0, <1>2, <3>1, FloorsJumped DEF jumpValue, getStackTop, Kept
    <3>3. QED BY <1>2, <2>3, <3>2, RunHeight DEF jumpValue, Run, OpInv
  <2>4. QED BY <2>1, <2>2, <2>3
<1>3. QED BY <1>1, <1>2 DEF Jump

LEMMA CallKeeps ==
  ASSUME IInv, OpInv, Call
  PROVE  OpInv'
<1>0. FloorsOK /\ HeightOK /\ rtn \in Routine /\ top \in Int /\ rtn.floor \in Int
  BY Facts DEF OpInv
<1>1. ASSUME NEW ct \in {"SUBROUTINE", "FUNCTION"}, NEW args \in 0..MaxArgs,
             NEW target \in Labels, call(ct, args, target)
      PROVE  OpInv'
  <2>1. args \in Nat /\ rtn.floor < top /\ rtn.floor <= top - args - 1
    BY <1>0, <1>1, SizesAreNat DEF call
  <2>2. SameFrame(rtn, rtn)
    BY DEF SameFrame
  <2>3. FloorsOK' /\ Kept' /\ (rtn'.disabled <=> rtn.disabled)
    BY <1>0, <1>1, <2>1, <2>2, RoutineAbove DEF call
  <2>4. HeightOK'
    <3>1. CASE pending # {}
      BY <1>0, <1>1, <2>3, <3>1, ThrowHeight DEF call
    <3>2. CASE pending = {}
      BY <1>1, <2>3, <3>2, RunHeight DEF call, Run
    <3>3. QED BY <3>1, <3>2
  <2>5. QED BY <2>3, <2>4 DEF OpInv
<1>2. ASSUME NEW compiles \in BOOLEAN, interpret(compiles)
      PROVE  OpInv'
  <2>0. startInterpret(FALSE, top, top) /\ top > rtn.floor
    BY <1>2 DEF interpret
  <2>1. FALSE \in BOOLEAN /\ rtn.floor < top /\ rtn.floor <= top /\ top <= top
    BY <1>0, <2>0
  <2>2. FloorsOK' /\ Kept'
    BY <1>0, <2>0, <2>1, StringAbove
  <2>3. rtn' \in Routine
    BY <1>0, <2>0, <2>1, StringType, Facts
  <2>4. HeightOK'
    <3>1. CASE compiles
      BY <1>2, <2>2, <3>1, RunHeight DEF interpret, Run, compile
    <3>2. CASE ~compiles
      BY <1>2, <2>3, <3>2, ErrorHeight DEF interpret, compile
    <3>3. QED BY <3>1, <3>2
  <2>5. QED BY <2>2, <2>4 DEF OpInv
<1>3. QED BY <1>1, <1>2 DEF Call

LEMMA LeaveKeeps ==
  ASSUME IInv, OpInv, Leave
  PROVE  OpInv'
<1>0. FloorsOK /\ HeightOK /\ rtn \in Routine /\ top \in Int /\ rtn.floor \in Int /\ rtn.top \in Int
  BY Facts DEF OpInv
<1>1. CASE exit
  BY <1>0, <1>1, Unmoved, EndHeight DEF exit, routines, OpInv
<1>2. ASSUME NEW withResult \in BOOLEAN, return(withResult)
      PROVE  OpInv'
  BY <1>0, <1>2, Unmoved, EndHeight DEF return, routines, OpInv
<1>3. CASE unwind
  <2>1. FloorsOK' /\ Kept' /\ (rtn'.disabled => rtn.disabled)
    BY <1>0, <1>3, StringResumes DEF unwind
  <2>2. doing' = doing /\ thrown' = thrown
    BY <1>3 DEF unwind
  <2>3. doing = "recover" /\ ~thrown.isSignalDisabled => ~rtn.disabled
    BY <1>0 DEF HeightOK
  <2>4. QED BY <2>1, <2>2, <2>3 DEF OpInv, HeightOK
<1>4. CASE returned
  <2>1. CASE doing = "returnEmpty" /\ rtn.ct = "FUNCTION"
    <3>1. FloorsOK' /\ (rtn'.disabled <=> rtn.disabled)
      BY <1>0, <1>4, <2>1, Unmoved DEF returned, routines
    <3>2. QED BY <1>0, <1>4, <2>1, <3>1, ErrorHeight DEF returned, OpInv
  <2>2. CASE ~(doing = "returnEmpty" /\ rtn.ct = "FUNCTION") /\ aRtne = << >>
    BY <1>0, <1>4, <2>2, Unmoved, EndHeight DEF returned, routines, OpInv
  <2>3. CASE ~(doing = "returnEmpty" /\ rtn.ct = "FUNCTION") /\ aRtne # << >>
    <3>1. endInternal /\ doing' = "run"
      BY <1>4, <2>3 DEF returned
    <3>2. QED BY <1>0, <2>3, <3>1, RoutineResumes DEF OpInv, HeightOK
  <2>4. QED BY <2>1, <2>2, <2>3
<1>5. CASE pursue
  <2>1. FloorsOK' /\ Kept'
    BY <1>0, <1>5, Unmoved DEF pursue, routines, Recover, HeightOK, Needs, Kept
  <2>2. QED BY <1>5, <2>1 DEF pursue, OpInv, HeightOK
<1>6. Trapped \in Routine /\ SameFrame(Trapped, rtn)
  BY <1>0 DEF Trapped, Routine, SameFrame
<1>7. CASE labelNotFound
  BY <1>0, <1>6, <1>7, FloorsSame, EndHeight DEF labelNotFound, OpInv
<1>8. ASSUME NEW target \in Labels, signalOn(target)
      PROVE  OpInv'
  <2>1. rtn'.floor = rtn.top /\ rtn'.top = rtn.top /\ rtn'.base = rtn.base
    BY <1>0, <1>6, <1>8 DEF signalOn, Routine, SameFrame
  <2>2. FloorsOK' /\ Kept'
    BY <1>0, <1>8, <2>1, FloorsJumped DEF signalOn, getStackTop, Kept
  <2>3. QED BY <1>8, <2>2 DEF signalOn, OpInv, HeightOK
<1>9. ASSUME NEW target \in Labels, callOn(target)
      PROVE  OpInv'
  <2>1. ~rtn.disabled /\ top >= rtn.floor
    BY <1>9 DEF callOn, Recover, OpInv, HeightOK, Needs, Kept
  <2>2. /\ startInternal(Trapped, "SUBROUTINE", 0, top + 1, target)
        /\ 0 \in Nat /\ top + 1 \in Int /\ rtn.floor < top + 1 /\ rtn.floor <= top + 1 - 0 - 1
    BY <1>0, <1>9, <2>1 DEF callOn
  <2>3. FloorsOK' /\ Kept'
    BY <1>0, <1>6, <2>2, RoutineAbove
  <2>4. doing' # "recover"
    BY <1>9 DEF callOn
  <2>5. QED BY <2>3, <2>4 DEF OpInv, HeightOK
<1>10. QED BY <1>1, <1>2, <1>3, <1>4, <1>5, <1>7, <1>8, <1>9 DEF Leave

-----------------------------------------------------------------------------
LEMMA InitOpInv == Init => OpInv
<1> SUFFICES ASSUME Init PROVE OpInv
  OBVIOUS
<1>1. /\ rtn = Main /\ aRtne = << >> /\ top = -1 /\ doing = "run" /\ Len(aRtne) = 0
      /\ rtn.floor = -1 /\ rtn.top = -1
  BY EmptySeq DEF Init, Main
<1>2. FloorsOK
  BY <1>1 DEF FloorsOK
<1>3. QED BY <1>1, <1>2 DEF OpInv, HeightOK, Kept

LEMMA NextOpInv == IInv /\ OpInv /\ [Next]_vars => OpInv'
<1> SUFFICES ASSUME IInv, OpInv, [Next]_vars PROVE OpInv'
  OBVIOUS
<1>1. CASE Next
  BY <1>1, ClauseKeeps, OperandsKeep, SetKeeps, RaiseKeeps, JumpKeeps, CallKeeps, LeaveKeeps
  DEF Next
<1>2. CASE UNCHANGED vars
  <2>1. rtn' = rtn /\ aRtne' = aRtne /\ top' = top /\ doing' = doing /\ thrown' = thrown
    BY <1>2 DEF vars, routines
  <2>2. QED BY <2>1, Unmoved DEF OpInv, HeightOK, Needs, Kept
<1>3. QED BY <1>1, <1>2

\* Whatever program is interpreted, and however its routines and strings are left, the
\* running code finds the operands it left on the stack, and no routine is below the one
\* it interrupted (startInternal, endInternal, getStackTop, startInterpret, endInterpret).
THEOREM OperandsAlwaysKept == Spec => []OperandsKept
<1>1. IInv /\ OpInv => OperandsKept
  <2> SUFFICES ASSUME IInv, OpInv PROVE OperandsKept
    OBVIOUS
  <2>1. /\ \A i \in 1..Len(aRtne) : Frames[i] = aRtne[i]
        /\ Frames[Len(aRtne) + 1] = rtn
    BY FramesTyped, AppendProperties DEF Frames
  <2>2. \A i \in 1..Len(aRtne) : Frames[i].floor <= Frames[i+1].floor
    <3> TAKE i \in 1..Len(aRtne)
    <3>1. CASE i = Len(aRtne)
      BY <2>1, <3>1, FramesTyped DEF OpInv, FloorsOK, Above
    <3>2. CASE i # Len(aRtne)
      <4>1. i \in 1..Len(aRtne) - 1 /\ Frames[i+1] = aRtne[i+1]
        BY <2>1, <3>2, FramesTyped
      <4>2. QED BY <2>1, <4>1 DEF OpInv, FloorsOK, Above
    <3>3. QED BY <3>1, <3>2
  <2>3. doing = "run" /\ ~rtn.disabled => top >= rtn.floor
    BY DEF OpInv, HeightOK, Needs, Kept
  <2>4. QED BY <2>2, <2>3 DEF OperandsKept
<1>2. QED BY InitOpInv, InitIInv, NextOpInv, NextIInv, <1>1, PTL DEF Spec

=============================================================================
