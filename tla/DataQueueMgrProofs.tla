------------------------- MODULE DataQueueMgrProofs -------------------------
(***************************************************************************)
(* Theorems about DataQueueMgr, for every set of lines and every bound.    *)
(*                                                                         *)
(* The inductive invariant IInv adds to the type invariant that there is   *)
(* always a queue, and says at each step of execCommand where the console  *)
(* is, as long as every dup has succeeded: in place, or in the duplicate   *)
(* the step to come will restore.  The last part shows that the lists of   *)
(* lines implement RexxQueue.                                              *)
(***************************************************************************)
EXTENDS DataQueueMgr, SequenceTheorems, WellFoundedInduction, TLAPS

Spare == Descriptors \ {0, 1}
Table == [Descriptors -> Ends]

\* Descriptor d is the console's, or its duplicate is, as the mode m tells.
Held(d, m) == IF m = "NONE" THEN fd[d] = "console"
              ELSE saved[d] \in Spare /\ fd[saved[d]] = "console"

\* The steps at which 0 and 1 may be moved, and the duplicates they then have.
Moved   == [d \in {0, 1} |-> IF d = 0 THEN {"redirectOut", "system", "restoreIn"}
                                      ELSE {"system", "restoreIn", "restoreOut"}]
Mode(d) == IF d = 0 THEN cmd.in ELSE cmd.out
Kept(e) == \E d \in {0, 1} : cmd.step \in Moved[d] /\ Mode(d) # "NONE" /\ e = saved[d]

\* Where the console is, as long as no dup has failed.
FdInv ==
  ~lost =>
    /\ fd[0] # "closed" /\ fd[1] # "closed"
    /\ cmd.step \notin Moved[0] => fd[0] = "console"
    /\ cmd.step \notin Moved[1] => fd[1] = "console"
    /\ cmd.step \in Moved[0] => Held(0, cmd.in)
    /\ cmd.step \in Moved[1] => Held(1, cmd.out)
    /\ cmd.step \in {"system", "restoreIn"} /\ cmd.in # "NONE" /\ cmd.out # "NONE" =>
         saved[0] # saved[1]
    /\ \A e \in Spare : fd[e] \in {"stream", "closed"} \/ Kept(e)

IInv == TypeOK /\ BaseQueueStays /\ FdInv

-----------------------------------------------------------------------------
(* Facts about the operators on sequences.                                 *)

\* Reversing keeps the elements' type (the drained and the filled queue).
LEMMA BackwardType ==
  ASSUME NEW S, NEW s \in Seq(S)
  PROVE  Backward(s) \in Seq(S)
<1>1. Backward(s) \in [1..Len(s) -> S]
  BY DEF Backward
<1>2. QED BY <1>1, LenProperties

\* Dropping the last element keeps the type (PULL, removal of a queue).
LEMMA AllButType ==
  ASSUME NEW S, NEW s \in Seq(S), s # <<>>
  PROVE  /\ AllBut(s) \in Seq(S)
         /\ Len(AllBut(s)) = Len(s) - 1
<1>1. Len(s) \in Nat \ {0}
  BY EmptySeq, LenProperties
<1>2. \A i \in 1..Len(s)-1 : s[i] \in S
  BY <1>1, ElementOfSeq
<1>3. /\ SubSeq(s, 1, Len(s) - 1) \in Seq(S)
      /\ Len(SubSeq(s, 1, Len(s) - 1)) = IF 1 <= Len(s) - 1 THEN Len(s) - 1 - 1 + 1 ELSE 0
  BY <1>1, <1>2, SubSeqProperties
<1>4. \A n \in Nat \ {0} : (IF 1 <= n - 1 THEN n - 1 - 1 + 1 ELSE 0) = n - 1
  OBVIOUS
<1>5. AllBut(s) = SubSeq(s, 1, Len(s) - 1)
  BY DEF AllBut
<1>6. QED BY <1>1, <1>3, <1>4, <1>5

\* The queues that are left by RemoveCurrent are well typed and never none.
LEMMA RemoveCurrentType ==
  ASSUME NEW qs \in Seq(Seq(Lines)), qs # <<>>
  PROVE  RemoveCurrent(qs) \in Seq(Seq(Lines)) /\ RemoveCurrent(qs) # <<>>
<1>1. AllBut(qs) \in Seq(Seq(Lines)) /\ Len(AllBut(qs)) = Len(qs) - 1
  BY AllButType
<1>2. CASE Len(qs) > 1
  <2>1. Len(AllBut(qs)) > 0
    BY <1>1, <1>2, LenProperties
  <2>2. QED BY <1>1, <1>2, <2>1, EmptySeq DEF RemoveCurrent
<1>3. CASE ~(Len(qs) > 1)
  BY <1>3 DEF RemoveCurrent
<1>4. QED BY <1>2, <1>3

\* Replacing the current queue keeps the list of queues well typed.
LEMMA CurType ==
  ASSUME queues \in Seq(Seq(Lines)), queues # <<>>
  PROVE  /\ Last \in Nat \ {0}
         /\ Cur \in Seq(Lines)
         /\ \A q \in Seq(Lines) :
               /\ [queues EXCEPT ![Last] = q] \in Seq(Seq(Lines))
               /\ [queues EXCEPT ![Last] = q] # <<>>
<1>1. Last \in Nat \ {0}
  BY EmptySeq, LenProperties DEF Last
<1>2. Cur \in Seq(Lines)
  BY <1>1, ElementOfSeq DEF Last, Cur
<1>3. ASSUME NEW q \in Seq(Lines)
      PROVE  /\ [queues EXCEPT ![Last] = q] \in Seq(Seq(Lines))
             /\ [queues EXCEPT ![Last] = q] # <<>>
  <2>1. /\ [queues EXCEPT ![Last] = q] \in Seq(Seq(Lines))
        /\ Len([queues EXCEPT ![Last] = q]) = Last
    BY <1>1, ExceptSeq DEF Last
  <2>2. QED BY <1>1, <2>1, EmptySeq
<1>4. QED BY <1>1, <1>2, <1>3

\* What a command writes is a sequence of lines.
LEMMA OutputsType == Outputs \subseteq Seq(Lines)
<1>1. SUFFICES ASSUME NEW n \in 0..MaxOutput, NEW w \in [1..n -> Lines]
               PROVE  w \in Seq(Lines)
  BY DEF Outputs
<1>2. n \in Nat
  BY BoundsAreNat
<1>3. QED BY <1>2, SeqDef

-----------------------------------------------------------------------------
(* The table of descriptors.                                               *)

\* A set of naturals has a least member.
LEMMA HasLeast ==
  ASSUME NEW T, T \subseteq Nat, T # {}
  PROVE  \E x \in T : \A y \in T : x <= y
<1> DEFINE Less == {p \in Nat \X Nat : p[1] < p[2]}
<1>1. IsWellFoundedOn(Less, Nat)
  BY NatLessThanWellFounded DEF OpToRel
<1>2. PICK x \in T : \A y \in T : ~(<<y, x>> \in Less)
  BY <1>1, WFMin
<1>3. ASSUME NEW y \in T PROVE x <= y
  <2>1. x \in Nat /\ y \in Nat
    OBVIOUS
  <2>2. CASE y < x
    <3>1. <<y, x>> \in Less
      BY <2>1, <2>2
    <3> QED BY <1>2, <3>1
  <2> QED BY <2>1, <2>2
<1> QED BY <1>3

\* 0 and 1 are descriptors, and all of them are numbers.
LEMMA DescriptorsAreNat == Descriptors \subseteq Nat /\ {0, 1} \subseteq Descriptors /\ Failed \notin Descriptors
BY BoundsAreNat DEF Descriptors, Failed

\* Lowest is a free descriptor, if there is one.
LEMMA LowestIsFree ==
  ASSUME NEW f \in Table
  PROVE  \/ Lowest(f) = Failed
         \/ Lowest(f) \in Descriptors /\ f[Lowest(f)] = "closed"
<1> DEFINE Free == {d \in Descriptors : f[d] = "closed"}
<1>1. CASE Free = {}
  BY <1>1 DEF Lowest
<1>2. CASE Free # {}
  <2>1. Free \subseteq Nat
    BY DescriptorsAreNat
  <2>2. PICK d \in Free : \A e \in Free : d <= e
    BY <1>2, <2>1, HasLeast
  <2>3. d \in Descriptors /\ f[d] = "closed" /\ \A e \in Descriptors : f[e] = "closed" => d <= e
    BY <2>2
  <2> QED BY <2>3, Zenon DEF Lowest
<1> QED BY <1>1, <1>2

\* The calls keep a table a table.
LEMMA TableKept ==
  ASSUME NEW f \in Table, NEW d \in Descriptors, NEW n \in Descriptors \cup {Failed}, NEW end \in Ends
  PROVE  /\ Put(f, n, end) \in Table
         /\ Closing(f, d) \in Table
         /\ Become(f, d, n) \in Table
         /\ Dup(f, d) \in Descriptors \cup {Failed}
<1>1. \A g \in Table, m \in Descriptors \cup {Failed}, e \in Ends : Put(g, m, e) \in Table
  BY DEF Put, Table
<1>2. "closed" \in Ends
  BY DEF Ends
<1>3. Dup2(f, n, d) \in Table
  BY DEF Dup2, Table
<1>4. Dup(f, d) \in Descriptors \cup {Failed}
  BY LowestIsFree DEF Dup
<1> QED BY <1>1, <1>2, <1>3, <1>4 DEF Closing, Become

\* Moving a descriptor keeps the types.
LEMMA MoveType ==
  ASSUME TypeOK, NEW d \in {0, 1}, NEW file \in Ends, NEW ok \in BOOLEAN, SaveAndMove(d, file, ok)
  PROVE  /\ fd' \in Table /\ lost' \in BOOLEAN
         /\ saved' \in [{0, 1} -> Descriptors \cup {Failed}]
         /\ \A e \in {0, 1} : saved'[e] # e
<1>1. fd \in Table /\ d \in Descriptors /\ fd[d] \in Ends
  BY DescriptorsAreNat DEF TypeOK, Table
<1>2. PICK old : /\ old = Dup(fd, d)
                 /\ \E table \in {Put(fd, old, fd[d])} :
                    \E new \in {IF ok THEN Lowest(table) ELSE Failed} :
                      /\ saved' = [saved EXCEPT ![d] = old]
                      /\ fd' = Become(Put(table, new, file), d, new)
                      /\ lost' = (lost \/ old = Failed)
  BY DEF SaveAndMove
<1>3. PICK table : /\ table = Put(fd, old, fd[d])
                   /\ \E new \in {IF ok THEN Lowest(table) ELSE Failed} :
                        /\ saved' = [saved EXCEPT ![d] = old]
                        /\ fd' = Become(Put(table, new, file), d, new)
                        /\ lost' = (lost \/ old = Failed)
  BY <1>2
<1>4. PICK new : /\ new = IF ok THEN Lowest(table) ELSE Failed
                 /\ saved' = [saved EXCEPT ![d] = old]
                 /\ fd' = Become(Put(table, new, file), d, new)
                 /\ lost' = (lost \/ old = Failed)
  BY <1>3
<1>5. old \in Descriptors \cup {Failed}
  BY <1>1, <1>2, TableKept
<1>6. table \in Table
  BY <1>1, <1>3, <1>5, TableKept
<1>7. new \in Descriptors \cup {Failed}
  BY <1>4, <1>6, LowestIsFree
<1>8. fd' \in Table
  BY <1>1, <1>4, <1>6, <1>7, TableKept
<1>9. old # d
  <2>1. CASE fd[d] = "closed"
    BY <1>2, <2>1 DEF Dup, Failed
  <2>2. CASE fd[d] # "closed"
    BY <1>1, <1>2, <2>2, LowestIsFree DEF Dup, Failed
  <2> QED BY <2>1, <2>2
<1>10. saved' \in [{0, 1} -> Descriptors \cup {Failed}] /\ \A e \in {0, 1} : saved'[e] # e
  BY <1>4, <1>5, <1>9 DEF TypeOK
<1> QED BY <1>4, <1>8, <1>10 DEF TypeOK

\* When the dup succeeds, a free descriptor holds what d was, d is that or the
\* file, and the others are as they were.
LEMMA MoveKeeps ==
  ASSUME TypeOK, NEW d \in {0, 1}, NEW file \in Ends \ {"closed"}, NEW ok \in BOOLEAN,
         SaveAndMove(d, file, ok), fd[0] # "closed", fd[1] # "closed", ~lost'
  PROVE  /\ ~lost
         /\ saved'[d] \in Spare /\ fd[saved'[d]] = "closed" /\ fd'[saved'[d]] = fd[d]
         /\ saved'[1 - d] = saved[1 - d]
         /\ fd'[d] # "closed"
         /\ \A e \in Descriptors : e # d /\ e # saved'[d] => fd'[e] = fd[e]
<1>1. fd \in Table /\ d \in Descriptors /\ fd[d] \in Ends /\ 1 - d \in {0, 1} /\ 1 - d # d
  BY DescriptorsAreNat DEF TypeOK, Table
<1>2. PICK old : /\ old = Dup(fd, d)
                 /\ \E table \in {Put(fd, old, fd[d])} :
                    \E new \in {IF ok THEN Lowest(table) ELSE Failed} :
                      /\ saved' = [saved EXCEPT ![d] = old]
                      /\ fd' = Become(Put(table, new, file), d, new)
                      /\ lost' = (lost \/ old = Failed)
  BY DEF SaveAndMove
<1>3. PICK table : /\ table = Put(fd, old, fd[d])
                   /\ \E new \in {IF ok THEN Lowest(table) ELSE Failed} :
                        /\ saved' = [saved EXCEPT ![d] = old]
                        /\ fd' = Become(Put(table, new, file), d, new)
                        /\ lost' = (lost \/ old = Failed)
  BY <1>2
<1>4. PICK new : /\ new = IF ok THEN Lowest(table) ELSE Failed
                 /\ saved' = [saved EXCEPT ![d] = old]
                 /\ fd' = Become(Put(table, new, file), d, new)
                 /\ lost' = (lost \/ old = Failed)
  BY <1>3
<1>5. ~lost /\ old # Failed /\ saved'[d] = old /\ saved'[1 - d] = saved[1 - d]
  BY <1>1, <1>4 DEF TypeOK
<1>6. old = Lowest(fd) /\ old \in Descriptors /\ fd[old] = "closed"
  BY <1>1, <1>2, <1>5, LowestIsFree DEF Dup
<1>7. old \in Spare /\ old # d
  BY <1>6 DEF Spare
<1>8. table = [fd EXCEPT ![old] = fd[d]] /\ table \in Table
  BY <1>1, <1>3, <1>5, <1>6, TableKept DEF Put
<1>9. table[old] = fd[d] /\ table[d] = fd[d] /\ fd[d] # "closed"
      /\ \A e \in Descriptors : e # old => table[e] = fd[e]
  BY <1>1, <1>6, <1>7, <1>8 DEF Table
<1>10. CASE new = Failed
  <2>1. fd' = table
    BY <1>4, <1>10 DEF Become, Put, Dup2, Closing
  <2> QED BY <1>5, <1>6, <1>7, <1>9, <2>1
<1>11. CASE new # Failed
  <2>1. new \in Descriptors /\ table[new] = "closed"
    BY <1>4, <1>8, <1>11, LowestIsFree
  <2>2. new # old /\ new # d
    BY <1>9, <2>1
  <2>3. PICK opened \in Table : opened = [table EXCEPT ![new] = file]
    BY <1>8, <2>1 DEF Table
  <2>4. opened[new] = file /\ \A e \in Descriptors : e # new => opened[e] = table[e]
    BY <1>8, <2>1, <2>3 DEF Table
  <2>5. fd' = [[opened EXCEPT ![d] = file] EXCEPT ![new] = "closed"]
    BY <1>4, <1>11, <2>3, <2>4 DEF Become, Put, Dup2, Closing
  <2>6. fd'[d] = file /\ fd'[new] = "closed" /\ \A e \in Descriptors : e # d /\ e # new => fd'[e] = opened[e]
    BY <1>1, <2>1, <2>2, <2>3, <2>5 DEF Table
  <2>7. fd'[old] = fd[d]
    BY <1>6, <1>7, <1>9, <2>2, <2>4, <2>6
  <2>8. \A e \in Descriptors : e # d /\ e # old => fd'[e] = fd[e]
    BY <1>9, <2>1, <2>2, <2>4, <2>6
  <2> QED BY <1>5, <1>6, <1>7, <2>6, <2>7, <2>8
<1> QED BY <1>10, <1>11

\* Restoring d from a duplicate that is open frees the duplicate.
LEMMA RestoreKeeps ==
  ASSUME TypeOK, NEW d \in {0, 1}, saved[d] \in Spare, fd[saved[d]] = "console"
  PROVE  /\ Restored(d) \in Table
         /\ Restored(d)[d] = "console" /\ Restored(d)[saved[d]] = "closed"
         /\ \A e \in Descriptors : e # d /\ e # saved[d] => Restored(d)[e] = fd[e]
<1>1. fd \in Table /\ d \in Descriptors
  BY DescriptorsAreNat DEF TypeOK, Table
<1>2. PICK old \in Spare : old = saved[d]
  OBVIOUS
<1>3. old \in Descriptors /\ old # d /\ old # Failed /\ d # Failed
  BY <1>1, <1>2, DescriptorsAreNat DEF Spare
<1>4. PICK closed \in Table : closed = [fd EXCEPT ![d] = "closed"]
  BY <1>1 DEF Table, Ends
<1>5. closed[old] = "console" /\ \A e \in Descriptors : e # d => closed[e] = fd[e]
  BY <1>1, <1>2, <1>3, <1>4 DEF Table
<1>6. Restored(d) = [[closed EXCEPT ![d] = "console"] EXCEPT ![old] = "closed"]
  BY <1>2, <1>3, <1>4, <1>5 DEF Restored, Become, Closing, Put, Dup2
<1>7. Restored(d) \in Table
  BY <1>4, <1>6 DEF Table, Ends
<1> QED BY <1>1, <1>2, <1>3, <1>4, <1>5, <1>6, <1>7 DEF Table

\* Restoring d keeps a table a table.
LEMMA RestoreType ==
  ASSUME TypeOK, NEW d \in {0, 1}
  PROVE  Restored(d) \in Table
<1>1. fd \in Table /\ d \in Descriptors /\ saved[d] \in Descriptors \cup {Failed}
  BY DescriptorsAreNat DEF TypeOK, Table
<1>2. Closing(fd, d) \in Table
  BY <1>1, TableKept DEF Ends
<1> QED BY <1>1, <1>2, TableKept DEF Restored, Ends

-----------------------------------------------------------------------------
(* The inductive invariant.                                                *)

LEMMA InitIInv == Init => IInv
<1> SUFFICES ASSUME Init PROVE IInv
  OBVIOUS
<1>1. << <<>> >> \in Seq(Seq(Lines)) /\ << <<>> >> # <<>>
  OBVIOUS
<1>2. saved \in [{0, 1} -> Descriptors \cup {Failed}] /\ \A d \in {0, 1} : saved[d] # d
  BY DEF Init, NoneSaved, Failed
<1>3. TypeOK
  BY <1>1, <1>2, EmptySeq DEF Init, TypeOK, Idle, Steps, Modes, Ends
<1>4. BaseQueueStays /\ FdInv
  BY <1>1, DescriptorsAreNat DEF Init, BaseQueueStays, FdInv, Held, Idle, Moved, Kept, Spare
<1>5. QED BY <1>3, <1>4 DEF IInv

\* FdInv looks at the descriptors, the duplicates and the command.
LEMMA FdInvKept ==
  ASSUME FdInv, UNCHANGED <<fd, saved, lost>>,
         /\ cmd'.step = cmd.step \/ (cmd.step = "idle" /\ cmd'.step = "redirectIn")
         /\ cmd.step # "idle" => cmd'.in = cmd.in /\ cmd'.out = cmd.out
  PROVE  FdInv'
<1>1. cmd'.step \in Moved[0] => cmd.step \in Moved[0] /\ cmd'.in = cmd.in
  BY DEF Moved
<1>2. cmd'.step \in Moved[1] => cmd.step \in Moved[1] /\ cmd'.out = cmd.out
  BY DEF Moved
<1>3. cmd'.step \notin Moved[0] => cmd.step \notin Moved[0]
  BY DEF Moved
<1>4. cmd'.step \notin Moved[1] => cmd.step \notin Moved[1]
  BY DEF Moved
<1>5. cmd'.step \in {"system", "restoreIn"} =>
        cmd.step = cmd'.step /\ cmd'.in = cmd.in /\ cmd'.out = cmd.out
  OBVIOUS
<1>6. ASSUME NEW e, Kept(e) PROVE Kept(e)'
  <2>1. PICK d \in {0, 1} : cmd.step \in Moved[d] /\ Mode(d) # "NONE" /\ e = saved[d]
    BY <1>6 DEF Kept
  <2>2. cmd.step # "idle"
    BY <2>1 DEF Moved
  <2>3. Mode(d)' = Mode(d) /\ cmd'.step = cmd.step /\ saved' = saved
    BY <2>2 DEF Mode
  <2> QED BY <2>1, <2>3 DEF Kept, Moved
<1> QED BY <1>1, <1>2, <1>3, <1>4, <1>5, <1>6 DEF FdInv, Held

\* Opening or closing one of the program's streams moves a spare descriptor.
LEMMA StreamFd ==
  ASSUME IInv, openStream \/ closeStream
  PROVE  fd' \in Table /\ FdInv'
<1>1. fd \in Table /\ cmd.step = "idle" /\ UNCHANGED <<queues, got, fed, out, cmd, saved, lost>>
  BY DEF IInv, TypeOK, Table, openStream, closeStream
<1>2. PICK d \in Descriptors, end \in {"stream", "closed"} :
        fd' = [fd EXCEPT ![d] = end] /\ fd[d] \in {"closed", "stream"}
  <2>1. CASE openStream
    <3>1. Lowest(fd) \in Descriptors /\ fd[Lowest(fd)] = "closed" /\ Lowest(fd) # Failed
      BY <1>1, <2>1, LowestIsFree DEF openStream
    <3> QED BY <2>1, <3>1 DEF openStream, Put
  <2>2. CASE closeStream
    BY <2>2, DescriptorsAreNat DEF closeStream, Closing, Put
  <2> QED BY <2>1, <2>2
<1>3. fd' \in Table
  BY <1>1, <1>2 DEF Table, Ends
<1>4. ASSUME ~lost PROVE d \in Spare
  <2>1. fd[0] = "console" /\ fd[1] = "console"
    BY <1>1, <1>4 DEF IInv, FdInv, Moved
  <2> QED BY <1>2, <2>1 DEF Spare
<1>5. ASSUME ~lost
      PROVE  /\ fd'[0] = fd[0] /\ fd'[1] = fd[1]
             /\ \A e \in Spare : fd'[e] = fd[e] \/ fd'[e] \in {"stream", "closed"}
  BY <1>1, <1>2, <1>4, <1>5, DescriptorsAreNat DEF Spare, Table
<1>6. cmd.step \notin Moved[0] /\ cmd.step \notin Moved[1]
  BY <1>1 DEF Moved
<1>7. ASSUME NEW e PROVE Kept(e)' = Kept(e)
  BY <1>1 DEF Kept, Mode
<1> QED BY <1>1, <1>3, <1>5, <1>6, <1>7 DEF IInv, FdInv, Held

\* QUEUE, PUSH, PULL, MAKEBUF, DROPBUF and the streams keep the invariant.
LEMMA ProgramIInv == IInv /\ Program => IInv'
<1> SUFFICES ASSUME IInv, Program PROVE IInv'
  OBVIOUS
<1> USE DEF IInv, TypeOK, BaseQueueStays
<1>0. /\ Last \in Nat \ {0} /\ Cur \in Seq(Lines)
      /\ \A q \in Seq(Lines) : /\ [queues EXCEPT ![Last] = q] \in Seq(Seq(Lines))
                               /\ [queues EXCEPT ![Last] = q] # <<>>
  BY CurType
<1>1. ASSUME UNCHANGED <<cmdvars, got>>, queues' \in Seq(Seq(Lines)), queues' # <<>>
      PROVE  IInv'
  BY <1>1, FdInvKept DEF cmdvars, files
<1>2. ASSUME NEW l \in Lines, enqueue(l) PROVE IInv'
  <2>1. <<l>> \o Cur \in Seq(Lines)
    BY <1>0, ConcatProperties
  <2>2. queues' = [queues EXCEPT ![Last] = <<l>> \o Cur]
    BY <1>2 DEF enqueue, AddFirst, Cur
  <2>3. QED BY <1>0, <1>1, <1>2, <2>1, <2>2 DEF enqueue
<1>3. ASSUME NEW l \in Lines, push(l) PROVE IInv'
  <2>1. Append(Cur, l) \in Seq(Lines)
    BY <1>0, AppendProperties
  <2>2. queues' = [queues EXCEPT ![Last] = Append(Cur, l)]
    BY <1>3 DEF push, AddLast, Cur
  <2>3. QED BY <1>0, <1>1, <1>3, <2>1, <2>2 DEF push
<1>4. CASE pullLine
  <2>1. AllBut(Cur) \in Seq(Lines) /\ Len(Cur) \in 1..Len(Cur)
    BY <1>0, <1>4, AllButType, EmptySeq DEF pullLine
  <2> DEFINE left == [queues EXCEPT ![Last] = AllBut(Cur)]
  <2>2. left \in Seq(Seq(Lines)) /\ left # <<>>
    BY <1>0, <2>1
  <2>3. RemoveCurrent(left) \in Seq(Seq(Lines)) /\ RemoveCurrent(left) # <<>>
    BY <2>2, RemoveCurrentType
  <2>4. queues' = IF Len(Cur) = 1 THEN RemoveCurrent(left) ELSE left
    BY <1>4 DEF pullLine, Cur
  <2>5. got' \in Lines
    BY <1>0, <1>4, <2>1, ElementOfSeq DEF pullLine
  <2>6. UNCHANGED cmdvars
    BY <1>4 DEF pullLine
  <2>7. queues' \in Seq(Seq(Lines)) /\ queues' # <<>>
    BY <2>2, <2>3, <2>4
  <2> QED BY <2>5, <2>6, <2>7, FdInvKept DEF cmdvars, files
<1>5. CASE pullConsole
  BY <1>5, FdInvKept DEF pullConsole, cmdvars, files
<1>6. CASE addDataQueue
  <2>1. <<>> \in Seq(Lines)
    BY EmptySeq
  <2>2. /\ Append(queues, <<>>) \in Seq(Seq(Lines))
        /\ Len(Append(queues, <<>>)) = Last + 1
    BY <2>1, AppendProperties DEF Last
  <2>4. Append(queues, <<>>) # <<>>
    <3>1. Last + 1 # 0
      BY <1>0
    <3>2. Len(<<>>) = 0
      OBVIOUS
    <3>3. QED BY <2>2, <3>1, <3>2, Zenon
  <2>3. QED BY <1>1, <1>6, <2>2, <2>4 DEF addDataQueue
<1>7. ASSUME NEW n \in DropArgs, removeDataQueues(n) PROVE IInv'
  <2>1. << <<>> >> \in Seq(Seq(Lines)) /\ << <<>> >> # <<>>
    OBVIOUS
  <2>2. HowMany(n) \in Nat \ {0}
    BY <1>0, BoundsAreNat DEF HowMany
  <2>3. CASE ~(HowMany(n) >= Last)
    <3> DEFINE k == Last - HowMany(n)
    <3>1. k \in 1..Last
      BY <1>0, <2>2, <2>3
    <3>2. \A i \in 1..k : queues[i] \in Seq(Lines)
      BY <3>1, ElementOfSeq DEF Last
    <3>3. SubSeq(queues, 1, k) \in Seq(Seq(Lines)) /\ Len(SubSeq(queues, 1, k)) = k
      BY <1>0, <3>1, <3>2, SubSeqProperties
    <3>4. SubSeq(queues, 1, k) # <<>>
      BY <3>1, <3>3, EmptySeq
    <3>5. QED BY <1>1, <1>7, <2>3, <3>3, <3>4 DEF removeDataQueues, Remaining
  <2>4. QED BY <1>1, <1>7, <2>1, <2>3 DEF removeDataQueues, Remaining
<1>8. CASE openStream \/ closeStream
  <2>1. UNCHANGED <<queues, got, fed, out, cmd, saved, lost>>
    BY <1>8 DEF openStream, closeStream
  <2> QED BY <1>8, <2>1, StreamFd DEF Table
<1>9. QED BY <1>2, <1>3, <1>4, <1>5, <1>6, <1>7, <1>8 DEF Program

\* A step that moves no descriptor, since there is none to move.
LEMMA StepsOver ==
  ASSUME IInv, UNCHANGED <<fd, saved, lost>>,
         \/ cmd.step = "redirectIn" /\ cmd'.step = "redirectOut" /\ cmd'.in = "NONE"
         \/ cmd.step = "redirectOut" /\ cmd'.step = "system" /\ cmd.out = "NONE" /\ cmd'.in = cmd.in
         \/ cmd.step = "system" /\ cmd'.step = "restoreIn" /\ cmd'.in = cmd.in,
         cmd'.out = cmd.out
  PROVE  FdInv'
<1> USE DEF IInv, FdInv, Held, Moved, Mode
<1>1. ASSUME NEW e, Kept(e) PROVE Kept(e)'
  <2>1. PICK d \in {0, 1} : cmd.step \in Moved[d] /\ Mode(d) # "NONE" /\ e = saved[d]
    BY <1>1 DEF Kept
  <2>2. cmd'.step \in Moved[d] /\ Mode(d)' # "NONE" /\ e = saved'[d]
    BY <2>1
  <2> QED BY <2>2 DEF Kept
<1>2. ~lost' => \A e \in Spare : fd'[e] \in {"stream", "closed"} \/ Kept(e)'
  BY <1>1
<1> QED BY <1>2

\* The input is moved...
LEMMA InputMoved ==
  ASSUME IInv, NEW ok \in BOOLEAN, SaveAndMove(0, "in", ok),
         cmd.step = "redirectIn", cmd'.step = "redirectOut", cmd'.in = cmd.in, cmd.in # "NONE"
  PROVE  FdInv'
<1> SUFFICES ASSUME ~lost' PROVE FdInv'
  BY DEF FdInv
<1>0. ~lost
  BY DEF SaveAndMove
<1>1. fd[0] = "console" /\ fd[1] = "console" /\ \A e \in Spare : fd[e] \in {"stream", "closed"}
  BY <1>0 DEF IInv, FdInv, Moved, Kept
<1>2. "in" \in Ends \ {"closed"} /\ 1 - 0 = 1
  BY DEF Ends
<1>3. /\ saved'[0] \in Spare /\ fd'[saved'[0]] = "console" /\ fd'[0] # "closed"
      /\ \A e \in Descriptors : e # 0 /\ e # saved'[0] => fd'[e] = fd[e]
  BY <1>1, <1>2, MoveKeeps DEF IInv
<1>4. fd'[1] = "console"
  BY <1>1, <1>3, DescriptorsAreNat DEF Spare
<1>5. \A e \in Spare : fd'[e] \in {"stream", "closed"} \/ e = saved'[0]
  BY <1>1, <1>3 DEF Spare
<1>6. \A e : e = saved'[0] => Kept(e)'
  BY DEF Kept, Moved, Mode
<1> QED BY <1>3, <1>4, <1>5, <1>6 DEF FdInv, Held, Moved

\* ... and the output, whose duplicate is another than the input's.
LEMMA OutputMoved ==
  ASSUME IInv, NEW ok \in BOOLEAN, SaveAndMove(1, "out", ok), cmd.step = "redirectOut",
         cmd'.step = "system", cmd'.in = cmd.in, cmd'.out = cmd.out, cmd.out # "NONE"
  PROVE  FdInv'
<1> SUFFICES ASSUME ~lost' PROVE FdInv'
  BY DEF FdInv
<1>0. ~lost
  BY DEF SaveAndMove
<1>1. /\ fd[0] # "closed" /\ fd[1] = "console" /\ Held(0, cmd.in)
      /\ \A e \in Spare : fd[e] \in {"stream", "closed"} \/ (cmd.in # "NONE" /\ e = saved[0])
  BY <1>0 DEF IInv, FdInv, Moved, Kept, Mode
<1>2. "out" \in Ends \ {"closed"} /\ 1 - 1 = 0
  BY DEF Ends
<1>3. /\ saved'[1] \in Spare /\ fd[saved'[1]] = "closed" /\ fd'[saved'[1]] = "console"
      /\ fd'[1] # "closed" /\ saved'[0] = saved[0]
      /\ \A e \in Descriptors : e # 1 /\ e # saved'[1] => fd'[e] = fd[e]
  BY <1>1, <1>2, MoveKeeps DEF IInv
<1>4. fd'[0] = fd[0] /\ 1 \notin Spare /\ Spare \subseteq Descriptors
  BY <1>3, DescriptorsAreNat DEF Spare
<1>5. CASE cmd.in = "NONE"
  <2>1. fd'[0] = "console"
    BY <1>1, <1>4, <1>5 DEF Held
  <2>2. \A e \in Spare : fd'[e] \in {"stream", "closed"} \/ e = saved'[1]
    BY <1>1, <1>3, <1>4, <1>5
  <2>3. \A e : e = saved'[1] => Kept(e)'
    BY DEF Kept, Moved, Mode
  <2> QED BY <1>3, <1>5, <2>1, <2>2, <2>3 DEF FdInv, Held, Moved
<1>6. CASE cmd.in # "NONE"
  <2>1. saved'[0] \in Spare /\ saved'[0] # saved'[1] /\ fd'[saved'[0]] = "console"
    BY <1>1, <1>3, <1>4, <1>6 DEF Held
  <2>2. \A e \in Spare : fd'[e] \in {"stream", "closed"} \/ e = saved'[0] \/ e = saved'[1]
    BY <1>1, <1>3, <1>4
  <2>3. \A e : e = saved'[0] \/ e = saved'[1] => Kept(e)'
    BY <1>6 DEF Kept, Moved, Mode
  <2> QED BY <1>1, <1>3, <1>4, <2>1, <2>2, <2>3 DEF FdInv, Held, Moved
<1> QED BY <1>5, <1>6

\* The input is the console's again...
LEMMA InputRestored ==
  ASSUME IInv, restoreIn
  PROVE  FdInv'
<1> SUFFICES ASSUME ~lost' PROVE FdInv'
  BY DEF FdInv
<1>1. /\ cmd.step = "restoreIn" /\ cmd'.step = "restoreOut" /\ cmd'.out = cmd.out
      /\ fd' = (IF cmd.in = "NONE" THEN fd ELSE Restored(0)) /\ saved' = saved /\ ~lost
  BY DEF restoreIn, IInv, TypeOK
<1>2. /\ fd[0] # "closed" /\ fd[1] # "closed" /\ Held(0, cmd.in) /\ Held(1, cmd.out)
      /\ cmd.in # "NONE" /\ cmd.out # "NONE" => saved[0] # saved[1]
      /\ \A e \in Spare : \/ fd[e] \in {"stream", "closed"}
                          \/ cmd.in # "NONE" /\ e = saved[0]
                          \/ cmd.out # "NONE" /\ e = saved[1]
  BY <1>1 DEF IInv, FdInv, Moved, Kept, Mode
<1>3. /\ fd'[0] = "console" /\ (cmd.in # "NONE" => fd'[saved[0]] = "closed")
      /\ \A e \in Descriptors : e # 0 /\ (cmd.in = "NONE" \/ e # saved[0]) => fd'[e] = fd[e]
  <2>1. CASE cmd.in = "NONE"
    BY <1>1, <1>2, <2>1 DEF Held
  <2>2. CASE cmd.in # "NONE"
    <3>1. saved[0] \in Spare /\ fd[saved[0]] = "console"
      BY <1>2, <2>2 DEF Held
    <3>2. /\ Restored(0)[0] = "console" /\ Restored(0)[saved[0]] = "closed"
          /\ \A e \in Descriptors : e # 0 /\ e # saved[0] => Restored(0)[e] = fd[e]
      BY <3>1, RestoreKeeps DEF IInv
    <3> QED BY <1>1, <2>2, <3>2
  <2> QED BY <2>1, <2>2
<1>4. 0 \notin Spare /\ 1 \notin Spare /\ Spare \subseteq Descriptors /\ {0, 1} \subseteq Descriptors
  BY DescriptorsAreNat DEF Spare
<1>5. fd'[1] = fd[1]
  BY <1>2, <1>3, <1>4 DEF Held
<1>6. cmd.out # "NONE" => saved[1] \in Spare /\ fd'[saved[1]] = "console"
  BY <1>2, <1>3, <1>4 DEF Held
<1>7. \A e \in Spare : fd'[e] \in {"stream", "closed"} \/ (cmd.out # "NONE" /\ e = saved[1])
  BY <1>2, <1>3, <1>4
<1>8. \A e : cmd.out # "NONE" /\ e = saved[1] => Kept(e)'
  BY <1>1 DEF Kept, Moved, Mode
<1> QED BY <1>1, <1>2, <1>3, <1>5, <1>6, <1>7, <1>8 DEF FdInv, Held, Moved

\* ... and the output, and no other descriptor is held.
LEMMA OutputRestored ==
  ASSUME IInv, NEW ok \in BOOLEAN, restoreOut(ok)
  PROVE  FdInv'
<1> SUFFICES ASSUME ~lost' PROVE FdInv'
  BY DEF FdInv
<1>1. /\ cmd.step = "restoreOut" /\ cmd'.step = "idle" /\ ~lost
      /\ fd' = IF cmd.out = "NONE" THEN fd ELSE Restored(1)
  BY DEF restoreOut, Idle
<1>2. /\ fd[0] = "console" /\ Held(1, cmd.out)
      /\ \A e \in Spare : fd[e] \in {"stream", "closed"} \/ (cmd.out # "NONE" /\ e = saved[1])
  BY <1>1 DEF IInv, FdInv, Moved, Kept, Mode
<1>3. 0 \notin Spare /\ 1 \notin Spare /\ Spare \subseteq Descriptors /\ {0, 1} \subseteq Descriptors
  BY DescriptorsAreNat DEF Spare
<1>4. /\ fd'[0] = "console" /\ fd'[1] = "console"
      /\ \A e \in Spare : fd'[e] \in {"stream", "closed"}
  <2>1. CASE cmd.out = "NONE"
    BY <1>1, <1>2, <2>1 DEF Held
  <2>2. CASE cmd.out # "NONE"
    <3>1. saved[1] \in Spare /\ fd[saved[1]] = "console"
      BY <1>2, <2>2 DEF Held
    <3>2. /\ Restored(1)[1] = "console" /\ Restored(1)[saved[1]] = "closed"
          /\ \A e \in Descriptors : e # 1 /\ e # saved[1] => Restored(1)[e] = fd[e]
      BY <3>1, RestoreKeeps DEF IInv
    <3> QED BY <1>1, <1>2, <1>3, <2>2, <3>1, <3>2
  <2> QED BY <2>1, <2>2
<1> QED BY <1>1, <1>4 DEF FdInv, Moved

\* Every step of execCommand keeps the invariant.
LEMMA CommandIInv == IInv /\ Command => IInv'
<1> SUFFICES ASSUME IInv, Command PROVE IInv'
  OBVIOUS
<1> USE DEF IInv, TypeOK, BaseQueueStays, Steps, Modes, Ends
<1>0. /\ Last \in Nat \ {0} /\ Cur \in Seq(Lines)
      /\ \A q \in Seq(Lines) : /\ [queues EXCEPT ![Last] = q] \in Seq(Seq(Lines))
                               /\ [queues EXCEPT ![Last] = q] # <<>>
  BY CurType
<1>e. <<>> \in Seq(Lines)
  BY EmptySeq
<1>1. ASSUME NEW i \in Modes, NEW o \in Modes, NEW r \in BOOLEAN, execCommand(i, o, r)
      PROVE  IInv'
  BY <1>1, <1>e, FdInvKept DEF execCommand, files
<1>2. CASE redirectInNone
  <2>1. FdInv'
    BY <1>2, StepsOver DEF redirectInNone, files
  <2> QED BY <1>2, <2>1 DEF redirectInNone, files
<1>3. CASE redirectInFails
  <2>1. FdInv'
    BY <1>3, StepsOver DEF redirectInFails, WithoutInput, files
  <2> QED BY <1>3, <2>1 DEF redirectInFails, WithoutInput, files
<1>4. ASSUME NEW ok \in BOOLEAN, redirectInOpen(ok) PROVE IInv'
  <2>1. Drained(cmd.in) \in Seq(Lines)
    BY <1>0, BackwardType DEF Drained
  <2>2. AfterDrain \in Seq(Seq(Lines)) /\ AfterDrain # <<>>
    BY <1>0, <1>e, RemoveCurrentType DEF AfterDrain
  <2>3. SaveAndMove(0, "in", ok) /\ "in" \in Ends \ {"closed"}
    BY <1>4 DEF redirectInOpen
  <2>8. /\ fd' \in [Descriptors -> Ends] /\ saved' \in [{0, 1} -> Descriptors \cup {Failed}]
        /\ lost' \in BOOLEAN /\ \A e \in {0, 1} : saved'[e] # e
    BY <2>3, MoveType DEF Table
  <2>4. /\ cmd.step = "redirectIn" /\ cmd.in # "NONE"
        /\ cmd' \in [step : Steps, in : Modes, out : Modes, toResult : BOOLEAN]
        /\ cmd'.step = "redirectOut" /\ cmd'.in = cmd.in
    BY <1>4 DEF redirectInOpen
  <2>5. fed' = Drained(cmd.in) /\ queues' = AfterDrain /\ UNCHANGED <<got, out>>
    BY <1>4 DEF redirectInOpen
  <2>6. FdInv'
    BY <1>4, <2>4, InputMoved DEF redirectInOpen
  <2>7. QED BY <2>1, <2>2, <2>4, <2>5, <2>6, <2>8
<1>5. ASSUME NEW ok \in BOOLEAN, redirectOut(ok) PROVE IInv'
  <2>1. /\ cmd.step = "redirectOut"
        /\ cmd' \in [step : Steps, in : Modes, out : Modes, toResult : BOOLEAN]
        /\ cmd'.step = "system" /\ cmd'.in = cmd.in /\ cmd'.out = cmd.out
    BY <1>5 DEF redirectOut
  <2>2. CASE cmd.out = "NONE"
    <3>1. FdInv' /\ UNCHANGED files
      BY <1>5, <2>1, <2>2, StepsOver DEF redirectOut, files
    <3> QED BY <1>5, <2>1, <3>1 DEF redirectOut, files
  <2>3. CASE cmd.out # "NONE"
    <3>1. SaveAndMove(1, "out", ok) /\ "out" \in Ends \ {"closed"}
      BY <1>5, <2>3 DEF redirectOut
    <3>2. /\ fd' \in [Descriptors -> Ends] /\ saved' \in [{0, 1} -> Descriptors \cup {Failed}]
          /\ lost' \in BOOLEAN /\ \A e \in {0, 1} : saved'[e] # e
      BY <3>1, MoveType DEF Table
    <3>3. FdInv'
      BY <2>1, <2>3, <3>1, OutputMoved
    <3> QED BY <1>5, <2>1, <3>2, <3>3 DEF redirectOut
  <2> QED BY <2>2, <2>3
<1>6. ASSUME NEW w \in Outputs, system(w) PROVE IInv'
  <2>1. out' \in Seq(Lines)
    BY <1>6, <1>e, OutputsType DEF system
  <2>2. FdInv'
    BY <1>6, StepsOver DEF system, files
  <2> QED BY <1>6, <2>1, <2>2 DEF system, files
<1>7. CASE restoreIn
  <2>1. FdInv'
    BY <1>7, InputRestored
  <2>2. fd' \in [Descriptors -> Ends]
    BY <1>7, RestoreType DEF restoreIn, Table
  <2> QED BY <1>7, <2>1, <2>2 DEF restoreIn
<1>8. ASSUME NEW ok \in BOOLEAN, restoreOut(ok) PROVE IInv'
  <2>1. Filled(cmd.out) \in Seq(Lines)
    <3>1. Backward(out) \in Seq(Lines)
      BY BackwardType
    <3>2. QED BY <1>0, <3>1, ConcatProperties DEF Filled
  <2>2. queues' \in Seq(Seq(Lines)) /\ queues' # <<>>
    BY <1>0, <1>8, <2>1 DEF restoreOut
  <2>3. fd' \in [Descriptors -> Ends]
    BY <1>8, RestoreType DEF restoreOut, Table
  <2>4. saved' \in [{0, 1} -> Descriptors \cup {Failed}] /\ \A e \in {0, 1} : saved'[e] # e
    BY <1>8 DEF restoreOut, NoneSaved, Failed
  <2>5. FdInv'
    BY <1>8, OutputRestored
  <2> QED BY <1>8, <1>e, <2>2, <2>3, <2>4, <2>5 DEF restoreOut, Idle
<1>9. ASSUME NEW i \in Modes, NEW o \in Modes, processCommand(i, o) PROVE IInv'
  BY <1>1, <1>9 DEF processCommand
<1>10. ASSUME NEW s \in BOOLEAN, processCall(s) PROVE IInv'
  BY <1>1, <1>10 DEF processCall
<1>11. QED BY <1>2, <1>3, <1>4, <1>5, <1>6, <1>7, <1>8, <1>9, <1>10 DEF Command

\* The inductive invariant holds in every reachable state.
THEOREM Invariance == Spec => []IInv
<1>1. IInv /\ UNCHANGED vars => IInv'
  BY FdInvKept DEF IInv, TypeOK, BaseQueueStays, vars
<1>2. IInv /\ [Next]_vars => IInv'
  BY <1>1, ProgramIInv, CommandIInv DEF Next
<1>3. QED BY InitIInv, <1>2, PTL DEF Spec

\* Lists, modes, steps and descriptors keep their types in every behaviour.
THEOREM TypeCorrect == Spec => []TypeOK
<1>1. IInv => TypeOK
  BY DEF IInv
<1>2. QED BY <1>1, Invariance, PTL

\* getLast() of the list of queues never finds an empty list: no sequence of
\* PULL, DROPBUF(n), DESBUF() and redirections removes the first queue.
THEOREM BaseQueueAlways == Spec => []BaseQueueStays
<1>1. IInv => BaseQueueStays
  BY DEF IInv
<1>2. QED BY <1>1, Invariance, PTL

\* When execCommand returns, descriptors 0 and 1 are the console's and every other
\* is free or a stream's, whichever file was not created or not opened again,
\* unless a dup of 0 or 1 has failed (Interpreter.cpp:1426, 1437: the table was
\* full, and what could not be saved is closed).
THEOREM ConsoleAlwaysRestored == Spec => []ConsoleRestored
<1>1. ASSUME IInv, cmd.step = "idle", ~lost, NEW d \in Descriptors
      PROVE  IF d \in {0, 1} THEN fd[d] = "console" ELSE fd[d] \in {"stream", "closed"}
  <2>1. fd[0] = "console" /\ fd[1] = "console" /\ \A e \in Spare : fd[e] \in {"stream", "closed"}
    BY <1>1 DEF IInv, FdInv, Moved, Kept
  <2> QED BY <2>1 DEF Spare
<1>2. IInv => ConsoleRestored
  BY <1>1 DEF ConsoleRestored
<1>3. QED BY <1>2, Invariance, PTL

-----------------------------------------------------------------------------
(***************************************************************************)
(* DataQueueMgr implements RexxQueue, for every set of lines and bounds.   *)
(*                                                                         *)
(* The lines of all the queues and the sums of their lengths are recursive *)
(* functions.  Each is first shown to exist and then unfolded one queue at *)
(* a time; what holds of all the queues follows by the least               *)
(* counterexample (HasLeast).  Split then says what RexxQueue sees of a    *)
(* state, and every action is mapped to one of RexxQueue or to a stutter.  *)
(***************************************************************************)
(* Recursive functions on an interval.                                     *)

\* Functions that start alike and go on alike are alike.
LEMMA SameUpTo ==
  ASSUME NEW n \in Nat, NEW f, NEW g, f[0] = g[0],
         \A i \in 1..n : f[i-1] = g[i-1] => f[i] = g[i]
  PROVE  \A i \in 0..n : f[i] = g[i]
<1> DEFINE Bad == {i \in Nat : i <= n /\ f[i] # g[i]}
<1>1. CASE Bad # {}
  <2>1. PICK k \in Bad : \A l \in Bad : k <= l
    BY <1>1, HasLeast
  <2>2. k # 0 /\ k \in 1..n /\ k - 1 \in Nat /\ k - 1 <= n /\ ~(k <= k - 1)
    BY <2>1
  <2>3. f[k-1] = g[k-1]
    BY <2>1, <2>2
  <2> QED BY <2>1, <2>2, <2>3
<1> QED BY <1>1

\* g starts at x and applies the functions h[1], h[2]... one after the other.
Applies(T, x, n, h, g) ==
  /\ g \in [0..n -> T] /\ g[0] = x
  /\ \A i \in 1..n : g[i] = h[i][g[i-1]]

\* Such a g exists: the reason the recursive definitions define something.
LEMMA RecursionExists ==
  ASSUME NEW T, NEW x \in T, NEW n \in Nat, NEW h \in [1..n -> [T -> T]]
  PROVE  \E g : Applies(T, x, n, h, g)
<1> DEFINE Bad == {k \in Nat : k <= n /\ ~\E g : Applies(T, x, k, h, g)}
<1>1. CASE Bad # {}
  <2>1. PICK k \in Bad : \A l \in Bad : k <= l
    BY <1>1, HasLeast
  <2>2. Applies(T, x, 0, h, [i \in 0..0 |-> x])
    BY DEF Applies
  <2>3. k \in 1..n /\ k - 1 \in Nat /\ k - 1 <= n /\ ~(k <= k - 1)
    BY <2>1, <2>2
  <2>4. PICK g : Applies(T, x, k - 1, h, g)
    BY <2>1, <2>3
  <2> DEFINE f == [i \in 0..k |-> IF i < k THEN g[i] ELSE h[k][g[k-1]]]
  <2>5. g \in [0..(k-1) -> T] /\ g[0] = x /\ \A i \in 1..(k-1) : g[i] = h[i][g[i-1]]
    BY <2>4 DEF Applies
  <2>6. g[k-1] \in T /\ h[k] \in [T -> T]
    BY <2>3, <2>5
  <2>7. h[k][g[k-1]] \in T
    BY <2>6
  <2>8. \A i \in 0..k : f[i] = IF i < k THEN g[i] ELSE h[k][g[k-1]]
    OBVIOUS
  <2>9. \A i \in 0..k : f[i] \in T
    BY <2>3, <2>5, <2>7, <2>8
  <2>10. f \in [0..k -> T]
    BY <2>9
  <2> HIDE DEF f
  <2>11. f[0] = x
    BY <2>3, <2>5, <2>8
  <2>12. \A i \in 1..k : f[i] = h[i][f[i-1]]
    BY <2>3, <2>5, <2>8
  <2>13. Applies(T, x, k, h, f)
    BY <2>10, <2>11, <2>12 DEF Applies
  <2> QED BY <2>1, <2>13
<1> QED BY <1>1

-----------------------------------------------------------------------------
(* The lines of all the queues.                                            *)

IsFlat(qs, g) == g = [i \in 0..Len(qs) |-> IF i = 0 THEN <<>> ELSE Backward(qs[i]) \o g[i-1]]

Lists == Seq(Seq(Lines))

\* What IsFlat says of each member.
LEMMA FlatSteps ==
  ASSUME NEW qs, Len(qs) \in Nat, NEW g, IsFlat(qs, g)
  PROVE  g[0] = <<>> /\ \A i \in 1..Len(qs) : g[i] = Backward(qs[i]) \o g[i-1]
<1>1. \A i \in 0..Len(qs) : g[i] = IF i = 0 THEN <<>> ELSE Backward(qs[i]) \o g[i-1]
  BY Zenon DEF IsFlat
<1>2. 0 \in 0..Len(qs) /\ \A i \in 1..Len(qs) : i \in 0..Len(qs) /\ i # 0
  OBVIOUS
<1> QED BY <1>1, <1>2, Zenon

\* Joined is the last member of a function that IsFlat describes.
LEMMA JoinedIsFlat ==
  ASSUME NEW qs \in Lists
  PROVE  \E g \in [0..Len(qs) -> Seq(Lines)] : IsFlat(qs, g) /\ Joined(qs) = g[Len(qs)]
<1> DEFINE T == Seq(Lines)
           h == [i \in 1..Len(qs) |-> [v \in T |-> Backward(qs[i]) \o v]]
           flat == CHOOSE g : IsFlat(qs, g)
<1>1. Len(qs) \in Nat /\ \A i \in 1..Len(qs) : qs[i] \in T
  BY LenProperties, ElementOfSeq DEF Lists
<1>2. \A i \in 1..Len(qs) : Backward(qs[i]) \in T
  BY <1>1, BackwardType
<1>3. \A i \in 1..Len(qs) : \A v \in T : Backward(qs[i]) \o v \in T
  BY <1>2, ConcatProperties
<1>4. h \in [1..Len(qs) -> [T -> T]]
  BY <1>3
<1>h. \A i \in 1..Len(qs) : \A v \in T : h[i][v] = Backward(qs[i]) \o v
  OBVIOUS
<1>5. <<>> \in T
  BY EmptySeq
<1> HIDE DEF T, h
<1>6. PICK g : Applies(T, <<>>, Len(qs), h, g)
  BY <1>1, <1>4, <1>5, RecursionExists
<1>7. /\ g \in [0..Len(qs) -> T] /\ g[0] = <<>>
      /\ \A i \in 1..Len(qs) : g[i] = Backward(qs[i]) \o g[i-1]
  <2>1. g \in [0..Len(qs) -> T] /\ g[0] = <<>> /\ \A i \in 1..Len(qs) : g[i] = h[i][g[i-1]]
    BY <1>6 DEF Applies
  <2>2. \A i \in 1..Len(qs) : i - 1 \in 0..Len(qs)
    BY <1>1
  <2>3. \A i \in 1..Len(qs) : g[i-1] \in T
    BY <2>1, <2>2
  <2> QED BY <1>h, <2>1, <2>3
<1>8. g = [i \in 0..Len(qs) |-> IF i = 0 THEN <<>> ELSE Backward(qs[i]) \o g[i-1]]
  <2>1. \A i \in 0..Len(qs) : i = 0 \/ i \in 1..Len(qs)
    BY <1>1
  <2>2. \A i \in 0..Len(qs) : g[i] = IF i = 0 THEN <<>> ELSE Backward(qs[i]) \o g[i-1]
    BY <1>7, <2>1
  <2> QED BY <1>7, <2>2
<1>9. IsFlat(qs, g)
  BY <1>8 DEF IsFlat
<1>10. IsFlat(qs, flat)
  BY <1>9
<1>11. Joined(qs) = flat[Len(qs)]
  BY DEF Joined, IsFlat
<1> HIDE DEF flat
<1>12. flat[0] = <<>> /\ \A i \in 1..Len(qs) : flat[i] = Backward(qs[i]) \o flat[i-1]
  BY <1>1, <1>10, FlatSteps
<1>13. \A i \in 1..Len(qs) : flat[i-1] = g[i-1] => flat[i] = g[i]
  BY <1>7, <1>12, Zenon
<1>14. \A i \in 0..Len(qs) : flat[i] = g[i]
  <2>1. flat[0] = g[0]
    BY <1>7, <1>12
  <2> QED BY <1>1, <1>13, <2>1, SameUpTo, Zenon
<1>15. flat[Len(qs)] = g[Len(qs)]
  BY <1>1, <1>14
<1> QED BY <1>7, <1>9, <1>11, <1>15 DEF T

\* The lines of all the queues are lines.
LEMMA JoinedType == ASSUME NEW qs \in Lists PROVE Joined(qs) \in Seq(Lines)
<1>1. PICK g \in [0..Len(qs) -> Seq(Lines)] : Joined(qs) = g[Len(qs)]
  BY JoinedIsFlat
<1>2. Len(qs) \in 0..Len(qs)
  BY LenProperties DEF Lists
<1> QED BY <1>1, <1>2

\* No queue, no line.
LEMMA JoinedEmpty == Joined(<<>>) = <<>>
<1>1. <<>> \in Lists /\ Len(<<>>) = 0
  BY EmptySeq DEF Lists
<1>2. PICK g \in [0..Len(<<>>) -> Seq(Lines)] : IsFlat(<<>>, g) /\ Joined(<<>>) = g[Len(<<>>)]
  BY <1>1, JoinedIsFlat
<1> QED BY <1>1, <1>2, FlatSteps

\* The newest queue comes first.
LEMMA JoinedAppend ==
  ASSUME NEW qs \in Lists, NEW q \in Seq(Lines)
  PROVE  Joined(Append(qs, q)) = Backward(q) \o Joined(qs)
<1>1. PICK n \in Nat : n = Len(qs)
  BY LenProperties DEF Lists
<1>2. PICK more \in Lists : more = Append(qs, q)
  BY AppendProperties DEF Lists
<1>3. Len(more) = n + 1 /\ more[n+1] = q /\ \A i \in 1..n : more[i] = qs[i]
  BY <1>1, <1>2, AppendProperties DEF Lists
<1>4. PICK f : IsFlat(qs, f) /\ Joined(qs) = f[n]
  BY <1>1, JoinedIsFlat
<1>5. PICK g : IsFlat(more, g) /\ Joined(more) = g[n+1]
  BY <1>3, JoinedIsFlat
<1>6. f[0] = <<>> /\ \A i \in 1..n : f[i] = Backward(qs[i]) \o f[i-1]
  BY <1>1, <1>4, FlatSteps
<1>7. g[0] = <<>> /\ \A i \in 1..(n+1) : g[i] = Backward(more[i]) \o g[i-1]
  <2>1. g[0] = <<>> /\ \A i \in 1..Len(more) : g[i] = Backward(more[i]) \o g[i-1]
    <3>1. Len(more) \in Nat
      BY <1>3
    <3> QED BY <1>5, <3>1, FlatSteps, Zenon
  <2> QED BY <1>3, <2>1
<1>8. \A i \in 1..n : f[i-1] = g[i-1] => f[i] = g[i]
  <2>1. \A i \in 1..n : i \in 1..(n+1)
    OBVIOUS
  <2> QED BY <1>3, <1>6, <1>7, <2>1, Zenon
<1>9. \A i \in 0..n : f[i] = g[i]
  <2>1. f[0] = g[0]
    BY <1>6, <1>7
  <2> QED BY <1>8, <2>1, SameUpTo, ZenonT(40)
<1>10. g[n+1] = Backward(q) \o g[n]
  <2>1. n + 1 \in 1..(n+1) /\ (n + 1) - 1 = n
    OBVIOUS
  <2> QED BY <1>3, <1>7, <2>1
<1>11. n \in 0..n
  OBVIOUS
<1>12. f[n] = g[n]
  BY <1>9, <1>11
<1> QED BY <1>2, <1>4, <1>5, <1>10, <1>12, Zenon

-----------------------------------------------------------------------------
(* The order of lines.                                                     *)

\* Reversing keeps the type and the length, and mirrors the indices.
LEMMA BackwardProperties ==
  ASSUME NEW S, NEW s \in Seq(S)
  PROVE  /\ Backward(s) \in Seq(S) /\ Len(Backward(s)) = Len(s) /\ Len(s) \in Nat
         /\ \A i \in 1..Len(s) : Backward(s)[i] = s[Len(s) + 1 - i]
<1>1. Len(s) \in Nat
  BY LenProperties
<1>2. Backward(s) \in Seq(S)
  BY BackwardType
<1>3. Backward(s) \in [1..Len(Backward(s)) -> S] /\ Len(Backward(s)) \in Nat
  BY <1>2, LenProperties
<1>4. DOMAIN Backward(s) = 1..Len(s)
  BY DEF Backward
<1>5. Len(Backward(s)) = Len(s)
  BY <1>1, <1>3, <1>4
<1> QED BY <1>1, <1>2, <1>5 DEF Backward

\* Reversing two pieces swaps them (a block that joins the current queue).
LEMMA BackwardConcat ==
  ASSUME NEW S, NEW s \in Seq(S), NEW t \in Seq(S)
  PROVE  Backward(s \o t) = Backward(t) \o Backward(s)
<1>1. PICK m \in Nat : m = Len(s)
  BY LenProperties
<1>2. PICK n \in Nat : n = Len(t)
  BY LenProperties
<1>0. PICK st \in Seq(S) : st = s \o t
  BY ConcatProperties
<1>3. /\ Len(st) = m + n
      /\ \A i \in 1..(m + n) : st[i] = IF i <= m THEN s[i] ELSE t[i - m]
  BY <1>0, <1>1, <1>2, ConcatProperties
<1>4. /\ Backward(s) \in Seq(S) /\ Len(Backward(s)) = m
      /\ \A i \in 1..m : Backward(s)[i] = s[m + 1 - i]
  BY <1>1, BackwardProperties
<1>5. /\ Backward(t) \in Seq(S) /\ Len(Backward(t)) = n
      /\ \A i \in 1..n : Backward(t)[i] = t[n + 1 - i]
  BY <1>2, BackwardProperties
<1>6. /\ Backward(st) \in Seq(S) /\ Len(Backward(st)) = m + n
      /\ \A i \in 1..(m + n) : Backward(st)[i] = st[m + n + 1 - i]
  BY <1>3, BackwardProperties
<1>7. /\ Backward(t) \o Backward(s) \in Seq(S) /\ Len(Backward(t) \o Backward(s)) = n + m
      /\ \A i \in 1..(n + m) : (Backward(t) \o Backward(s))[i] =
            IF i <= n THEN Backward(t)[i] ELSE Backward(s)[i - n]
  BY <1>4, <1>5, ConcatProperties, ZenonT(40)
<1>8. ASSUME NEW i \in 1..(m + n)
      PROVE  Backward(st)[i] = (Backward(t) \o Backward(s))[i]
  <2>1. m + n + 1 - i \in 1..(m + n) /\ i \in 1..(n + m)
    OBVIOUS
  <2>2. Backward(st)[i] = IF m + n + 1 - i <= m THEN s[m + n + 1 - i] ELSE t[m + n + 1 - i - m]
    BY <1>3, <1>6, <2>1
  <2>3. CASE i <= n
    <3>1. ~(m + n + 1 - i <= m) /\ m + n + 1 - i - m = n + 1 - i /\ i \in 1..n
      BY <2>3
    <3> QED BY <1>5, <1>7, <2>1, <2>2, <2>3, <3>1
  <2>4. CASE ~(i <= n)
    <3>1. m + n + 1 - i <= m /\ m + n + 1 - i = m + 1 - (i - n) /\ i - n \in 1..m
      BY <2>4
    <3> QED BY <1>4, <1>7, <2>1, <2>2, <2>4, <3>1
  <2> QED BY <2>3, <2>4
<1>9. Backward(st) = Backward(t) \o Backward(s)
  <2>1. Len(Backward(st)) = Len(Backward(t) \o Backward(s))
    BY <1>6, <1>7
  <2>2. \A i \in 1..Len(Backward(st)) : Backward(st)[i] = (Backward(t) \o Backward(s))[i]
    BY <1>6, <1>8
  <2> QED BY <1>6, <1>7, <2>1, <2>2, SeqEqual, Zenon
<1> QED BY <1>0, <1>9

\* Reversing twice changes nothing (FIFO: filled backwards, pulled from the back).
LEMMA BackwardTwice ==
  ASSUME NEW S, NEW s \in Seq(S)
  PROVE  Backward(Backward(s)) = s
<1>1. PICK n \in Nat : n = Len(s)
  BY LenProperties
<1>2. /\ Backward(s) \in Seq(S) /\ Len(Backward(s)) = n
      /\ \A i \in 1..n : Backward(s)[i] = s[n + 1 - i]
  BY <1>1, BackwardProperties
<1>3. /\ Backward(Backward(s)) \in Seq(S) /\ Len(Backward(Backward(s))) = n
      /\ \A i \in 1..n : Backward(Backward(s))[i] = Backward(s)[n + 1 - i]
  BY <1>2, BackwardProperties
<1>4. \A i \in 1..n : n + 1 - i \in 1..n /\ n + 1 - (n + 1 - i) = i
  OBVIOUS
<1>5. \A i \in 1..n : Backward(Backward(s))[i] = s[i]
  BY <1>2, <1>3, <1>4
<1> QED BY <1>1, <1>3, <1>5, SeqEqual

\* Reversing what is too short to change.
LEMMA BackwardShort ==
  /\ Backward(<<>>) = <<>>
  /\ \A l \in Lines : <<l>> \in Seq(Lines) /\ Backward(<<l>>) = <<l>>
<1>1. Backward(<<>>) = <<>>
  <2>1. <<>> \in Seq(Lines) /\ Len(<<>>) = 0
    BY EmptySeq
  <2>2. Backward(<<>>) \in Seq(Lines) /\ Len(Backward(<<>>)) = 0
    BY <2>1, BackwardProperties
  <2> QED BY <2>2, EmptySeq
<1>2. ASSUME NEW l \in Lines PROVE <<l>> \in Seq(Lines) /\ Backward(<<l>>) = <<l>>
  <2>1. <<l>> \in Seq(Lines) /\ Len(<<l>>) = 1 /\ <<l>>[1] = l
    OBVIOUS
  <2>2. /\ Backward(<<l>>) \in Seq(Lines) /\ Len(Backward(<<l>>)) = 1
        /\ \A i \in 1..1 : Backward(<<l>>)[i] = <<l>>[1 + 1 - i]
    BY <2>1, BackwardProperties
  <2>3. \A i \in 1..1 : Backward(<<l>>)[i] = <<l>>[i]
    BY <2>2
  <2> QED BY <2>1, <2>2, <2>3, SeqEqual
<1> QED BY <1>1, <1>2

\* A sequence that was put together can be taken apart.
LEMMA Apart ==
  ASSUME NEW S, NEW s \in Seq(S), NEW t \in Seq(S)
  PROVE  /\ SubSeq(s \o t, 1, Len(s)) = s
         /\ SubSeq(s \o t, Len(s) + 1, Len(s \o t)) = t
<1>1. PICK m \in Nat : m = Len(s)
  BY LenProperties
<1>2. PICK n \in Nat : n = Len(t)
  BY LenProperties
<1>3. PICK st \in Seq(S) : st = s \o t
  BY ConcatProperties
<1>4. /\ Len(st) = m + n
      /\ \A i \in 1..(m + n) : st[i] = IF i <= m THEN s[i] ELSE t[i - m]
  BY <1>1, <1>2, <1>3, ConcatProperties
<1>5. \A i \in 1..(m + n) : st[i] \in S
  BY <1>4, ElementOfSeq
<1>6. SubSeq(st, 1, m) = s
  <2>1. \A i \in 1..m : st[i] \in S
    BY <1>5
  <2>2. /\ SubSeq(st, 1, m) \in Seq(S) /\ Len(SubSeq(st, 1, m)) = IF 1 <= m THEN m - 1 + 1 ELSE 0
        /\ \A i \in 1..(m - 1 + 1) : SubSeq(st, 1, m)[i] = st[1 + i - 1]
    BY <2>1, SubSeqProperties
  <2>3. Len(SubSeq(st, 1, m)) = m /\ \A i \in 1..m : SubSeq(st, 1, m)[i] = st[i]
    BY <2>2
  <2>4. \A i \in 1..m : SubSeq(st, 1, m)[i] = s[i]
    BY <1>4, <2>3
  <2> QED BY <1>1, <2>2, <2>3, <2>4, SeqEqual
<1>7. SubSeq(st, m + 1, m + n) = t
  <2>1. \A i \in (m + 1)..(m + n) : st[i] \in S
    BY <1>5
  <2>2. /\ SubSeq(st, m + 1, m + n) \in Seq(S)
        /\ Len(SubSeq(st, m + 1, m + n)) = IF m + 1 <= m + n THEN m + n - (m + 1) + 1 ELSE 0
        /\ \A i \in 1..(m + n - (m + 1) + 1) : SubSeq(st, m + 1, m + n)[i] = st[m + 1 + i - 1]
    BY <2>1, SubSeqProperties
  <2>3. Len(SubSeq(st, m + 1, m + n)) = n /\ \A i \in 1..n : SubSeq(st, m + 1, m + n)[i] = st[m + i]
    BY <2>2
  <2>4. \A i \in 1..n : SubSeq(st, m + 1, m + n)[i] = t[i]
    <3>1. \A i \in 1..n : m + i \in 1..(m + n) /\ ~(m + i <= m) /\ m + i - m = i
      OBVIOUS
    <3> QED BY <1>4, <2>3, <3>1
  <2> QED BY <1>2, <2>2, <2>3, <2>4, SeqEqual
<1> QED BY <1>1, <1>3, <1>4, <1>6, <1>7

-----------------------------------------------------------------------------
(* The lengths of the queues, and the newest of them.                      *)

\* One length for each queue, the newest first.
LEMMA SizesProperties ==
  ASSUME NEW qs \in Lists
  PROVE  /\ Sizes(qs) \in Seq(Nat) /\ Len(Sizes(qs)) = Len(qs) /\ Len(qs) \in Nat
         /\ \A i \in 1..Len(qs) : Sizes(qs)[i] = Len(qs[Len(qs) + 1 - i])
<1>1. PICK n \in Nat : n = Len(qs)
  BY LenProperties DEF Lists
<1>2. \A i \in 1..n : Len(qs[i]) \in Nat
  BY <1>1, ElementOfSeq, LenProperties DEF Lists
<1>3. \A i \in 1..n : n + 1 - i \in 1..n
  OBVIOUS
<1>4. \A i \in 1..n : Len(qs[n + 1 - i]) \in Nat
  BY <1>2, <1>3
<1>5. Sizes(qs) = [i \in 1..n |-> Len(qs[n + 1 - i])]
  BY <1>1 DEF Sizes
<1>6. Sizes(qs) \in [1..n -> Nat]
  BY <1>4, <1>5
<1>7. Sizes(qs) \in Seq(Nat)
  BY <1>6, SeqDef
<1>8. Len(Sizes(qs)) \in Nat /\ DOMAIN Sizes(qs) = 1..Len(Sizes(qs))
  BY <1>7, LenProperties
<1>9. Len(Sizes(qs)) = n
  BY <1>6, <1>8
<1> QED BY <1>1, <1>5, <1>7, <1>9

\* The length of a new queue comes first.
LEMMA SizesAppend ==
  ASSUME NEW qs \in Lists, NEW q \in Seq(Lines)
  PROVE  Sizes(Append(qs, q)) = <<Len(q)>> \o Sizes(qs)
<1>1. PICK n \in Nat : n = Len(qs)
  BY LenProperties DEF Lists
<1>2. PICK more \in Lists : more = Append(qs, q)
  BY AppendProperties DEF Lists
<1>3. Len(more) = n + 1 /\ more[n+1] = q /\ \A i \in 1..n : more[i] = qs[i]
  BY <1>1, <1>2, AppendProperties DEF Lists
<1>4. /\ Sizes(qs) \in Seq(Nat) /\ Len(Sizes(qs)) = n
      /\ \A i \in 1..n : Sizes(qs)[i] = Len(qs[n + 1 - i])
  BY <1>1, SizesProperties
<1>5. /\ Sizes(more) \in Seq(Nat) /\ Len(Sizes(more)) = n + 1
      /\ \A i \in 1..(n + 1) : Sizes(more)[i] = Len(more[n + 1 + 1 - i])
  BY <1>3, SizesProperties, ZenonT(40)
<1>6. PICK k \in Nat : k = Len(q)
  BY LenProperties
<1>7. <<k>> \in Seq(Nat) /\ Len(<<k>>) = 1 /\ <<k>>[1] = k
  OBVIOUS
<1>8. PICK both \in Seq(Nat) : both = <<k>> \o Sizes(qs)
  BY <1>4, <1>7, ConcatProperties
<1>9. /\ Len(both) = 1 + n
      /\ \A i \in 1..(1 + n) : both[i] = IF i <= 1 THEN <<k>>[i] ELSE Sizes(qs)[i - 1]
  BY <1>4, <1>7, <1>8, ConcatProperties
<1>10. ASSUME NEW i \in 1..(n + 1) PROVE Sizes(more)[i] = both[i]
  <2>1. CASE i = 1
    <3>1. n + 1 + 1 - i = n + 1 /\ i \in 1..(1 + n)
      BY <2>1
    <3> QED BY <1>3, <1>5, <1>6, <1>7, <1>9, <2>1, <3>1
  <2>2. CASE i # 1
    <3>1. /\ n + 1 + 1 - i = n + 1 - (i - 1) /\ n + 1 - (i - 1) \in 1..n /\ i - 1 \in 1..n
          /\ ~(i <= 1) /\ i \in 1..(1 + n)
      BY <2>2
    <3>2. both[i] = Len(qs[n + 1 - (i - 1)])
      BY <1>4, <1>9, <3>1
    <3>3. Sizes(more)[i] = Len(qs[n + 1 - (i - 1)])
      BY <1>3, <1>5, <3>1
    <3> QED BY <3>2, <3>3
  <2> QED BY <2>1, <2>2
<1>11. Sizes(more) = both
  <2>1. Len(Sizes(more)) = Len(both) /\ \A i \in 1..Len(Sizes(more)) : Sizes(more)[i] = both[i]
    BY <1>5, <1>9, <1>10
  <2> QED BY <1>5, <2>1, SeqEqual
<1> QED BY <1>2, <1>6, <1>8, <1>11

\* Equal intervals have equal ends: the length of a sequence from its domain.
LEMMA SameInterval ==
  ASSUME NEW a \in Nat, NEW b \in Nat, 1..a = 1..b
  PROVE  a = b
<1>1. a = 0 \/ a \in 1..b
  OBVIOUS
<1>2. b = 0 \/ b \in 1..a
  OBVIOUS
<1> QED BY <1>1, <1>2

\* The list but for its newest queue, and that queue.
LEMMA Newest ==
  ASSUME NEW qs \in Lists, qs # <<>>
  PROVE  /\ AllBut(qs) \in Lists /\ Len(AllBut(qs)) = Len(qs) - 1
         /\ qs[Len(qs)] \in Seq(Lines) /\ Len(qs) \in Nat \ {0}
         /\ qs = Append(AllBut(qs), qs[Len(qs)])
         /\ \A q \in Seq(Lines) : [qs EXCEPT ![Len(qs)] = q] = Append(AllBut(qs), q)
<1>1. PICK n \in Nat \ {0} : n = Len(qs)
  BY EmptySeq DEF Lists
<1>2. PICK old \in Lists : old = AllBut(qs)
  BY AllButType DEF Lists
<1>3. Len(old) = n - 1
  BY <1>1, <1>2, AllButType DEF Lists
<1>4. \A i \in 1..(n - 1) : old[i] = qs[i]
  <2>1. \A i \in 1..(n - 1) : qs[i] \in Seq(Lines)
    BY <1>1, ElementOfSeq DEF Lists
  <2>2. \A i \in 1..(n - 1 - 1 + 1) : SubSeq(qs, 1, n - 1)[i] = qs[1 + i - 1]
    BY <2>1, SubSeqProperties
  <2>3. old = SubSeq(qs, 1, n - 1)
    BY <1>1, <1>2 DEF AllBut
  <2> QED BY <2>2, <2>3
<1>5. qs[n] \in Seq(Lines)
  BY <1>1, ElementOfSeq DEF Lists
<1>6. ASSUME NEW q \in Seq(Lines)
      PROVE  [qs EXCEPT ![n] = q] = Append(old, q)
  <2>0. n \in 1..Len(qs) /\ qs \in Seq(Seq(Lines))
    BY <1>1 DEF Lists
  <2>1. PICK new \in Lists : new = [qs EXCEPT ![n] = q]
    BY <2>0, ExceptSeq, Zenon DEF Lists
  <2>2. Len(new) = n /\ \A i \in 1..n : new[i] = IF i = n THEN q ELSE qs[i]
    <3>1. Len(new) \in Nat /\ DOMAIN new = 1..Len(new)
      BY LenProperties DEF Lists
    <3>2. DOMAIN qs = 1..n
      BY <1>1, LenProperties DEF Lists
    <3>3. \A i \in 1..n : new[i] = IF i = n THEN q ELSE qs[i]
      BY <2>1, <3>2
    <3>4. 1..Len(new) = 1..n
      BY <2>1, <3>1, <3>2
    <3>5. Len(new) = n
      BY <3>1, <3>4, SameInterval
    <3> QED BY <3>3, <3>5
  <2>3. PICK app \in Lists : app = Append(old, q)
    BY AppendProperties DEF Lists
  <2>4. Len(app) = n - 1 + 1 /\ app[n - 1 + 1] = q /\ \A i \in 1..(n - 1) : app[i] = old[i]
    BY <1>3, <2>3, AppendProperties DEF Lists
  <2>5. \A i \in 1..n : new[i] = app[i]
    <3>1. \A i \in 1..n : i = n \/ i \in 1..(n - 1)
      OBVIOUS
    <3>2. n - 1 + 1 = n
      OBVIOUS
    <3> QED BY <1>4, <2>2, <2>4, <3>1, <3>2
  <2>6. Len(new) = Len(app) /\ \A i \in 1..Len(new) : new[i] = app[i]
    BY <2>2, <2>4, <2>5
  <2> QED BY <2>1, <2>3, <2>6, SeqEqual DEF Lists
<1>7. qs = [qs EXCEPT ![n] = qs[n]]
  BY <1>1, LenProperties DEF Lists
<1> QED BY <1>1, <1>2, <1>3, <1>5, <1>6, <1>7

\* Counting in the newest buffer.
LEMMA FirstSize ==
  ASSUME NEW n \in Nat, NEW t \in Seq(Nat), NEW s, s = <<n>> \o t
  PROVE  /\ s \in Seq(Nat) /\ s[1] = n /\ Len(s) = Len(t) + 1 /\ Tail(s) = t
         /\ \A i \in 2..(Len(t) + 1) : s[i] = t[i - 1]
<1>1. PICK m \in Nat : m = Len(t)
  BY LenProperties
<1>2. <<n>> \in Seq(Nat) /\ Len(<<n>>) = 1 /\ <<n>>[1] = n
  OBVIOUS
<1>3. s \in Seq(Nat) /\ Len(s) = 1 + m /\ \A i \in 1..(1 + m) : s[i] = IF i <= 1 THEN <<n>>[i] ELSE t[i - 1]
  BY <1>1, <1>2, ConcatProperties
<1>4. s[1] = n /\ \A i \in 2..(m + 1) : s[i] = t[i - 1]
  BY <1>2, <1>3
<1>5. Tail(s) = t
  <2>1. s # <<>>
    BY <1>3
  <2>2. Tail(s) \in Seq(Nat) /\ Len(Tail(s)) = m /\ \A i \in 1..m : Tail(s)[i] = s[i + 1]
    BY <1>3, <2>1, HeadTailProperties
  <2>3. \A i \in 1..m : i + 1 \in 2..(m + 1) /\ i + 1 - 1 = i
    OBVIOUS
  <2>4. \A i \in 1..m : Tail(s)[i] = t[i]
    BY <1>4, <2>2, <2>3
  <2> QED BY <1>1, <2>2, <2>4, SeqEqual
<1> QED BY <1>1, <1>3, <1>4, <1>5

\* Changing the count of the newest buffer.
LEMMA FirstSizeChanged ==
  ASSUME NEW n \in Nat, NEW t \in Seq(Nat), NEW k \in Nat
  PROVE  [(<<n>> \o t) EXCEPT ![1] = k] = <<k>> \o t
<1>0. PICK s : s = <<n>> \o t
  OBVIOUS
<1>1. PICK m \in Nat : m = Len(t)
  BY LenProperties
<1>2. s \in Seq(Nat) /\ Len(s) = m + 1 /\ \A i \in 2..(m + 1) : s[i] = t[i - 1]
  BY <1>0, <1>1, FirstSize
<1>3. 1 \in 1..Len(s) /\ s \in Seq(Nat)
  BY <1>2
<1>4. PICK new \in Seq(Nat) : new = [s EXCEPT ![1] = k]
  BY <1>3, ExceptSeq, Zenon
<1>5. Len(new) = m + 1 /\ \A i \in 1..(m + 1) : new[i] = IF i = 1 THEN k ELSE s[i]
  <2>1. Len(new) \in Nat /\ DOMAIN new = 1..Len(new)
    BY LenProperties
  <2>2. DOMAIN s = 1..(m + 1)
    BY <1>2, LenProperties
  <2>3. \A i \in 1..(m + 1) : new[i] = IF i = 1 THEN k ELSE s[i]
    BY <1>4, <2>2
  <2>4. 1..Len(new) = 1..(m + 1)
    BY <1>4, <2>1, <2>2
  <2>5. Len(new) = m + 1
    <3>1. m + 1 \in Nat
      OBVIOUS
    <3> QED BY <2>1, <2>4, <3>1, SameInterval
  <2> QED BY <2>3, <2>5
<1>6. PICK kt : kt = <<k>> \o t
  OBVIOUS
<1>7. kt \in Seq(Nat) /\ Len(kt) = m + 1 /\ kt[1] = k /\ \A i \in 2..(m + 1) : kt[i] = t[i - 1]
  BY <1>1, <1>6, FirstSize
<1>8. \A i \in 1..(m + 1) : i = 1 \/ i \in 2..(m + 1)
  OBVIOUS
<1>9. \A i \in 1..(m + 1) : new[i] = kt[i]
  BY <1>2, <1>5, <1>7, <1>8
<1>10. new = kt
  BY <1>4, <1>5, <1>6, <1>7, <1>9, SeqEqual
<1> QED BY <1>0, <1>4, <1>6, <1>10, Zenon

-----------------------------------------------------------------------------
(* The sum of the lengths, and the queues that DROPBUF leaves.             *)

IsSum(s, g) == g = [i \in 0..Len(s) |-> IF i = 0 THEN 0 ELSE g[i-1] + s[i]]

\* What IsSum says of each member.
LEMMA SumSteps ==
  ASSUME NEW s, Len(s) \in Nat, NEW g, IsSum(s, g)
  PROVE  g[0] = 0 /\ \A i \in 1..Len(s) : g[i] = g[i-1] + s[i]
<1>1. \A i \in 0..Len(s) : g[i] = IF i = 0 THEN 0 ELSE g[i-1] + s[i]
  BY Zenon DEF IsSum
<1>2. 0 \in 0..Len(s) /\ \A i \in 1..Len(s) : i \in 0..Len(s) /\ i # 0
  OBVIOUS
<1> QED BY <1>1, <1>2, Zenon

\* Sum is the last member of a function that IsSum describes.
LEMMA SumIsSum ==
  ASSUME NEW s \in Seq(Nat)
  PROVE  \E g \in [0..Len(s) -> Nat] : IsSum(s, g) /\ Queue!Sum(s) = g[Len(s)]
<1> DEFINE h == [i \in 1..Len(s) |-> [v \in Nat |-> v + s[i]]]
           sum == CHOOSE g : IsSum(s, g)
<1>1. Len(s) \in Nat /\ \A i \in 1..Len(s) : s[i] \in Nat
  BY LenProperties, ElementOfSeq
<1>2. \A i \in 1..Len(s) : \A v \in Nat : v + s[i] \in Nat
  BY <1>1
<1>3. h \in [1..Len(s) -> [Nat -> Nat]]
  BY <1>2
<1>4. \A i \in 1..Len(s) : \A v \in Nat : h[i][v] = v + s[i]
  OBVIOUS
<1> HIDE DEF h
<1>5. 0 \in Nat
  OBVIOUS
<1>6. PICK g : Applies(Nat, 0, Len(s), h, g)
  BY <1>1, <1>3, <1>5, RecursionExists
<1>7. /\ g \in [0..Len(s) -> Nat] /\ g[0] = 0
      /\ \A i \in 1..Len(s) : g[i] = g[i-1] + s[i]
  <2>1. g \in [0..Len(s) -> Nat] /\ g[0] = 0 /\ \A i \in 1..Len(s) : g[i] = h[i][g[i-1]]
    BY <1>6 DEF Applies
  <2>2. \A i \in 1..Len(s) : i - 1 \in 0..Len(s)
    BY <1>1
  <2>3. \A i \in 1..Len(s) : g[i-1] \in Nat
    BY <2>1, <2>2
  <2> QED BY <1>4, <2>1, <2>3
<1>8. g = [i \in 0..Len(s) |-> IF i = 0 THEN 0 ELSE g[i-1] + s[i]]
  <2>1. \A i \in 0..Len(s) : i = 0 \/ i \in 1..Len(s)
    BY <1>1
  <2>2. \A i \in 0..Len(s) : g[i] = IF i = 0 THEN 0 ELSE g[i-1] + s[i]
    BY <1>7, <2>1
  <2> QED BY <1>7, <2>2
<1>9. IsSum(s, g)
  BY <1>8 DEF IsSum
<1>10. IsSum(s, sum)
  BY <1>9
<1>11. Queue!Sum(s) = sum[Len(s)]
  BY DEF Queue!Sum, IsSum
<1> HIDE DEF sum
<1>12. sum[0] = 0 /\ \A i \in 1..Len(s) : sum[i] = sum[i-1] + s[i]
  BY <1>1, <1>10, SumSteps
<1>13. \A i \in 1..Len(s) : sum[i-1] = g[i-1] => sum[i] = g[i]
  BY <1>7, <1>12, Zenon
<1>14. \A i \in 0..Len(s) : sum[i] = g[i]
  <2>1. sum[0] = g[0]
    BY <1>7, <1>12
  <2> QED BY <1>1, <1>13, <2>1, SameUpTo, Zenon
<1>15. sum[Len(s)] = g[Len(s)]
  BY <1>1, <1>14
<1> QED BY <1>7, <1>9, <1>11, <1>15

\* The sum of one buffer more.
LEMMA SumAppend ==
  ASSUME NEW s \in Seq(Nat), NEW k \in Nat
  PROVE  Queue!Sum(Append(s, k)) = Queue!Sum(s) + k
<1>1. PICK n \in Nat : n = Len(s)
  BY LenProperties
<1>2. PICK more \in Seq(Nat) : more = Append(s, k)
  BY AppendProperties
<1>3. Len(more) = n + 1 /\ more[n+1] = k /\ \A i \in 1..n : more[i] = s[i]
  BY <1>1, <1>2, AppendProperties
<1>4. PICK f : IsSum(s, f) /\ Queue!Sum(s) = f[n]
  BY <1>1, SumIsSum
<1>5. PICK g : IsSum(more, g) /\ Queue!Sum(more) = g[n+1]
  BY <1>3, SumIsSum
<1>6. f[0] = 0 /\ \A i \in 1..n : f[i] = f[i-1] + s[i]
  BY <1>1, <1>4, SumSteps
<1>7. g[0] = 0 /\ \A i \in 1..(n+1) : g[i] = g[i-1] + more[i]
  <2>1. g[0] = 0 /\ \A i \in 1..Len(more) : g[i] = g[i-1] + more[i]
    <3>1. Len(more) \in Nat
      BY <1>3
    <3> QED BY <1>5, <3>1, SumSteps, Zenon
  <2> QED BY <1>3, <2>1
<1>8. \A i \in 1..n : f[i-1] = g[i-1] => f[i] = g[i]
  <2>1. \A i \in 1..n : i \in 1..(n+1)
    OBVIOUS
  <2> QED BY <1>3, <1>6, <1>7, <2>1, Zenon
<1>9. \A i \in 0..n : f[i] = g[i]
  <2>1. f[0] = g[0]
    BY <1>6, <1>7
  <2> QED BY <1>8, <2>1, SameUpTo, ZenonT(40)
<1>10. g[n+1] = g[n] + k
  <2>1. n + 1 \in 1..(n+1) /\ (n + 1) - 1 = n
    OBVIOUS
  <2> QED BY <1>3, <1>7, <2>1
<1>11. n \in 0..n
  OBVIOUS
<1>12. f[n] = g[n]
  BY <1>9, <1>11
<1> QED BY <1>2, <1>4, <1>5, <1>10, <1>12, Zenon

\* The sum of no buffer.
LEMMA SumEmpty == Queue!Sum(<<>>) = 0
<1>1. <<>> \in Seq(Nat) /\ Len(<<>>) = 0
  BY EmptySeq
<1>2. PICK g : IsSum(<<>>, g) /\ Queue!Sum(<<>>) = g[Len(<<>>)]
  BY <1>1, SumIsSum
<1>3. Len(<<>>) \in Nat
  BY <1>1
<1>4. g[0] = 0
  BY <1>2, <1>3, SumSteps, Zenon
<1> QED BY <1>1, <1>2, <1>4

\* The first part of a list, and one more.
LEMMA OneMore ==
  ASSUME NEW S, NEW s \in Seq(S), NEW k \in 1..Len(s)
  PROVE  /\ SubSeq(s, 1, k) = Append(SubSeq(s, 1, k - 1), s[k])
         /\ SubSeq(s, 1, k - 1) \in Seq(S) /\ s[k] \in S
<1>1. Len(s) \in Nat
  BY LenProperties
<1>2. 1 \in 1..Len(s) /\ k \in 1..Len(s) /\ k - 1 \in Int
  BY <1>1
<1>3. SubSeq(s, 1, k) = SubSeq(s, 1, k - 1) \o <<s[k]>>
  BY <1>2, SubSeqRecursiveSecond, Zenon
<1>4. s[k] \in S /\ \A i \in 1..(k - 1) : s[i] \in S
  BY <1>1, ElementOfSeq
<1>5. SubSeq(s, 1, k - 1) \in Seq(S)
  BY <1>2, <1>4, SubSeqProperties
<1> QED BY <1>3, <1>4, <1>5, AppendIsConcat

\* The j newest queues hold the first lines of the whole.
HoldFirst(qs, n, j) ==
  \E p \in Seq(Lines) : /\ Joined(qs) = p \o Joined(SubSeq(qs, 1, n - j))
                        /\ Queue!Sum(SubSeq(Sizes(qs), 1, j)) = Len(p)

\* The base of the induction: no queue.
LEMMA NoneHoldFirst ==
  ASSUME NEW qs \in Lists, NEW n \in Nat, n = Len(qs)
  PROVE  HoldFirst(qs, n, 0)
<1>1. SubSeq(qs, 1, n - 0) = qs
  BY SubSeqFull DEF Lists
<1>2. SubSeq(Sizes(qs), 1, 0) = <<>>
  BY SubSeqEmpty
<1>3. Joined(qs) \in Seq(Lines)
  BY JoinedType
<1>4. <<>> \in Seq(Lines) /\ Len(<<>>) = 0 /\ <<>> \o Joined(qs) = Joined(qs)
  BY <1>3, EmptySeq, ConcatEmptySeq
<1> QED BY <1>1, <1>2, <1>4, SumEmpty DEF HoldFirst

\* Its step: one queue more, the next older one.
LEMMA OneMoreHoldsFirst ==
  ASSUME NEW qs \in Lists, NEW n \in Nat, n = Len(qs), NEW j \in 1..n,
         HoldFirst(qs, n, j - 1)
  PROVE  HoldFirst(qs, n, j)
<1>1. PICK p \in Seq(Lines) : /\ Joined(qs) = p \o Joined(SubSeq(qs, 1, n - (j - 1)))
                              /\ Queue!Sum(SubSeq(Sizes(qs), 1, j - 1)) = Len(p)
  BY DEF HoldFirst
<1>2. n - (j - 1) \in 1..n
  OBVIOUS
<1>3. PICK m \in 1..n : m = n - (j - 1)
  BY <1>2
<1>4. n - j = m - 1 /\ n + 1 - j = m
  BY <1>3
<1>5. PICK q \in Seq(Lines) : q = qs[m]
  BY ElementOfSeq DEF Lists
<1>6. PICK rest \in Lists : rest = SubSeq(qs, 1, m - 1)
  BY OneMore DEF Lists
<1>7. SubSeq(qs, 1, m) = Append(rest, q)
  BY <1>5, <1>6, OneMore DEF Lists
<1>8. Joined(SubSeq(qs, 1, m)) = Backward(q) \o Joined(rest)
  BY <1>7, JoinedAppend
<1>9. /\ Backward(q) \in Seq(Lines) /\ Len(Backward(q)) = Len(q) /\ Joined(rest) \in Seq(Lines)
      /\ Len(q) \in Nat /\ Len(p) \in Nat
  BY BackwardProperties, JoinedType, LenProperties
<1>10. (p \o Backward(q)) \o Joined(rest) = p \o (Backward(q) \o Joined(rest))
  <2>1. PICK b \in Seq(Lines) : b = Backward(q)
    BY <1>9
  <2>2. PICK r \in Seq(Lines) : r = Joined(rest)
    BY <1>9
  <2>3. (p \o b) \o r = p \o (b \o r)
    BY ConcatAssociative, SMTT(30)
  <2> QED BY <2>1, <2>2, <2>3
<1>11. p \o Backward(q) \in Seq(Lines) /\ Len(p \o Backward(q)) = Len(p) + Len(Backward(q))
  BY <1>9, ConcatProperties, Zenon
<1>12. Joined(qs) = (p \o Backward(q)) \o Joined(SubSeq(qs, 1, n - j))
  BY <1>1, <1>3, <1>4, <1>6, <1>8, <1>10
<1>13. Sizes(qs) \in Seq(Nat) /\ j \in 1..Len(Sizes(qs)) /\ Sizes(qs)[j] = Len(q)
  BY <1>4, <1>5, SizesProperties
<1>14. /\ SubSeq(Sizes(qs), 1, j) = Append(SubSeq(Sizes(qs), 1, j - 1), Len(q))
       /\ SubSeq(Sizes(qs), 1, j - 1) \in Seq(Nat)
  BY <1>13, OneMore
<1>15. Queue!Sum(SubSeq(Sizes(qs), 1, j)) = Len(p) + Len(q)
  BY <1>1, <1>9, <1>14, SumAppend
<1> QED BY <1>9, <1>11, <1>12, <1>15 DEF HoldFirst

\* The induction, by the least counterexample.
LEMMA NewestHoldFirst ==
  ASSUME NEW qs \in Lists, NEW n \in Nat, n = Len(qs), NEW k \in 0..n
  PROVE  HoldFirst(qs, n, k)
<1> DEFINE Bad == {j \in Nat : j <= n /\ ~HoldFirst(qs, n, j)}
<1>1. CASE Bad # {}
  <2>1. PICK j \in Bad : \A l \in Bad : j <= l
    BY <1>1, HasLeast
  <2>2. j \in 1..n /\ j - 1 \in Nat /\ j - 1 <= n /\ ~(j <= j - 1)
    BY <2>1, NoneHoldFirst
  <2>3. HoldFirst(qs, n, j - 1)
    BY <2>1, <2>2
  <2> QED BY <2>1, <2>2, <2>3, OneMoreHoldsFirst
<1> QED BY <1>1

\* The lengths of the queues that are left.
LEMMA SizesLeft ==
  ASSUME NEW qs \in Lists, NEW n \in Nat, n = Len(qs), NEW k \in 0..(n - 1)
  PROVE  SubSeq(Sizes(qs), k + 1, n) = Sizes(SubSeq(qs, 1, n - k))
<1>1. PICK left \in Lists : left = SubSeq(qs, 1, n - k)
  <2>1. n - k \in 1..n /\ \A i \in 1..(n - k) : i \in 1..n
    OBVIOUS
  <2>2. \A i \in 1..(n - k) : qs[i] \in Seq(Lines)
    BY <2>1, ElementOfSeq DEF Lists
  <2>3. SubSeq(qs, 1, n - k) \in Seq(Seq(Lines))
    BY <2>1, <2>2, SubSeqProperties
  <2> QED BY <2>3 DEF Lists
<1>2. Len(left) = n - k /\ \A i \in 1..(n - k) : left[i] = qs[i]
  <2>1. n - k \in 1..n /\ \A i \in 1..(n - k) : i \in 1..n
    OBVIOUS
  <2>2. \A i \in 1..(n - k) : qs[i] \in Seq(Lines)
    BY <2>1, ElementOfSeq DEF Lists
  <2>3. /\ Len(SubSeq(qs, 1, n - k)) = IF 1 <= n - k THEN n - k - 1 + 1 ELSE 0
        /\ \A i \in 1..(n - k - 1 + 1) : SubSeq(qs, 1, n - k)[i] = qs[1 + i - 1]
    BY <2>1, <2>2, SubSeqProperties
  <2> QED BY <1>1, <2>1, <2>3
<1>3. PICK s \in Seq(Nat) : s = Sizes(qs)
  BY SizesProperties
<1>4. Len(s) = n /\ \A i \in 1..n : s[i] = Len(qs[n + 1 - i])
  BY <1>3, SizesProperties
<1>5. /\ Sizes(left) \in Seq(Nat) /\ Len(Sizes(left)) = n - k
      /\ \A i \in 1..(n - k) : Sizes(left)[i] = Len(left[n - k + 1 - i])
  <2>1. /\ Sizes(left) \in Seq(Nat) /\ Len(Sizes(left)) = Len(left)
        /\ \A i \in 1..Len(left) : Sizes(left)[i] = Len(left[Len(left) + 1 - i])
    BY SizesProperties, Zenon
  <2> QED BY <1>2, <2>1
<1>6. PICK t \in Seq(Nat) : t = SubSeq(s, k + 1, n)
  <2>1. \A i \in (k + 1)..n : s[i] \in Nat
    BY <1>4, ElementOfSeq, SMTT(30)
  <2>2. k + 1 \in Int /\ n \in Int
    OBVIOUS
  <2>3. SubSeq(s, k + 1, n) \in Seq(Nat)
    BY <2>1, <2>2, SubSeqProperties, Zenon
  <2> QED BY <2>3
<1>7. Len(t) = n - k /\ \A i \in 1..(n - k) : t[i] = s[k + i]
  <2>1. \A i \in (k + 1)..n : s[i] \in Nat
    BY <1>4, ElementOfSeq, SMTT(30)
  <2>2. /\ Len(t) = IF k + 1 <= n THEN n - (k + 1) + 1 ELSE 0
        /\ \A i \in 1..(n - (k + 1) + 1) : t[i] = s[k + 1 + i - 1]
    BY <1>6, <2>1, SubSeqProperties
  <2> QED BY <2>2
<1>8. \A i \in 1..(n - k) : t[i] = Sizes(left)[i]
  <2>1. \A i \in 1..(n - k) : k + i \in 1..n /\ n + 1 - (k + i) = n - k + 1 - i
                              /\ n - k + 1 - i \in 1..(n - k)
    OBVIOUS
  <2>2. ASSUME NEW i \in 1..(n - k) PROVE t[i] = Sizes(left)[i]
    <3>1. t[i] = Len(qs[n - k + 1 - i])
      BY <1>4, <1>7, <2>1
    <3>2. Sizes(left)[i] = Len(left[n - k + 1 - i]) /\ left[n - k + 1 - i] = qs[n - k + 1 - i]
      BY <1>2, <1>5, <2>1
    <3> QED BY <3>1, <3>2
  <2> QED BY <2>2
<1>9. t = Sizes(left)
  <2>1. Len(t) = Len(Sizes(left)) /\ \A i \in 1..Len(t) : t[i] = Sizes(left)[i]
    BY <1>5, <1>7, <1>8
  <2> QED BY <1>5, <2>1, SeqEqual
<1> QED BY <1>1, <1>3, <1>6, <1>9

\* No queue, no length.
LEMMA SizesEmpty == Sizes(<<>>) = <<>>
<1>1. <<>> \in Lists /\ Len(<<>>) = 0
  BY EmptySeq DEF Lists
<1>2. Sizes(<<>>) \in Seq(Nat) /\ Len(Sizes(<<>>)) = 0
  BY <1>1, SizesProperties
<1> QED BY <1>2, EmptySeq

\* One queue without lines: the state DROPBUF(0) and the start leave.
LEMMA OnlyBase == /\ << <<>> >> = Append(<<>>, <<>>)
                  /\ Joined(<< <<>> >>) = <<>> /\ Sizes(<< <<>> >>) = <<0>>
<1>1. <<>> \in Lists /\ <<>> \in Seq(Lines) /\ Len(<<>>) = 0
  BY EmptySeq DEF Lists
<1>2. << <<>> >> = Append(<<>>, <<>>)
  OBVIOUS
<1>3. Joined(Append(<<>>, <<>>)) = Backward(<<>>) \o Joined(<<>>)
  BY <1>1, JoinedAppend, Zenon
<1>4. Sizes(Append(<<>>, <<>>)) = <<Len(<<>>)>> \o Sizes(<<>>)
  BY <1>1, SizesAppend, Zenon
<1>5. Backward(<<>>) \o Joined(<<>>) = <<>>
  <2>1. Backward(<<>>) = <<>> /\ Joined(<<>>) = <<>>
    BY BackwardShort, JoinedEmpty
  <2>2. <<>> \o <<>> = <<>>
    OBVIOUS
  <2> QED BY <2>1, <2>2
<1>6. <<0>> \o <<>> = <<0>>
  OBVIOUS
<1> QED BY <1>1, <1>2, <1>3, <1>4, <1>5, <1>6, SizesEmpty

\* Giving up the newest queue, which has lost its lines.
LEMMA WithoutNewest ==
  ASSUME NEW old \in Lists, NEW qs, qs = Append(old, <<>>)
  PROVE  /\ Joined(RemoveCurrent(qs)) = Joined(old)
         /\ Sizes(RemoveCurrent(qs)) = IF old = <<>> THEN <<0>> ELSE Sizes(old)
<1>1. <<>> \in Seq(Lines)
  BY EmptySeq
<1>2. qs \in Lists /\ Len(qs) = Len(old) + 1 /\ Len(old) \in Nat /\ qs # <<>>
  BY <1>1, AppendProperties, LenProperties DEF Lists
<1>3. CASE old = <<>>
  <2>1. ~(Len(qs) > 1)
    BY <1>2, <1>3
  <2>2. RemoveCurrent(qs) = << <<>> >>
    BY <1>3, <2>1, OnlyBase DEF RemoveCurrent
  <2> QED BY <1>3, <2>2, OnlyBase, JoinedEmpty
<1>4. CASE old # <<>>
  <2>1. Len(qs) > 1
    BY <1>2, <1>4, EmptySeq DEF Lists
  <2>2. AllBut(qs) \in Lists /\ qs[Len(qs)] \in Seq(Lines) /\ qs = Append(AllBut(qs), qs[Len(qs)])
    BY <1>2, Newest
  <2>3. PICK all \in Lists, q \in Seq(Lines) : all = AllBut(qs) /\ q = qs[Len(qs)]
    BY <2>2
  <2>4. PICK none \in Seq(Lines) : none = <<>>
    BY <1>1
  <2>5. AllBut(qs) = old
    <3>1. Append(all, q) = Append(old, none)
      BY <2>2, <2>3, <2>4
    <3>2. Append(all, q) = Append(old, none) <=> all = old /\ q = none
      BY AppendInjective DEF Lists
    <3> QED BY <2>3, <3>1, <3>2
  <2> QED BY <1>4, <2>1, <2>5 DEF RemoveCurrent
<1> QED BY <1>3, <1>4

\* The first line, and the others.
LEMMA FirstLine ==
  ASSUME NEW S, NEW x \in S, NEW t \in Seq(S)
  PROVE  Head(<<x>> \o t) = x /\ Tail(<<x>> \o t) = t
<1>1. PICK m \in Nat : m = Len(t)
  BY LenProperties
<1>2. <<x>> \in Seq(S) /\ Len(<<x>>) = 1 /\ <<x>>[1] = x
  OBVIOUS
<1>3. PICK s \in Seq(S) : s = <<x>> \o t
  BY <1>2, ConcatProperties
<1>4. Len(s) = 1 + m /\ \A i \in 1..(1 + m) : s[i] = IF i <= 1 THEN <<x>>[i] ELSE t[i - 1]
  BY <1>1, <1>2, <1>3, ConcatProperties
<1>5. s # <<>> /\ s[1] = x
  BY <1>2, <1>4
<1>6. Head(s) = x
  BY <1>5
<1>7. Tail(s) \in Seq(S) /\ Len(Tail(s)) = m /\ \A i \in 1..m : Tail(s)[i] = s[i + 1]
  BY <1>4, <1>5, HeadTailProperties
<1>8. \A i \in 1..m : i + 1 \in 1..(1 + m) /\ ~(i + 1 <= 1) /\ i + 1 - 1 = i
  OBVIOUS
<1>9. \A i \in 1..m : Tail(s)[i] = t[i]
  BY <1>4, <1>7, <1>8
<1>10. Tail(s) = t
  BY <1>1, <1>7, <1>9, SeqEqual
<1> QED BY <1>3, <1>6, <1>10

-----------------------------------------------------------------------------
(* The state of the one queue.                                             *)

\* The two modules reverse alike.
LEMMA SameBackward == ASSUME NEW t PROVE Queue!Backwards(t) = Backward(t)
BY DEF Queue!Backwards, Backward

\* A list of queues whose newest is q.
LEMMA WithNewest ==
  ASSUME NEW old \in Lists, NEW q \in Seq(Lines)
  PROVE  /\ Joined(Append(old, q)) = Backward(q) \o Joined(old)
         /\ Sizes(Append(old, q)) = <<Len(q)>> \o Sizes(old)
         /\ Backward(q) \in Seq(Lines) /\ Len(Backward(q)) = Len(q) /\ Len(q) \in Nat
         /\ Joined(old) \in Seq(Lines)
         /\ Sizes(old) \in Seq(Nat) /\ Len(Sizes(old)) = Len(old) /\ Len(old) \in Nat
         /\ Len(Append(old, q)) = Len(old) + 1
BY JoinedAppend, SizesAppend, BackwardProperties, JoinedType, SizesProperties,
   AppendProperties DEF Lists

\* old is the queues but the current one; what RexxQueue sees of them.
Split(old) ==
  /\ old \in Lists /\ queues = Append(old, Cur) /\ Last = Len(old) + 1
  /\ Cur \in Seq(Lines)
  /\ \A q \in Seq(Lines) : [queues EXCEPT ![Last] = q] = Append(old, q)
  /\ Joined(queues) = Backward(Cur) \o Joined(old)
  /\ Sizes(queues) = <<Len(Cur)>> \o Sizes(old)
  /\ Sizes(queues)[1] = Len(Cur)
  /\ Tail(Sizes(queues)) = Sizes(old) /\ Len(Sizes(queues)) = Last
  /\ \A k \in Nat : [Sizes(queues) EXCEPT ![1] = k] = <<k>> \o Sizes(old)
  /\ Queue!Current = Backward(Cur) /\ Queue!Older = Joined(old)
  /\ Queue!GiveUp = IF old = <<>> THEN <<0>> ELSE Sizes(old)

\* In every reachable state the queues are the older ones and the current one.
LEMMA CanSplit ==
  ASSUME IInv
  PROVE  \E old : Split(old)
<1>1. queues \in Lists /\ queues # <<>> /\ Last = Len(queues) /\ Cur = queues[Len(queues)]
  BY DEF IInv, TypeOK, BaseQueueStays, Lists, Last, Cur
<1>2. PICK old \in Lists : old = AllBut(queues)
  BY <1>1, Newest
<1>3. /\ Len(old) = Last - 1 /\ Cur \in Seq(Lines) /\ Last \in Nat \ {0}
      /\ queues = Append(old, Cur)
      /\ \A q \in Seq(Lines) : [queues EXCEPT ![Last] = q] = Append(old, q)
  BY <1>1, <1>2, Newest
<1>4. PICK b \in Seq(Lines) : b = Backward(Cur)
  BY <1>3, WithNewest
<1>5. PICK j \in Seq(Lines) : j = Joined(old)
  BY <1>3, WithNewest
<1>6. PICK t \in Seq(Nat) : t = Sizes(old)
  BY <1>3, WithNewest
<1>7. PICK n \in Nat : n = Len(Cur)
  BY <1>3, LenProperties
<1>8. Joined(queues) = b \o j /\ Len(b) = n /\ Len(t) = Last - 1
  BY <1>3, <1>4, <1>5, <1>6, <1>7, WithNewest
<1>9. PICK z : z = Sizes(queues)
  OBVIOUS
<1>10. z = <<n>> \o t
  BY <1>3, <1>6, <1>7, <1>9, WithNewest
<1>11. /\ z[1] = n /\ Tail(z) = t /\ Len(z) = Last
       /\ \A k \in Nat : [z EXCEPT ![1] = k] = <<k>> \o t
  <2>1. /\ z[1] = n /\ Len(z) = Len(t) + 1 /\ Tail(z) = t
        /\ \A k \in Nat : [z EXCEPT ![1] = k] = <<k>> \o t
    <3>1. n \in Nat /\ t \in Seq(Nat) /\ z = <<n>> \o t
      BY <1>10
    <3>2. z[1] = n /\ Len(z) = Len(t) + 1 /\ Tail(z) = t
      BY <3>1, FirstSize
    <3>3. ASSUME NEW k \in Nat PROVE [z EXCEPT ![1] = k] = <<k>> \o t
      <4>1. [(<<n>> \o t) EXCEPT ![1] = k] = <<k>> \o t
        BY FirstSizeChanged
      <4>2. z = <<n>> \o t
        BY <3>1
      <4> QED BY <4>1, <4>2, Zenon
    <3> QED BY <3>2, <3>3, Zenon
  <2>2. Len(z) = Last
    BY <1>3, <1>8, <2>1
  <2> QED BY <2>1, <2>2
<1>12. Queue!Current = b
  <2>1. Queue!Current = SubSeq(b \o j, 1, Len(b))
    BY <1>8, <1>9, <1>11 DEF Queue!Current
  <2> QED BY <2>1, Apart
<1>13. Queue!Older = j
  <2>1. Queue!Older = SubSeq(b \o j, Len(b) + 1, Len(b \o j))
    BY <1>8, <1>9, <1>11 DEF Queue!Older
  <2> QED BY <2>1, Apart
<1>14. Queue!GiveUp = IF old = <<>> THEN <<0>> ELSE t
  <2>1. Queue!GiveUp = IF Last > 1 THEN t ELSE <<0>>
    BY <1>9, <1>11 DEF Queue!GiveUp
  <2>2. Last > 1 <=> old # <<>>
    BY <1>3, EmptySeq DEF Lists
  <2> QED BY <2>1, <2>2
<1>15. Split(old)
  <2>1. old \in Lists /\ queues = Append(old, Cur) /\ Cur \in Seq(Lines)
    BY <1>3
  <2>2. Last = Len(old) + 1
    BY <1>3
  <2>3. \A k \in Nat : [Sizes(queues) EXCEPT ![1] = k] = <<k>> \o Sizes(old)
    BY <1>6, <1>9, <1>11, Zenon
  <2>4. /\ Joined(queues) = Backward(Cur) \o Joined(old)
        /\ Queue!Current = Backward(Cur) /\ Queue!Older = Joined(old)
    BY <1>4, <1>5, <1>8, <1>12, <1>13
  <2>5. /\ Sizes(queues) = <<Len(Cur)>> \o Sizes(old) /\ Sizes(queues)[1] = Len(Cur)
        /\ Tail(Sizes(queues)) = Sizes(old) /\ Len(Sizes(queues)) = Last
        /\ Queue!GiveUp = IF old = <<>> THEN <<0>> ELSE Sizes(old)
    BY <1>6, <1>7, <1>9, <1>10, <1>11, <1>14
  <2> QED BY <1>3, <2>1, <2>2, <2>3, <2>4, <2>5, Zenon DEF Split
<1> QED BY <1>15

\* The current queue is replaced: its lines, and their number, are.
LEMMA NewestReplaced ==
  ASSUME NEW old, Split(old), NEW q \in Seq(Lines), queues' = Append(old, q)
  PROVE  /\ Joined(queues)' = Backward(q) \o Joined(old)
         /\ Sizes(queues)' = [Sizes(queues) EXCEPT ![1] = Len(q)]
<1>1. old \in Lists
  BY DEF Split
<1>2. /\ Joined(queues)' = Backward(q) \o Joined(old)
      /\ Sizes(queues)' = <<Len(q)>> \o Sizes(old) /\ Len(q) \in Nat
  BY <1>1, WithNewest
<1>3. [Sizes(queues) EXCEPT ![1] = Len(q)] = <<Len(q)>> \o Sizes(old)
  BY <1>2, Zenon DEF Split
<1> QED BY <1>2, <1>3

\* The current queue is given up.
LEMMA NewestGivenUp ==
  ASSUME NEW old, Split(old), queues' = RemoveCurrent(Append(old, <<>>))
  PROVE  Joined(queues)' = Queue!Older /\ Sizes(queues)' = Queue!GiveUp
<1>1. old \in Lists /\ Queue!Older = Joined(old)
      /\ Queue!GiveUp = IF old = <<>> THEN <<0>> ELSE Sizes(old)
  BY DEF Split
<1> QED BY <1>1, WithoutNewest

-----------------------------------------------------------------------------
(* The steps of a program.                                                 *)

\* PUSH.
LEMMA PushImplements ==
  ASSUME IInv, NEW l \in Lines, push(l)
  PROVE  Queue!Push(l)
<1>1. PICK old : Split(old)
  BY CanSplit
<1>2. PICK c \in Seq(Lines) : c = Cur
  BY <1>1 DEF Split
<1>3. PICK q \in Seq(Lines) : q = Append(c, l)
  BY AppendProperties
<1>4. queues' = Append(old, q)
  BY <1>1, <1>2, <1>3 DEF push, AddLast, Cur, Split
<1>5. Len(q) = Len(c) + 1 /\ Sizes(queues)[1] = Len(c)
  BY <1>1, <1>2, <1>3, AppendProperties DEF Split
<1>6. PICK x \in Seq(Lines) : x = <<l>> /\ Backward(x) = x
  BY BackwardShort
<1>7. Backward(q) = x \o Backward(c)
  <2>1. q = c \o x
    BY <1>3, <1>6, AppendIsConcat
  <2>2. Backward(c \o x) = Backward(x) \o Backward(c)
    BY BackwardConcat
  <2> QED BY <1>6, <2>1, <2>2
<1>8. Joined(queues)' = <<l>> \o Joined(queues)
  <2>1. PICK b \in Seq(Lines) : b = Backward(c)
    BY BackwardType
  <2>2. PICK j \in Seq(Lines) : j = Joined(old)
    BY <1>1, JoinedType DEF Split
  <2>3. (x \o b) \o j = x \o (b \o j)
    BY ConcatAssociative
  <2>4. Joined(queues)' = Backward(q) \o Joined(old) /\ Joined(queues) = Backward(c) \o Joined(old)
    BY <1>1, <1>2, <1>4, NewestReplaced DEF Split
  <2> QED BY <1>6, <1>7, <2>1, <2>2, <2>3, <2>4
<1>9. Sizes(queues)' = [Sizes(queues) EXCEPT ![1] = @ + 1]
  <2>1. Sizes(queues)' = [Sizes(queues) EXCEPT ![1] = Len(q)]
    BY <1>1, <1>4, NewestReplaced, Zenon
  <2> QED BY <1>5, <2>1
<1>10. UNCHANGED <<got, cmd, fed, out>>
  BY DEF push, cmdvars
<1> QED BY <1>8, <1>9, <1>10 DEF Queue!Push, Queue!command

\* QUEUE.
LEMMA QueueImplements ==
  ASSUME IInv, NEW l \in Lines, enqueue(l)
  PROVE  Queue!Queue(l)
<1>1. PICK old : Split(old)
  BY CanSplit
<1>2. PICK c \in Seq(Lines) : c = Cur
  BY <1>1 DEF Split
<1>3. PICK x \in Seq(Lines) : x = <<l>> /\ Backward(x) = x
  BY BackwardShort
<1>4. PICK q \in Seq(Lines) : q = x \o c
  BY ConcatProperties
<1>5. queues' = Append(old, q)
  BY <1>1, <1>2, <1>3, <1>4 DEF enqueue, AddFirst, Cur, Split
<1>6. Len(q) = Len(c) + 1 /\ Sizes(queues)[1] = Len(c)
  <2>1. Len(x) = 1 /\ Len(c) \in Nat /\ Len(q) = Len(x) + Len(c)
    BY <1>3, <1>4, ConcatProperties, LenProperties
  <2> QED BY <1>1, <1>2, <2>1 DEF Split
<1>7. Backward(q) = Backward(c) \o x
  BY <1>3, <1>4, BackwardConcat
<1>8. Joined(queues)' = Queue!Current \o <<l>> \o Queue!Older
  <2>1. Joined(queues)' = Backward(q) \o Joined(old)
    BY <1>1, <1>5, NewestReplaced
  <2>2. Queue!Current = Backward(c) /\ Queue!Older = Joined(old)
    BY <1>1, <1>2 DEF Split
  <2> QED BY <1>3, <1>7, <2>1, <2>2
<1>9. Sizes(queues)' = [Sizes(queues) EXCEPT ![1] = @ + 1]
  <2>1. Sizes(queues)' = [Sizes(queues) EXCEPT ![1] = Len(q)]
    BY <1>1, <1>5, NewestReplaced, Zenon
  <2> QED BY <1>6, <2>1
<1>10. UNCHANGED <<got, cmd, fed, out>>
  BY DEF enqueue, cmdvars
<1> QED BY <1>8, <1>9, <1>10 DEF Queue!Queue, Queue!command

\* PULL of a queued line: the queue it empties is given up.
LEMMA PullImplements ==
  ASSUME IInv, pullLine
  PROVE  Queue!Pull
<1>1. PICK old : Split(old)
  BY CanSplit
<1>2. PICK c \in Seq(Lines) : c = Cur
  BY <1>1 DEF Split
<1>3. PICK n \in Nat \ {0} : n = Len(c) /\ c # <<>>
  BY <1>2, EmptySeq DEF pullLine
<1>4. PICK front \in Seq(Lines) : front = AllBut(c) /\ Len(front) = n - 1
  BY <1>3, AllButType
<1>5. PICK l \in Lines : l = c[n]
  BY <1>3, ElementOfSeq
<1>6. PICK x \in Seq(Lines) : x = <<l>> /\ Backward(x) = x
  BY BackwardShort
<1>7. c = front \o x
  <2>1. n \in 1..Len(c) /\ n - 1 = Len(c) - 1
    BY <1>3
  <2>2. SubSeq(c, 1, n) = Append(SubSeq(c, 1, n - 1), c[n])
    BY <2>1, OneMore
  <2>3. SubSeq(c, 1, n) = c
    BY <1>3, SubSeqFull
  <2>4. front = SubSeq(c, 1, n - 1)
    BY <1>3, <1>4 DEF AllBut
  <2> QED BY <1>4, <1>5, <1>6, <2>2, <2>3, <2>4, AppendIsConcat
<1>8. PICK b \in Seq(Lines) : b = Backward(front)
  BY BackwardType
<1>9. PICK j \in Seq(Lines) : j = Joined(old)
  BY <1>1, JoinedType DEF Split
<1>10. PICK rest \in Seq(Lines) : rest = b \o j
  BY ConcatProperties
<1>11. Joined(queues) = <<l>> \o rest
  <2>1. Backward(c) = Backward(x) \o Backward(front)
    BY <1>7, BackwardConcat
  <2>2. (x \o b) \o j = x \o (b \o j)
    BY ConcatAssociative, SMTT(30)
  <2>3. Joined(queues) = Backward(c) \o Joined(old)
    BY <1>1, <1>2 DEF Split
  <2> QED BY <1>6, <1>8, <1>9, <1>10, <2>1, <2>2, <2>3
<1>12. Head(Joined(queues)) = l /\ Tail(Joined(queues)) = rest
  BY <1>11, FirstLine
<1>13. Sizes(queues)[1] = n
  BY <1>1, <1>2, <1>3 DEF Split
<1>14. queues' = IF n = 1 THEN RemoveCurrent(Append(old, front)) ELSE Append(old, front)
  <2>1. [queues EXCEPT ![Last] = AllBut(@)] = Append(old, front)
    BY <1>1, <1>2, <1>4 DEF Cur, Split
  <2> QED BY <1>2, <1>3, <2>1 DEF pullLine
<1>15. got' = l /\ UNCHANGED <<cmd, fed, out>>
  BY <1>2, <1>3, <1>5 DEF pullLine, cmdvars
<1>16. CASE n = 1
  <2>1. front = <<>>
    BY <1>4, <1>16, EmptySeq
  <2>2. queues' = RemoveCurrent(Append(old, <<>>))
    BY <1>14, <1>16, <2>1
  <2>3. Joined(queues)' = Queue!Older /\ Sizes(queues)' = Queue!GiveUp
    BY <1>1, <2>2, NewestGivenUp
  <2>4. rest = j
    <3>1. b = <<>>
      BY <1>8, <2>1, BackwardShort
    <3> QED BY <1>10, <3>1, ConcatEmptySeq
  <2>5. Queue!Older = j
    BY <1>1, <1>9 DEF Split
  <2> QED BY <1>12, <1>13, <1>15, <1>16, <2>3, <2>4, <2>5 DEF Queue!Pull, Queue!command
<1>17. CASE n # 1
  <2>1. queues' = Append(old, front)
    BY <1>14, <1>17
  <2>2. /\ Joined(queues)' = rest
        /\ Sizes(queues)' = [Sizes(queues) EXCEPT ![1] = Len(front)]
    BY <1>1, <1>8, <1>9, <1>10, <2>1, NewestReplaced, Zenon
  <2>3. Sizes(queues)' = [Sizes(queues) EXCEPT ![1] = @ - 1]
    BY <1>4, <1>13, <2>2
  <2>4. Sizes(queues)[1] > 0 /\ Sizes(queues)[1] # 1
    BY <1>13, <1>17
  <2>5. /\ got' = Head(Joined(queues)) /\ Joined(queues)' = Tail(Joined(queues))
        /\ UNCHANGED <<cmd, fed, out>>
    BY <1>12, <1>15, <2>2
  <2>6. UNCHANGED <<cmd.in, cmd.out, fed, out>>
    BY <2>5
  <2> QED BY <2>3, <2>4, <2>5, <2>6, Zenon DEF Queue!Pull, Queue!command
<1> QED BY <1>16, <1>17

\* PULL of a line of the console.
LEMMA PullConsoleImplements ==
  ASSUME IInv, pullConsole
  PROVE  Queue!PullConsole
<1>1. PICK old : Split(old)
  BY CanSplit
<1>2. Sizes(queues)[1] = 0
  BY <1>1 DEF Split, pullConsole
<1>3. got' = Console /\ UNCHANGED <<queues, cmd, fed, out>>
  BY DEF pullConsole, cmdvars
<1> QED BY <1>2, <1>3 DEF Queue!PullConsole, Queue!command

\* MAKEBUF.
LEMMA MakeBufImplements ==
  ASSUME IInv, addDataQueue
  PROVE  Queue!MakeBuf
<1>1. queues \in Lists
  BY DEF IInv, TypeOK, Lists
<1>2. <<>> \in Seq(Lines) /\ Len(<<>>) = 0 /\ Backward(<<>>) = <<>>
  BY EmptySeq, BackwardShort
<1>3. /\ Joined(Append(queues, <<>>)) = <<>> \o Joined(queues)
      /\ Sizes(Append(queues, <<>>)) = <<0>> \o Sizes(queues)
      /\ Joined(queues) \in Seq(Lines)
  BY <1>1, <1>2, WithNewest
<1>4. <<>> \o Joined(queues) = Joined(queues)
  BY <1>3, ConcatEmptySeq
<1>5. queues' = Append(queues, <<>>) /\ UNCHANGED <<got, cmd, fed, out>>
  BY DEF addDataQueue, cmdvars
<1> QED BY <1>3, <1>4, <1>5 DEF Queue!MakeBuf, Queue!command

\* DROPBUF(n) and DESBUF(), of all the queues or of some of them.
LEMMA DropImplements ==
  ASSUME IInv, NEW i \in DropArgs, removeDataQueues(i)
  PROVE  Queue!DropBuf
<1>1. queues \in Lists /\ queues # <<>>
  BY DEF IInv, TypeOK, BaseQueueStays, Lists
<1>2. PICK n \in Nat \ {0} : n = Len(queues) /\ n = Last
  BY <1>1, EmptySeq DEF Lists, Last
<1>3. PICK z \in Seq(Nat) : z = Sizes(queues) /\ Len(z) = n
  BY <1>1, <1>2, SizesProperties
<1>4. PICK k \in 1..n : k = IF HowMany(i) >= n THEN n ELSE HowMany(i)
  <2>1. HowMany(i) \in Nat \ {0}
    BY <1>2, BoundsAreNat DEF HowMany
  <2>2. (IF HowMany(i) >= n THEN n ELSE HowMany(i)) \in 1..n
    BY <2>1
  <2> QED BY <2>2
<1>5. queues' = IF k = n THEN << <<>> >> ELSE SubSeq(queues, 1, n - k)
  <2>1. HowMany(i) \in Nat \ {0}
    BY <1>2, BoundsAreNat DEF HowMany
  <2>2. k = n <=> HowMany(i) >= n
    BY <1>4, <2>1
  <2> QED BY <1>2, <1>4, <2>2 DEF removeDataQueues, Remaining
<1>6. PICK p \in Seq(Lines) : /\ Joined(queues) = p \o Joined(SubSeq(queues, 1, n - k))
                              /\ Queue!Sum(SubSeq(z, 1, k)) = Len(p)
  <2>1. k \in 0..n
    OBVIOUS
  <2>2. PICK qs \in Lists : qs = queues
    BY <1>1
  <2>3. HoldFirst(qs, n, k)
    BY <1>2, <2>1, <2>2, NewestHoldFirst
  <2> QED BY <1>3, <2>2, <2>3 DEF HoldFirst
<1>7. PICK left \in Lists : left = SubSeq(queues, 1, n - k)
  <2>1. \A m \in 1..(n - k) : queues[m] \in Seq(Lines)
    <3>1. \A m \in 1..n : queues[m] \in Seq(Lines)
      BY <1>1, <1>2, ElementOfSeq DEF Lists
    <3>2. \A m \in 1..(n - k) : m \in 1..n
      OBVIOUS
    <3> QED BY <3>1, <3>2
  <2>2. SubSeq(queues, 1, n - k) \in Seq(Seq(Lines))
    BY <2>1, SubSeqProperties
  <2> QED BY <2>2 DEF Lists
<1>8. PICK j \in Seq(Lines) : j = Joined(left)
  BY JoinedType
<1>9. SubSeq(Joined(queues), Len(p) + 1, Len(Joined(queues))) = j
  BY <1>6, <1>7, <1>8, Apart
<1>10. Joined(queues)' = j
  <2>1. CASE k = n
    <3>1. left = <<>>
      BY <1>7, <2>1, SubSeqEmpty
    <3> QED BY <1>5, <1>8, <2>1, <3>1, OnlyBase, JoinedEmpty
  <2>2. CASE k # n
    BY <1>5, <1>7, <1>8, <2>2
  <2> QED BY <2>1, <2>2
<1>11. Sizes(queues)' = IF k = n THEN <<0>> ELSE SubSeq(z, k + 1, n)
  <2>1. CASE k = n
    BY <1>5, <2>1, OnlyBase
  <2>2. CASE k # n
    <3>1. k \in 0..(n - 1)
      BY <2>2
    <3>2. SubSeq(Sizes(queues), k + 1, n) = Sizes(SubSeq(queues, 1, n - k))
      BY <1>1, <1>2, <3>1, SizesLeft
    <3> QED BY <1>3, <1>5, <2>2, <3>2
  <2> QED BY <2>1, <2>2
<1>12. UNCHANGED <<got, cmd, fed, out>>
  BY DEF removeDataQueues, cmdvars
<1>13. UNCHANGED <<got, <<cmd.in, cmd.out, fed, out>> >>
  BY <1>12
<1> QED BY <1>3, <1>6, <1>9, <1>10, <1>11, <1>13 DEF Queue!DropBuf, Queue!command

-----------------------------------------------------------------------------
(* The steps of a command.                                                 *)

\* Between two commands nothing is left in the two files.
Quiet == cmd.step = "idle" => fed = <<>> /\ out = <<>>

\* The files are empty at the start...
LEMMA QuietInit == Init => Quiet
BY DEF Init, Quiet

\* ... and after every command.
LEMMA QuietNext == IInv /\ Quiet /\ [Next]_vars => Quiet'
<1> SUFFICES ASSUME IInv, Quiet, [Next]_vars PROVE Quiet'
  OBVIOUS
<1>1. CASE Program
  <2>1. UNCHANGED <<cmd, fed, out>>
    BY <1>1 DEF Program, enqueue, push, pullLine, pullConsole, addDataQueue, removeDataQueues,
                openStream, closeStream, cmdvars
  <2> QED BY <2>1 DEF Quiet
<1>2. CASE Command
  <2>1. ASSUME NEW i, NEW o, NEW r, execCommand(i, o, r) PROVE cmd'.step # "idle"
    BY <2>1 DEF execCommand
  <2>2. CASE redirectInNone \/ redirectInFails \/ restoreIn
    BY <2>2 DEF redirectInNone, redirectInFails, WithoutInput, restoreIn, IInv, TypeOK, Quiet
  <2>3. ASSUME NEW ok, redirectInOpen(ok) \/ redirectOut(ok) PROVE cmd'.step # "idle"
    BY <2>3 DEF redirectInOpen, redirectOut, IInv, TypeOK
  <2>4. ASSUME NEW ok, restoreOut(ok) PROVE Quiet'
    BY <2>4 DEF restoreOut, Quiet
  <2>5. ASSUME NEW written, system(written) PROVE cmd'.step # "idle"
    BY <2>5 DEF system, IInv, TypeOK
  <2> QED BY <1>2, <2>1, <2>2, <2>3, <2>4, <2>5 DEF Command, processCommand, processCall, Quiet
<1>3. CASE UNCHANGED vars
  BY <1>3 DEF vars, Quiet
<1> QED BY <1>1, <1>2, <1>3 DEF Next

\* The command begins.
LEMMA BeginImplements ==
  ASSUME Quiet, NEW i \in Modes, NEW o \in Modes, NEW r \in BOOLEAN, execCommand(i, o, r)
  PROVE  Queue!Begin
<1>1. cmd'.in = i /\ cmd'.out = o /\ UNCHANGED <<queues, got, fed, out>>
  BY DEF execCommand, Quiet
<1> QED BY <1>1 DEF Queue!Begin, Queue!queue, Queue!Modes, Modes

\* The current queue goes to the input file, from the back or from the front.
LEMMA FeedImplements ==
  ASSUME IInv, NEW readable \in BOOLEAN, redirectInOpen(readable)
  PROVE  Queue!Feed
<1>1. PICK old : Split(old)
  BY CanSplit
<1>2. PICK c \in Seq(Lines) : c = Cur
  BY <1>1 DEF Split
<1>3. queues' = RemoveCurrent(Append(old, <<>>))
  <2>1. <<>> \in Seq(Lines)
    BY EmptySeq
  <2> QED BY <1>1, <2>1 DEF redirectInOpen, AfterDrain, Split
<1>4. Joined(queues)' = Queue!Older /\ Sizes(queues)' = Queue!GiveUp
  BY <1>1, <1>3, NewestGivenUp
<1>5. fed' = IF cmd.in = "LIFO" THEN Queue!Current ELSE Queue!Backwards(Queue!Current)
  <2>1. Queue!Current = Backward(c)
    BY <1>1, <1>2 DEF Split
  <2>2. Queue!Backwards(Queue!Current) = c
    BY <2>1, SameBackward, BackwardTwice
  <2> QED BY <1>2, <2>1, <2>2 DEF redirectInOpen, Drained
<1>6. cmd.in # "NONE" /\ cmd'.in = cmd.in /\ cmd'.out = cmd.out /\ UNCHANGED <<got, out>>
  BY DEF redirectInOpen, IInv, TypeOK
<1> QED BY <1>4, <1>5, <1>6 DEF Queue!Feed

\* The input file could not be created.
LEMMA NotFedImplements ==
  ASSUME IInv, redirectInFails
  PROVE  Queue!NotFed
<1>1. cmd'.in = "NONE" /\ cmd'.out = cmd.out /\ UNCHANGED <<queues, got, fed, out>>
  BY DEF redirectInFails, WithoutInput, IInv, TypeOK
<1> QED BY <1>1 DEF Queue!NotFed, Queue!queue

\* The command writes.
LEMMA WriteImplements ==
  ASSUME IInv, NEW written \in Outputs, system(written)
  PROVE  Queue!Write
<1>1. <<>> \in Queue!Outputs
  <2>1. 0 \in 0..MaxOutput /\ <<>> \in [1..0 -> Lines]
    BY BoundsAreNat
  <2> QED BY <2>1 DEF Queue!Outputs
<1>2. written \in Queue!Outputs
  BY DEF Outputs, Queue!Outputs
<1>3. out' \in Queue!Outputs
  BY <1>1, <1>2 DEF system
<1>4. cmd'.in = cmd.in /\ cmd'.out = cmd.out /\ UNCHANGED <<queues, got, fed>>
  BY DEF system, IInv, TypeOK
<1> QED BY <1>3, <1>4 DEF Queue!Write, Queue!queue

\* The command ends: what it wrote is queued, stacked, the result, or lost.
LEMMA EndImplements ==
  ASSUME IInv, NEW readable \in BOOLEAN, restoreOut(readable)
  PROVE  Queue!End
<1>1. PICK old : Split(old)
  BY CanSplit
<1>2. PICK c \in Seq(Lines) : c = Cur
  BY <1>1 DEF Split
<1>3. PICK w \in Seq(Lines) : w = out
  BY DEF IInv, TypeOK
<1>4. cmd'.in = "NONE" /\ cmd'.out = "NONE" /\ fed' = <<>> /\ out' = <<>> /\ got' = got
  BY DEF restoreOut, Idle
<1>5. CASE queues' = queues
  BY <1>4, <1>5 DEF Queue!End
<1>6. CASE queues' # queues
  <2>1. PICK q : q = Filled(cmd.out)
    OBVIOUS
  <2>2. /\ cmd.out \in {"FIFO", "LIFO"}
        /\ queues' = [queues EXCEPT ![Last] = q]
    BY <1>6, <2>1 DEF restoreOut, IInv, TypeOK, Modes
  <2>3. q = IF cmd.out = "LIFO" THEN c \o w ELSE Backward(w) \o c
    BY <1>2, <1>3, <2>1 DEF Filled
  <2>4. Backward(w) \in Seq(Lines) /\ Len(Backward(w)) = Len(w) /\ Len(w) \in Nat /\ Len(c) \in Nat
    BY BackwardProperties, LenProperties
  <2>5. q \in Seq(Lines) /\ Len(q) = Len(c) + Len(w)
    <3>1. c \o w \in Seq(Lines) /\ Len(c \o w) = Len(c) + Len(w)
      BY ConcatProperties
    <3>2. Backward(w) \o c \in Seq(Lines) /\ Len(Backward(w) \o c) = Len(Backward(w)) + Len(c)
      BY <2>4, ConcatProperties
    <3> QED BY <2>3, <2>4, <3>1, <3>2
  <2>6. queues' = Append(old, q)
    BY <1>1, <2>2, <2>5 DEF Split
  <2>7. /\ Joined(queues)' = Backward(q) \o Joined(old)
        /\ Sizes(queues)' = [Sizes(queues) EXCEPT ![1] = Len(q)]
    BY <1>1, <2>5, <2>6, NewestReplaced, Zenon
  <2>8. Sizes(queues)' = [Sizes(queues) EXCEPT ![1] = @ + Len(out)]
    <3>1. Sizes(queues)[1] = Len(c)
      BY <1>1, <1>2 DEF Split
    <3> QED BY <1>3, <2>5, <2>7, <3>1
  <2>9. PICK b \in Seq(Lines) : b = Backward(c)
    BY BackwardType
  <2>10. PICK v \in Seq(Lines) : v = Backward(w)
    BY <2>4
  <2>11. PICK j \in Seq(Lines) : j = Joined(old)
    BY <1>1, JoinedType DEF Split
  <2>12. Joined(queues) = b \o j /\ Queue!Current = b /\ Queue!Older = j
    BY <1>1, <1>2, <2>9, <2>11 DEF Split
  <2>13. Joined(queues)' = Queue!Collected
    <3>1. CASE cmd.out = "LIFO"
      <4>1. Backward(c \o w) = v \o b
        BY <2>9, <2>10, BackwardConcat
      <4>2. (v \o b) \o j = v \o (b \o j)
        BY ConcatAssociative, SMTT(30)
      <4>3. Joined(queues)' = v \o Joined(queues)
        BY <2>3, <2>7, <2>11, <2>12, <3>1, <4>1, <4>2
      <4>4. Queue!Backwards(out) = v
        BY <1>3, <2>10, SameBackward
      <4> QED BY <3>1, <4>3, <4>4 DEF Queue!Collected
    <3>2. CASE cmd.out = "FIFO"
      <4>1. Backward(v \o c) = b \o w
        BY <2>9, <2>10, BackwardConcat, BackwardTwice
      <4>2. Joined(queues)' = b \o w \o j
        BY <2>3, <2>7, <2>10, <2>11, <3>2, <4>1
      <4> QED BY <1>3, <2>12, <3>2, <4>2 DEF Queue!Collected
    <3> QED BY <2>2, <3>1, <3>2
  <2>14. cmd.out # "NONE"
    BY <2>2
  <2> QED BY <1>4, <2>8, <2>13, <2>14, Zenon DEF Queue!End
<1> QED BY <1>5, <1>6

\* The other steps move descriptors only.
LEMMA OthersStutter ==
  ASSUME IInv, \/ redirectInNone \/ (\E ok \in BOOLEAN : redirectOut(ok)) \/ restoreIn
               \/ openStream \/ closeStream \/ UNCHANGED vars
  PROVE  UNCHANGED Queue!qvars
<1>1. UNCHANGED <<queues, got, fed, out>> /\ cmd'.in = cmd.in /\ cmd'.out = cmd.out
  BY DEF redirectInNone, redirectOut, restoreIn, openStream, closeStream, vars, IInv, TypeOK
<1> QED BY <1>1 DEF Queue!qvars, Queue!queue, Queue!command

-----------------------------------------------------------------------------
\* The initial state is one of RexxQueue.
LEMMA InitImplements == Init => Queue!Init
<1> SUFFICES ASSUME Init PROVE Queue!Init
  OBVIOUS
<1>1. queues = << <<>> >> /\ got = Console /\ fed = <<>> /\ out = <<>> /\ cmd.in = "NONE" /\ cmd.out = "NONE"
  BY DEF Init, Idle
<1> QED BY <1>1, OnlyBase DEF Queue!Init

\* Every step is one of RexxQueue, or changes nothing it sees.
LEMMA StepImplements == IInv /\ Quiet /\ [Next]_vars => [Queue!Next]_(Queue!qvars)
<1> SUFFICES ASSUME IInv, Quiet, [Next]_vars PROVE Queue!Next \/ UNCHANGED Queue!qvars
  OBVIOUS
<1>1. CASE Program
  <2>1. ASSUME NEW l \in Lines, enqueue(l) PROVE Queue!Next
    BY <2>1, QueueImplements DEF Queue!Next
  <2>2. ASSUME NEW l \in Lines, push(l) PROVE Queue!Next
    BY <2>2, PushImplements DEF Queue!Next
  <2>3. CASE pullLine
    BY <2>3, PullImplements DEF Queue!Next
  <2>4. CASE pullConsole
    BY <2>4, PullConsoleImplements DEF Queue!Next
  <2>5. CASE addDataQueue
    BY <2>5, MakeBufImplements DEF Queue!Next
  <2>6. ASSUME NEW i \in DropArgs, removeDataQueues(i) PROVE Queue!Next
    BY <2>6, DropImplements DEF Queue!Next
  <2>7. CASE openStream \/ closeStream
    BY <2>7, OthersStutter
  <2> QED BY <1>1, <2>1, <2>2, <2>3, <2>4, <2>5, <2>6, <2>7 DEF Program
<1>2. CASE Command
  <2>1. ASSUME NEW i \in Modes, NEW o \in Modes, NEW r \in BOOLEAN, execCommand(i, o, r)
        PROVE  Queue!Next
    BY <2>1, BeginImplements DEF Queue!Next
  <2>2. ASSUME NEW i \in Modes, NEW o \in Modes, processCommand(i, o) PROVE Queue!Next
    BY <2>1, <2>2 DEF processCommand
  <2>3. ASSUME NEW e \in BOOLEAN, processCall(e) PROVE Queue!Next
    BY <2>1, <2>3 DEF processCall, Modes
  <2>4. CASE redirectInFails
    BY <2>4, NotFedImplements DEF Queue!Next
  <2>5. ASSUME NEW ok \in BOOLEAN, redirectInOpen(ok) PROVE Queue!Next
    BY <2>5, FeedImplements DEF Queue!Next
  <2>6. ASSUME NEW ok \in BOOLEAN, restoreOut(ok) PROVE Queue!Next
    BY <2>6, EndImplements DEF Queue!Next
  <2>7. ASSUME NEW written \in Outputs, system(written) PROVE Queue!Next
    BY <2>7, WriteImplements DEF Queue!Next
  <2>8. CASE redirectInNone \/ (\E ok \in BOOLEAN : redirectOut(ok)) \/ restoreIn
    BY <2>8, OthersStutter
  <2> QED BY <1>2, <2>2, <2>3, <2>4, <2>5, <2>6, <2>7, <2>8 DEF Command
<1>3. CASE UNCHANGED vars
  BY <1>3, OthersStutter
<1> QED BY <1>1, <1>2, <1>3 DEF Next

\* The linked lists of lines and of queues, and the redirection of commands,
\* do what RexxQueue says of one queue of lines cut into buffers.
THEOREM Refinement == Spec => ImplementsRexxQueue
<1>1. Spec => []Quiet
  BY Invariance, QuietInit, QuietNext, PTL DEF Spec
<1> QED BY <1>1, Invariance, InitImplements, StepImplements, PTL
        DEF Spec, ImplementsRexxQueue, Queue!Spec
=============================================================================
