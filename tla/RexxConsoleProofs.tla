------------------------- MODULE RexxConsoleProofs -------------------------
(***************************************************************************)
(* Theorems about RexxConsole, for every size of the buffer and the pipe   *)
(* and every number of keys, characters and commands.                      *)
(***************************************************************************)
EXTENDS RexxConsole, SequenceTheorems, WellFoundedInduction, TLAPS

-----------------------------------------------------------------------------
(***************************************************************************)
(* The keys.  They move from inBuf to got, and every other step leaves     *)
(* them alone: the property is inductive, once the sequences have a type.  *)
(***************************************************************************)
Key == {"key"} \X Nat

Keys(n) == [i \in 1..n |-> <<"key", i>>]

KeyInv ==
  /\ got \in Seq(Key) /\ inBuf \in Seq(Key) /\ typed \in Nat
  /\ KeysOnceInOrder

\* The keys typed before, and one more.
LEMMA KeysNext ==
  ASSUME NEW n \in Nat
  PROVE  Append(Keys(n), <<"key", n + 1>>) = Keys(n + 1)
<1>1. Keys(n) \in Seq(Key) /\ Len(Keys(n)) = n
  <2>1. Keys(n) \in [1..n -> Key]
    BY DEF Keys, Key
  <2>2. QED BY <2>1, SeqDef, LenProperties
<1>2. Keys(n + 1) \in Seq(Key) /\ Len(Keys(n + 1)) = n + 1
  <2>1. Keys(n + 1) \in [1..(n + 1) -> Key]
    BY DEF Keys, Key
  <2>2. QED BY <2>1, SeqDef, LenProperties
<1>3. <<"key", n + 1>> \in Key
  BY DEF Key
<1>4. /\ Append(Keys(n), <<"key", n + 1>>) \in Seq(Key)
      /\ Len(Append(Keys(n), <<"key", n + 1>>)) = n + 1
      /\ \A i \in 1..n : Append(Keys(n), <<"key", n + 1>>)[i] = Keys(n)[i]
      /\ Append(Keys(n), <<"key", n + 1>>)[n + 1] = <<"key", n + 1>>
  BY <1>1, <1>3, AppendProperties
<1>5. \A i \in 1..(n + 1) : Append(Keys(n), <<"key", n + 1>>)[i] = Keys(n + 1)[i]
  <2>1. \A i \in 1..n : Keys(n)[i] = Keys(n + 1)[i]
    BY DEF Keys
  <2>2. Keys(n + 1)[n + 1] = <<"key", n + 1>>
    BY DEF Keys
  <2>3. \A i \in 1..(n + 1) : i \in 1..n \/ i = n + 1
    OBVIOUS
  <2>4. QED BY <1>4, <2>1, <2>2, <2>3
<1>6. QED BY <1>2, <1>4, <1>5, SeqEqual

\* A key is received: it comes after all the others.
LEMMA KeyTyped ==
  ASSUME KeyInv, OnKey
  PROVE  KeyInv'
<1>1. typed' = typed + 1 /\ got' = got /\ inBuf' = Append(inBuf, <<"key", typed + 1>>)
  BY DEF OnKey
<1>2. <<"key", typed + 1>> \in Key
  BY DEF KeyInv, Key
<1>3. inBuf' \in Seq(Key)
  BY <1>1, <1>2, AppendProperties DEF KeyInv
<1>4. got \o inBuf = Keys(typed)
  BY DEF KeyInv, KeysOnceInOrder, Keys
<1>5. got' \o inBuf' = Append(got \o inBuf, <<"key", typed + 1>>)
  <2>1. Append(inBuf, <<"key", typed + 1>>) = inBuf \o << <<"key", typed + 1>> >>
    BY <1>2, AppendIsConcat DEF KeyInv
  <2>2. got \o inBuf \in Seq(Key)
    BY ConcatProperties DEF KeyInv
  <2>3. << <<"key", typed + 1>> >> \in Seq(Key)
    BY <1>2
  <2>4. got \o (inBuf \o << <<"key", typed + 1>> >>) = (got \o inBuf) \o << <<"key", typed + 1>> >>
    BY <2>3, ConcatAssociative DEF KeyInv
  <2>5. QED BY <1>1, <1>2, <2>1, <2>2, <2>4, AppendIsConcat
<1>6. got' \o inBuf' = Keys(typed')
  BY <1>1, <1>4, <1>5, KeysNext DEF KeyInv
<1>7. got' \in Seq(Key) /\ typed' \in Nat
  BY <1>1 DEF KeyInv
<1>8. KeysOnceInOrder'
  BY <1>6 DEF KeysOnceInOrder, Keys
<1>9. QED BY <1>3, <1>7, <1>8 DEF KeyInv

\* A key is read: it was the first that waited.
LEMMA KeyRead ==
  ASSUME KeyInv, GetKey
  PROVE  KeyInv'
<1>1. typed' = typed
  BY DEF GetKey
<1>2. CASE inBuf = << >>
  BY <1>1, <1>2 DEF GetKey, KeyInv, KeysOnceInOrder
<1>3. CASE inBuf # << >>
  <2>1. got' = Append(got, Head(inBuf)) /\ inBuf' = Tail(inBuf)
    BY <1>3 DEF GetKey
  <2>2. Head(inBuf) \in Key /\ Tail(inBuf) \in Seq(Key)
    BY <1>3, HeadTailProperties DEF KeyInv
  <2>3. got' \in Seq(Key) /\ Append(got, Head(inBuf)) = got \o << Head(inBuf) >>
    BY <2>1, <2>2, AppendProperties, AppendIsConcat DEF KeyInv
  <2>4. << Head(inBuf) >> \o Tail(inBuf) = inBuf
    BY <1>3, <2>2, ConcatSimplifications, HeadTailProperties DEF KeyInv
  <2>5. (got \o << Head(inBuf) >>) \o Tail(inBuf) = got \o (<< Head(inBuf) >> \o Tail(inBuf))
    <3>1. << Head(inBuf) >> \in Seq(Key)
      BY <2>2
    <3>2. QED BY <2>2, <3>1, ConcatAssociative DEF KeyInv
  <2>6. got' \o inBuf' = got \o inBuf
    BY <2>1, <2>3, <2>4, <2>5
  <2>7. QED BY <1>1, <2>1, <2>2, <2>3, <2>6 DEF KeyInv, KeysOnceInOrder
<1>4. QED BY <1>2, <1>3

LEMMA KeyInit == Init => KeyInv
<1> SUFFICES ASSUME Init PROVE KeyInv
  OBVIOUS
<1>1. got = << >> /\ inBuf = << >> /\ typed = 0
  BY DEF Init
<1>2. << >> \in Seq(Key) /\ << >> \o << >> = << >>
  BY EmptySeq, ConcatEmptySeq
<1>3. [i \in 1..0 |-> <<"key", i>>] = << >>
  OBVIOUS
<1>4. QED BY <1>1, <1>2, <1>3 DEF KeyInv, KeysOnceInOrder

\* One step per action: those that do not touch the keys say so in their UNCHANGED.
LEMMA KeyNext == KeyInv /\ [Next]_vars => KeyInv'
<1> SUFFICES ASSUME KeyInv, [Next]_vars PROVE KeyInv'
  OBVIOUS
<1>1. CASE OnKey
  BY <1>1, KeyTyped
<1>2. CASE GetKey
  BY <1>2, KeyRead
<1>3. CASE UNCHANGED keyVars
  BY <1>3 DEF keyVars, KeyInv, KeysOnceInOrder
<1>4. ASSUME NEW t \in Threads, Output(t) PROVE UNCHANGED keyVars
  BY <1>4 DEF Output, PutTest, PutIndex, PutBump, PutStore, FlushTest, FlushCopy, FlushReset, FlushPost
<1>5. CASE Begin
  BY <1>3, <1>5 DEF Begin, Put, Get, System, Finish
<1>6. CASE GetTimeout \/ Start \/ StartFails \/ WaitFor
  BY <1>3, <1>6 DEF GetTimeout, Start, StartFails, WaitFor
<1>7. CASE Read \/ Assign \/ ReadDone
  BY <1>3, <1>7 DEF Read, Assign, ReadDone
<1>8. CASE ProcWrites \/ Show
  BY <1>3, <1>8 DEF ProcWrites, Show
<1>9. CASE UNCHANGED vars
  BY <1>3, <1>9 DEF vars
<1>10. QED BY <1>1, <1>2, <1>3, <1>4, <1>5, <1>6, <1>7, <1>8, <1>9 DEF Next, Continue, Threads

\* Every key typed is read once and in order, or still waits to be (RexxConsole.java:
\* 162-178, 223-226).
THEOREM KeysAlwaysOnceInOrder == Spec => []KeysOnceInOrder
<1>1. KeyInv => KeysOnceInOrder
  BY DEF KeyInv
<1>2. QED BY KeyInit, KeyNext, <1>1, PTL DEF Spec

-----------------------------------------------------------------------------
(***************************************************************************)
(* The output buffer.  A thread is stuck when it is about to store past    *)
(* the end: its next step ends the application.  Each of the two threads   *)
(* can push pos past the end once, and is stuck from then on; so pos       *)
(* exceeds the buffer by two at most.  As long as the threads never met in *)
(* the output code, the one that is there is alone, and knows pos.         *)
(***************************************************************************)
Data == [buf : [0..(Size - 1) -> Chars], char : [Threads -> Chars],
         text : [Threads -> Seq(Chars)], posted : Seq(Seq(Chars)), shown : Seq(Chars)]

Shape ==
  /\ data \in Data
  /\ pos \in -1..(Size + 2)
  /\ reg \in [Threads -> -1..(Size + 1)]
  /\ pc \in [Threads -> RexxPlaces \union PutPlaces]
  /\ pc["ui"] \in {"run"} \union PutPlaces
  /\ ret \in [Threads -> {"run", "index", "key", "start", "read", "done"}]
  /\ ret["ui"] \in {"run", "index"}
  /\ proc \in [pipe : Seq(Chars), left : Nat, printed : Nat, isRexx : BOOLEAN]
  /\ typed \in 0..MaxKeys /\ written \in 0..MaxOut /\ commands \in 0..MaxCommands
  /\ crashed \in BOOLEAN /\ overlapped \in BOOLEAN

Stuck(t) == pc[t] = "store" /\ reg[t] >= Size

Positions ==
  /\ pos > Size => \E t \in Threads : Stuck(t)
  /\ pos > Size + 1 => \A t \in Threads : Stuck(t)
  /\ \A t \in Threads : pc[t] = "bump" /\ reg[t] > Size => \A u \in Threads \ {t} : Stuck(u)
  /\ pc["rexx"] = "assign" => reg["rexx"] <= Size

Alone ==
  /\ ~crashed
  /\ \E t \in Threads : ~Busy(pc[t])
  /\ pos \in 0..Size \/ (pos = -1 /\ pc["rexx"] = "readDone")
  /\ \A t \in Threads :
       /\ pc[t] \in {"index", "bump"} => pos < Size
       /\ pc[t] = "bump" => reg[t] = pos
       /\ pc[t] = "store" => reg[t] \in 0..(Size - 1)
       /\ pc[t] = "post" => pos = 0

\* A command that System has let begin is within the bound.
Begun ==
  pc["rexx"] = "start" \/ (pc["rexx"] \in {"flush", "copy", "reset", "post"} /\ ret["rexx"] = "start")
    => commands < MaxCommands

BufferInv ==
  /\ Shape /\ Begun
  /\ ~crashed => Positions
  /\ ~overlapped => Alone

LEMMA NoDataTyped == NoData \in Data
<1>1. Nothing \in Chars
  BY DEF Nothing, Chars
<1>2. QED BY <1>1, EmptySeq DEF Data, NoData

\* Whatever an action records of the characters has the shape of data.
LEMMA Held ==
  ASSUME NEW d \in Data, Hold(d)
  PROVE  data' \in Data
BY NoDataTyped DEF Hold

LEMMA TextMoved ==
  ASSUME NEW d \in Data, NEW t \in Threads, NEW p \in Seq(Seq(Chars)), NEW s \in Seq(Chars)
  PROVE  /\ [d EXCEPT !.shown = s, !.text[t] = << >>] \in Data
         /\ [d EXCEPT !.posted = p, !.text[t] = << >>] \in Data
         /\ [d EXCEPT !.shown = s, !.posted = p] \in Data
BY EmptySeq DEF Data

\* The actions of a thread in the output code keep the shape of the state.
LEMMA ShapeOutput ==
  ASSUME BufferInv, NEW t \in Threads, Output(t)
  PROVE  Shape'
<1>0. Size \in Nat \ {0} /\ t \in {"rexx", "ui"} /\ ~crashed
  BY SizesAreNat DEF Threads, Output, PutTest, PutIndex, PutBump, PutStore, FlushTest, FlushCopy,
     FlushReset, FlushPost, Step, Call, Goto
<1>1. Shape /\ Positions
  BY <1>0 DEF BufferInv
<1>2. pc' \in [Threads -> RexxPlaces \union PutPlaces] /\ pc'["ui"] \in {"run"} \union PutPlaces
  BY <1>0, <1>1 DEF Shape, Output, PutTest, PutIndex, PutBump, PutStore, FlushTest, FlushCopy,
     FlushReset, FlushPost, Step, Call, Goto, PutPlaces, RexxPlaces, Threads
<1>3. ret' \in [Threads -> {"run", "index", "key", "start", "read", "done"}] /\ ret'["ui"] \in {"run", "index"}
  BY <1>0, <1>1 DEF Shape, Output, PutTest, PutIndex, PutBump, PutStore, FlushTest, FlushCopy,
     FlushReset, FlushPost, Step, Call, Threads
<1>4. overlapped' \in BOOLEAN
  BY <1>1 DEF Shape, Output, PutTest, PutIndex, PutBump, PutStore, FlushTest, FlushCopy,
     FlushReset, FlushPost, Step, Call, Goto
<1>5. crashed' \in BOOLEAN
  BY <1>1 DEF Shape, Output, PutTest, PutIndex, PutBump, PutStore, FlushTest, FlushCopy,
     FlushReset, FlushPost
<1>6. UNCHANGED <<proc, commands, typed, written>>
  BY DEF Output, PutTest, PutIndex, PutBump, PutStore, FlushTest, FlushCopy,
     FlushReset, FlushPost, outVars, keyVars, procVars
<1>7. pos' \in -1..(Size + 2) /\ reg' \in [Threads -> -1..(Size + 1)]
  <2>1. CASE PutIndex(t)
    <3>1. pc[t] = "index" /\ pos' = pos /\ reg' = [reg EXCEPT ![t] = pos]
      BY <2>1 DEF PutIndex, Step, Goto
    <3>2. ~(pos > Size + 1)
      BY <1>1, <3>1 DEF Positions, Stuck
    <3>3. QED BY <1>0, <1>1, <3>1, <3>2 DEF Shape
  <2>2. CASE PutBump(t)
    <3>1. pc[t] = "bump" /\ pos' = reg[t] + 1 /\ reg' = reg
      BY <2>2 DEF PutBump, Step, Goto
    <3>2. reg[t] \in -1..(Size + 1)
      BY <1>1 DEF Shape
    <3>3. QED BY <1>0, <1>1, <3>1, <3>2 DEF Shape
  <2>3. CASE PutStore(t)
    BY <1>0, <1>1, <2>3 DEF Shape, PutStore
  <2>4. CASE FlushReset(t)
    BY <1>0, <1>1, <2>4 DEF Shape, FlushReset
  <2>5. CASE PutTest(t) \/ FlushTest(t) \/ FlushCopy(t) \/ FlushPost(t)
    BY <1>1, <2>5 DEF Shape, PutTest, FlushTest, FlushCopy, FlushPost, outVars
  <2>6. QED BY <2>1, <2>2, <2>3, <2>4, <2>5 DEF Output
<1>8. data' \in Data
  <2>1. data \in Data /\ reg[t] \in -1..(Size + 1)
    BY <1>1 DEF Shape
  <2>2. CASE PutStore(t)
    <3>1. CASE crashed'
      BY <2>1, <2>2, <3>1, Held DEF PutStore
    <3>2. CASE ~crashed'
      <4>1. reg[t] \in 0..(Size - 1)
        BY <2>2, <3>2 DEF PutStore
      <4>2. Nothing \in Chars
        BY DEF Nothing, Chars
      <4>3. [data EXCEPT !.buf[reg[t]] = data.char[t], !.char[t] = Nothing] \in Data
        BY <2>1, <4>1, <4>2 DEF Data
      <4>4. QED BY <2>2, <3>2, <4>3, Held DEF PutStore
    <3>3. QED BY <3>1, <3>2
  <2>3. CASE FlushCopy(t)
    <3>1. CASE overlapped'
      BY <2>3, <3>1, NoDataTyped DEF FlushCopy, Hold
    <3>2. CASE ~overlapped'
      <4>1. pos \in 0..Size
        BY <1>0, <1>1, <2>3, <3>2 DEF BufferInv, Alone, FlushCopy, Step, Goto, Threads, Busy
      <4>2. \A i \in 1..pos : data.buf[i - 1] \in Chars
        BY <1>0, <2>1, <4>1 DEF Data
      <4>3. [i \in 1..pos |-> data.buf[i - 1]] \in Seq(Chars)
        <5>1. [i \in 1..pos |-> data.buf[i - 1]] \in [1..pos -> Chars]
          BY <4>2
        <5>2. QED BY <1>0, <4>1, <5>1, SeqDef
      <4>4. \A s \in Seq(Chars) : [data EXCEPT !.text[t] = s] \in Data
        BY <2>1 DEF Data
      <4>5. [data EXCEPT !.text[t] = [i \in 1..pos |-> data.buf[i - 1]]] \in Data
        BY <4>3, <4>4, Zenon
      <4>6. QED BY <2>3, <4>5, Held DEF FlushCopy
    <3>3. QED BY <3>1, <3>2
  <2>4. CASE FlushPost(t)
    <3>1. data.text[t] \in Seq(Chars) /\ data.shown \in Seq(Chars) /\ data.posted \in Seq(Seq(Chars))
      BY <2>1 DEF Data
    <3>2. data.shown \o data.text[t] \in Seq(Chars)
      BY <3>1, ConcatProperties
    <3>3. Append(data.posted, data.text[t]) \in Seq(Seq(Chars))
      BY <3>1, AppendProperties
    <3>4. [data EXCEPT !.shown = @ \o data.text[t], !.text[t] = << >>] \in Data
      BY <2>1, <3>1, <3>2, TextMoved, Zenon
    <3>5. [data EXCEPT !.posted = Append(@, data.text[t]), !.text[t] = << >>] \in Data
      BY <2>1, <3>1, <3>3, TextMoved, Zenon
    <3>6. QED BY <2>4, <3>4, <3>5, Held DEF FlushPost
  <2>5. CASE PutTest(t) \/ PutIndex(t) \/ PutBump(t) \/ FlushTest(t) \/ FlushReset(t)
    BY <2>1, <2>5, Held DEF PutTest, PutIndex, PutBump, FlushTest, FlushReset
  <2>6. QED BY <2>2, <2>3, <2>4, <2>5 DEF Output
<1>9. QED BY <1>1, <1>2, <1>3, <1>4, <1>5, <1>6, <1>7, <1>8 DEF Shape

\* So do those of the interpreter and the command, and the main thread's.
LEMMA ShapeOther ==
  ASSUME BufferInv,
         Begin \/ GetKey \/ GetTimeout \/ Start \/ StartFails \/ WaitFor \/ ProcWrites \/ Show \/ OnKey
  PROVE  Shape'
<1>0. /\ Size \in Nat \ {0} /\ MaxOut \in Nat /\ MaxKeys \in Nat /\ MaxCommands \in Nat
      /\ Lengths \subseteq Nat /\ Threads = {"rexx", "ui"} /\ Shape /\ data \in Data
  BY SizesAreNat DEF Threads, BufferInv, Shape
<1>1. CASE Put
  <2>1. <<"rexx", written'>> \in Chars
    <3>1. written' \in Nat
      BY <1>0, <1>1 DEF Put, Shape
    <3>2. QED BY <3>1 DEF Chars
  <2>2. [data EXCEPT !.char["rexx"] = <<"rexx", written'>>] \in Data
    BY <1>0, <2>1 DEF Data
  <2>3. data' \in Data
    BY <1>1, <2>2, Held DEF Put
  <2>4. QED BY <1>0, <1>1, <2>3, SMTT(30) DEF Put, Step, Goto, Shape, keyVars, procVars, PutPlaces, RexxPlaces
<1>2. CASE OnKey
  <2>1. <<"key", typed'>> \in Chars
    BY <1>0, <1>2, SMTT(30) DEF OnKey, Chars, Shape
  <2>2. [data EXCEPT !.char["ui"] = <<"key", typed'>>] \in Data
    BY <1>0, <2>1 DEF Data
  <2>3. data' \in Data
    BY <1>2, <2>2, Held DEF OnKey
  <2>4. pc' \in [Threads -> RexxPlaces \union PutPlaces] /\ pc'["ui"] \in {"run"} \union PutPlaces
    BY <1>0, <1>2 DEF OnKey, Shape, PutPlaces, RexxPlaces
  <2>5. QED BY <1>0, <1>2, <2>3, <2>4, SMTT(30) DEF OnKey, Shape, outVars, procVars
<1>3. CASE Show
  <2>1. data.posted \in Seq(Seq(Chars)) /\ data.posted # << >> /\ data.shown \in Seq(Chars)
    BY <1>0, <1>3 DEF Show, Data
  <2>2. Head(data.posted) \in Seq(Chars) /\ Tail(data.posted) \in Seq(Seq(Chars))
    BY <2>1, HeadTailProperties
  <2>3. data.shown \o Head(data.posted) \in Seq(Chars)
    BY <2>1, <2>2, ConcatProperties
  <2>4. [data EXCEPT !.shown = @ \o Head(data.posted), !.posted = Tail(@)] \in Data
    BY <1>0, <2>2, <2>3, TextMoved, Zenon DEF Threads
  <2>5. QED BY <1>0, <1>3, <2>4 DEF Show, Shape, outVars, keyVars, procVars
<1>4. CASE Get \/ System \/ Finish \/ GetKey \/ GetTimeout
  <2>1. data' \in Data
    BY <1>0, <1>4, Held DEF Get, System, Finish, GetKey, GetTimeout
  <2>2. pc' \in [Threads -> RexxPlaces \union PutPlaces] /\ pc'["ui"] = pc["ui"]
        /\ overlapped' \in BOOLEAN
    BY <1>0, <1>4, ZenonT(40) DEF Get, System, Finish, GetKey, GetTimeout, Step, Call, Goto, Shape, PutPlaces, RexxPlaces
  <2>3. /\ ret' \in [Threads -> {"run", "index", "key", "start", "read", "done"}]
        /\ ret'["ui"] = ret["ui"]
    BY <1>0, <1>4 DEF Get, System, Finish, GetKey, GetTimeout, Step, Call, Shape
  <2>4. UNCHANGED <<outVars, typed, procVars, crashed>>
    BY <1>4 DEF Get, System, Finish, GetKey, GetTimeout, keyVars
  <2>5. QED BY <1>0, <2>1, <2>2, <2>3, <2>4 DEF Shape, outVars, procVars
<1>5. CASE Start \/ StartFails \/ WaitFor
  <2>1. data' \in Data
    BY <1>0, <1>5, Held DEF Start, StartFails, WaitFor
  <2>2. pc' \in [Threads -> RexxPlaces \union PutPlaces] /\ pc'["ui"] = pc["ui"]
        /\ overlapped' \in BOOLEAN /\ ret' = ret
    BY <1>0, <1>5, ZenonT(40) DEF Start, StartFails, WaitFor, Step, Goto, Shape, PutPlaces, RexxPlaces
  <2>3. proc' \in [pipe : Seq(Chars), left : Nat, printed : Nat, isRexx : BOOLEAN]
    <3>1. << >> \in Seq(Chars)
      BY EmptySeq
    <3>2. \A n \in Lengths, isRexx \in BOOLEAN :
            [pipe |-> << >>, left |-> n, printed |-> 0, isRexx |-> isRexx]
              \in [pipe : Seq(Chars), left : Nat, printed : Nat, isRexx : BOOLEAN]
      BY <1>0, <3>1
    <3>3. NoProc \in [pipe : Seq(Chars), left : Nat, printed : Nat, isRexx : BOOLEAN]
      BY <3>1 DEF NoProc
    <3>4. QED BY <1>0, <1>5, <3>2, <3>3, Zenon DEF Start, StartFails, WaitFor, Shape
  <2>4. commands' \in 0..MaxCommands
    BY <1>0, <1>5 DEF Start, StartFails, WaitFor, Step, Goto, Shape, BufferInv, Begun
  <2>5. UNCHANGED <<outVars, typed, crashed>>
    BY <1>5 DEF Start, StartFails, WaitFor, keyVars
  <2>6. QED BY <1>0, <2>1, <2>2, <2>3, <2>4, <2>5 DEF Shape, outVars
<1>6. CASE ProcWrites
  <2>1. /\ proc \in [pipe : Seq(Chars), left : Nat, printed : Nat, isRexx : BOOLEAN] /\ proc.left > 0
        /\ proc' = [proc EXCEPT !.pipe = Append(@, <<"proc", proc.printed + 1>>),
                                !.left = @ - 1, !.printed = @ + 1]
    BY <1>0, <1>6 DEF ProcWrites, Shape
  <2>2. Append(proc.pipe, <<"proc", proc.printed + 1>>) \in Seq(Chars)
    <3>1. <<"proc", proc.printed + 1>> \in Chars
      BY <2>1 DEF Chars
    <3>2. QED BY <2>1, <3>1, AppendProperties
  <2>3. \A q \in Seq(Chars), l \in Nat, n \in Nat :
          [proc EXCEPT !.pipe = q, !.left = l, !.printed = n]
             \in [pipe : Seq(Chars), left : Nat, printed : Nat, isRexx : BOOLEAN]
    BY <2>1
  <2>4. proc.left - 1 \in Nat /\ proc.printed + 1 \in Nat
    BY <2>1
  <2>5. proc' \in [pipe : Seq(Chars), left : Nat, printed : Nat, isRexx : BOOLEAN]
    BY <2>1, <2>2, <2>3, <2>4, Zenon
  <2>6. QED BY <1>0, <1>6, <2>5 DEF ProcWrites, Shape, outVars, keyVars
<1>7. QED BY <1>1, <1>2, <1>3, <1>4, <1>5, <1>6 DEF Begin

\* The output of a command is read straight into the buffer.
LEMMA ShapeRead ==
  ASSUME BufferInv, Read \/ Assign \/ ReadDone
  PROVE  Shape'
<1>0. /\ Size \in Nat \ {0} /\ Threads = {"rexx", "ui"} /\ Shape /\ data \in Data
  BY SizesAreNat DEF Threads, BufferInv, Shape
<1>1. CASE Read
  <2> DEFINE n == IF Len(proc.pipe) < Size THEN Len(proc.pipe) ELSE Size
  <2> DEFINE b == [i \in DOMAIN data.buf |-> IF i < n THEN proc.pipe[i + 1] ELSE data.buf[i]]
  <2>1. /\ proc \in [pipe : Seq(Chars), left : Nat, printed : Nat, isRexx : BOOLEAN]
        /\ data.buf \in [0..(Size - 1) -> Chars]
    BY <1>0 DEF Shape, Data
  <2>2. proc.pipe \in Seq(Chars) /\ n \in 0..Size /\ n <= Len(proc.pipe) /\ Len(proc.pipe) \in Nat
    <3>1. proc.pipe \in Seq(Chars) /\ Len(proc.pipe) \in Nat
      BY <2>1, LenProperties
    <3>2. QED BY <1>0, <3>1
  <2>3. b \in [0..(Size - 1) -> Chars]
    <3>1. \A i \in 0..(Size - 1) : i < n => i + 1 \in 1..Len(proc.pipe)
      BY <1>0, <2>2
    <3>2. \A i \in 1..Len(proc.pipe) : proc.pipe[i] \in Chars
      BY <2>2, ElementOfSeq
    <3>3. \A i \in 0..(Size - 1) : i < n => proc.pipe[i + 1] \in Chars
      BY <3>1, <3>2
    <3>4. QED BY <2>1, <3>3
  <2>4. [data EXCEPT !.buf = b] \in Data
    <3>1. \A c \in [0..(Size - 1) -> Chars] : [data EXCEPT !.buf = c] \in Data
      BY <1>0 DEF Data
    <3>2. QED BY <2>3, <3>1, Zenon
  <2>5. data' \in Data
    <3>1. Hold([data EXCEPT !.buf = b])
      BY <1>1, Zenon DEF Read
    <3>2. QED BY <2>4, <3>1, Held, Zenon
  <2>6. reg' \in [Threads -> -1..(Size + 1)]
    <3>1. reg' = [reg EXCEPT !["rexx"] = IF n = 0 THEN -1 ELSE n]
      BY <1>1, Zenon DEF Read
    <3>2. QED BY <1>0, <2>2, <3>1 DEF Shape
  <2>7. proc' \in [pipe : Seq(Chars), left : Nat, printed : Nat, isRexx : BOOLEAN]
    <3>1. proc' = [proc EXCEPT !.pipe = SubSeq(proc.pipe, n + 1, Len(proc.pipe))]
      BY <1>1, Zenon DEF Read
    <3>2. SubSeq(proc.pipe, n + 1, Len(proc.pipe)) \in Seq(Chars)
      BY <2>2, SubSeqProperties
    <3>3. \A q \in Seq(Chars) : [proc EXCEPT !.pipe = q]
             \in [pipe : Seq(Chars), left : Nat, printed : Nat, isRexx : BOOLEAN]
      BY <2>1
    <3>4. QED BY <3>1, <3>2, <3>3, Zenon
  <2>8. /\ pc' \in [Threads -> RexxPlaces \union PutPlaces] /\ pc'["ui"] = pc["ui"]
        /\ overlapped' \in BOOLEAN /\ ret' = ret
    BY <1>0, <1>1 DEF Read, Step, Goto, Shape, PutPlaces, RexxPlaces
  <2>9. UNCHANGED <<pos, written, typed, commands, crashed>>
    BY <1>1 DEF Read, keyVars
  <2>10. QED BY <1>0, <2>5, <2>6, <2>7, <2>8, <2>9 DEF Shape
<1>2. CASE Assign
  <2>1. data' \in Data
    BY <1>0, <1>2, Held DEF Assign
  <2>2. /\ pc' \in [Threads -> RexxPlaces \union PutPlaces] /\ pc'["ui"] = pc["ui"]
        /\ overlapped' \in BOOLEAN
    <3>1. CASE reg["rexx"] = -1
      BY <1>0, <1>2, <3>1 DEF Assign, Step, Goto, Shape, PutPlaces, RexxPlaces
    <3>2. CASE reg["rexx"] # -1
      BY <1>0, <1>2, <3>2 DEF Assign, Call, Goto, Shape, PutPlaces, RexxPlaces
    <3>3. QED BY <3>1, <3>2
  <2>3. /\ ret' \in [Threads -> {"run", "index", "key", "start", "read", "done"}]
        /\ ret'["ui"] = ret["ui"]
    BY <1>0, <1>2 DEF Assign, Step, Call, Shape
  <2>4. pos' \in -1..(Size + 2) /\ reg' \in [Threads -> -1..(Size + 1)]
    BY <1>0, <1>2 DEF Assign, Shape
  <2>5. UNCHANGED <<written, typed, procVars, crashed>>
    BY <1>2 DEF Assign, keyVars
  <2>6. QED BY <1>0, <2>1, <2>2, <2>3, <2>4, <2>5 DEF Shape, procVars
<1>3. CASE ReadDone
  <2>1. data' \in Data
    BY <1>0, <1>3, Held DEF ReadDone
  <2>2. NoProc \in [pipe : Seq(Chars), left : Nat, printed : Nat, isRexx : BOOLEAN]
    BY EmptySeq DEF NoProc
  <2>3. /\ pc' \in [Threads -> RexxPlaces \union PutPlaces] /\ pc'["ui"] = pc["ui"]
        /\ overlapped' \in BOOLEAN /\ ret' = ret
    BY <1>0, <1>3 DEF ReadDone, Step, Goto, Shape, PutPlaces, RexxPlaces
  <2>4. pos' = 0 /\ proc' = NoProc /\ UNCHANGED <<reg, written, typed, commands, crashed>>
    BY <1>3 DEF ReadDone, keyVars
  <2>5. QED BY <1>0, <2>1, <2>2, <2>3, <2>4 DEF Shape
<1>4. QED BY <1>1, <1>2, <1>3

\* Where the threads go keeps what System has tested.
LEMMA BegunNext ==
  ASSUME BufferInv, [Next]_vars
  PROVE  Begun'
<1>0. Shape /\ Begun /\ Threads = {"rexx", "ui"} /\ MaxCommands \in Nat
  BY SizesAreNat DEF BufferInv, Threads
<1>1. ASSUME NEW t \in Threads, Output(t) PROVE Begun'
  <2>1. CASE PutTest(t) \/ PutIndex(t) \/ PutBump(t) \/ PutStore(t)
    BY <1>0, <1>1, <2>1 DEF PutTest, PutIndex, PutBump, PutStore, Step, Call, Goto, Shape, Begun,
       procVars
  <2>2. CASE FlushTest(t) \/ FlushCopy(t) \/ FlushReset(t) \/ FlushPost(t)
    BY <1>0, <1>1, <2>2 DEF FlushTest, FlushCopy, FlushReset, FlushPost, Step, Goto, Shape, Begun,
       procVars
  <2>3. QED BY <1>1, <2>1, <2>2 DEF Output
<1>2. CASE Begin \/ GetKey \/ GetTimeout
  BY <1>0, <1>2 DEF Begin, Put, Get, System, Finish, GetKey, GetTimeout, Step, Call, Goto, Shape,
     Begun, procVars
<1>3. CASE Start \/ StartFails \/ WaitFor
  BY <1>0, <1>3 DEF Start, StartFails, WaitFor, Step, Goto, Shape, Begun
<1>4. CASE Read \/ ReadDone
  BY <1>0, <1>4 DEF Read, ReadDone, Step, Goto, Shape, Begun
<1>5. CASE Assign
  <2>1. CASE reg["rexx"] = -1
    BY <1>0, <1>5, <2>1 DEF Assign, Step, Goto, Shape, Begun
  <2>2. CASE reg["rexx"] # -1
    BY <1>0, <1>5, <2>2 DEF Assign, Call, Goto, Shape, Begun
  <2>3. QED BY <2>1, <2>2
<1>6. CASE ProcWrites \/ Show \/ OnKey
  BY <1>0, <1>6 DEF ProcWrites, Show, OnKey, Shape, Begun, procVars
<1>7. CASE UNCHANGED vars
  BY <1>0, <1>7 DEF Begun, vars, procVars
<1>8. QED BY <1>1, <1>2, <1>3, <1>4, <1>5, <1>6, <1>7 DEF Next, Continue, Threads

\* As long as nothing crashed, pos leaves the buffer only with a stuck thread for
\* every place it is past the end; and a stuck thread stays so.
LEMMA PositionsNext ==
  ASSUME BufferInv, [Next]_vars
  PROVE  ~crashed' => Positions'
<1> SUFFICES ASSUME ~crashed' PROVE Positions'
  OBVIOUS
<1>0. Shape /\ Threads = {"rexx", "ui"} /\ Size \in Nat \ {0}
  BY SizesAreNat DEF BufferInv, Threads
<1>1. ~crashed /\ Positions
  <2>1. ~crashed
    BY DEF Next, Begin, Continue, Output, PutTest, PutIndex, PutBump, PutStore, FlushTest, FlushCopy,
       FlushReset, FlushPost, Put, Get, System, Finish, GetKey, GetTimeout, Start, StartFails, WaitFor,
       Read, Assign, ReadDone, ProcWrites, Show, OnKey, Step, Call, Goto, vars
  <2>2. QED BY <2>1 DEF BufferInv
<1>2. ASSUME NEW t \in Threads, PutIndex(t) PROVE Positions'
  BY <1>0, <1>1, <1>2 DEF PutIndex, Step, Goto, Shape, Positions, Stuck
<1>3. ASSUME NEW t \in Threads, PutBump(t) PROVE Positions'
  BY <1>0, <1>1, <1>3 DEF PutBump, Step, Goto, Shape, Positions, Stuck
<1>4. ASSUME NEW t \in Threads, PutStore(t) PROVE Positions'
  <2>1. reg[t] \in 0..(Size - 1) /\ pc[t] = "store" /\ pos' = pos /\ reg' = [reg EXCEPT ![t] = 0]
    BY <1>0, <1>4 DEF PutStore, Step, Call, Goto
  <2>2. pc' = [pc EXCEPT ![t] = IF t = "ui" THEN "flush" ELSE "run"]
    BY <1>0, <1>4 DEF PutStore, Step, Call, Goto
  <2>3. QED BY <1>0, <1>1, <2>1, <2>2 DEF Shape, Positions, Stuck
<1>5. ASSUME NEW t \in Threads, FlushReset(t) PROVE Positions'
  BY <1>0, <1>1, <1>5 DEF FlushReset, Step, Goto, Shape, Positions, Stuck
<1>6. ASSUME NEW t \in Threads, PutTest(t) \/ FlushTest(t) \/ FlushCopy(t) \/ FlushPost(t) PROVE Positions'
  <2>1. UNCHANGED <<pos, reg>> /\ pc[t] \in {"put", "flush", "copy", "post"}
    BY <1>6 DEF PutTest, FlushTest, FlushCopy, FlushPost, Step, Call, Goto, outVars
  <2>2. PICK q \in {"flush", "index", "copy", "reset"} \union {ret[t]} : pc' = [pc EXCEPT ![t] = q]
    BY <1>6, <2>1 DEF PutTest, FlushTest, FlushCopy, FlushPost, Step, Call, Goto
  <2>3. q \notin {"store", "bump", "assign"}
    BY <1>0, <2>2 DEF Shape
  <2>4. QED BY <1>0, <1>1, <2>1, <2>2, <2>3 DEF Shape, Positions, Stuck
<1>7. CASE Begin \/ GetKey \/ GetTimeout \/ Start \/ StartFails \/ WaitFor
  BY <1>0, <1>1, <1>7 DEF Begin, Put, Get, System, Finish, GetKey, GetTimeout, Start, StartFails,
     WaitFor, Step, Call, Goto, Shape, Positions, Stuck, outVars
<1>8. CASE Read
  <2>1. \E n \in 0..Size : reg' = [reg EXCEPT !["rexx"] = IF n = 0 THEN -1 ELSE n]
    <3>1. Len(proc.pipe) \in Nat
      BY <1>0, LenProperties DEF Shape
    <3>2. \E n \in 0..Size : n = IF Len(proc.pipe) < Size THEN Len(proc.pipe) ELSE Size
      BY <1>0, <3>1
    <3>3. QED BY <1>8, <3>2, Zenon DEF Read
  <2>2. pos' = pos /\ pc["rexx"] = "read" /\ pc' = [pc EXCEPT !["rexx"] = "assign"]
    BY <1>8 DEF Read, Step, Goto
  <2>3. QED BY <1>0, <1>1, <2>1, <2>2 DEF Shape, Positions, Stuck
<1>9. CASE Assign
  <2>1. pos' = reg["rexx"] /\ reg' = [reg EXCEPT !["rexx"] = 0] /\ pc["rexx"] = "assign"
    BY <1>9 DEF Assign, Step, Call, Goto
  <2>2. pc' = [pc EXCEPT !["rexx"] = IF reg["rexx"] = -1 THEN "readDone" ELSE "flush"]
    BY <1>9 DEF Assign, Step, Call, Goto
  <2>3. QED BY <1>0, <1>1, <2>1, <2>2 DEF Shape, Positions, Stuck
<1>10. CASE ReadDone
  BY <1>0, <1>1, <1>10 DEF ReadDone, Step, Goto, Shape, Positions, Stuck
<1>11. CASE ProcWrites \/ Show \/ OnKey
  BY <1>0, <1>1, <1>11 DEF ProcWrites, Show, OnKey, Shape, Positions, Stuck, outVars
<1>12. CASE UNCHANGED vars
  BY <1>1, <1>12 DEF Positions, Stuck, vars, outVars
<1>13. ASSUME NEW t \in Threads, Output(t) PROVE Positions'
  BY <1>13, <1>2, <1>3, <1>4, <1>5, <1>6 DEF Output
<1>14. QED
  BY <1>13, <1>7, <1>8, <1>9, <1>10, <1>11, <1>12 DEF Next, Continue, Threads

\* Two threads in the output code are noticed.
LEMMA MeetingsNoticed ==
  ASSUME NEW t \in Threads, NEW p, NEW q, Goto(t, p, q), ~overlapped'
  PROVE  ~overlapped /\ \E u \in Threads : ~Busy(pc'[u])
BY DEF Goto

\* A thread that is alone in the output code knows where pos is.
LEMMA AloneNext ==
  ASSUME BufferInv, [Next]_vars
  PROVE  ~overlapped' => Alone'
<1> SUFFICES ASSUME ~overlapped' PROVE Alone'
  OBVIOUS
<1>0. Shape /\ Threads = {"rexx", "ui"} /\ Size \in Nat \ {0}
  BY SizesAreNat DEF BufferInv, Threads
<1>1. ~overlapped /\ Alone
  <2>1. ~overlapped
    BY DEF Next, Begin, Continue, Output, PutTest, PutIndex, PutBump, PutStore, FlushTest, FlushCopy,
       FlushReset, FlushPost, Put, Get, System, Finish, GetKey, GetTimeout, Start, StartFails, WaitFor,
       Read, Assign, ReadDone, ProcWrites, Show, OnKey, Step, Call, Goto, vars
  <2>2. QED BY <2>1 DEF BufferInv
<1>2. ASSUME NEW t \in Threads, PutTest(t) \/ PutIndex(t) \/ PutBump(t) PROVE Alone'
  <2>1. \E u \in Threads : ~Busy(pc'[u])
    BY <1>2, MeetingsNoticed DEF PutTest, PutIndex, PutBump, Step, Call
  <2>2. CASE PutTest(t)
    BY <1>0, <1>1, <2>1, <2>2 DEF PutTest, Step, Call, Goto, Shape, Alone, Busy, outVars
  <2>3. CASE PutIndex(t)
    BY <1>0, <1>1, <2>1, <2>3 DEF PutIndex, Step, Goto, Shape, Alone, Busy
  <2>4. CASE PutBump(t)
    BY <1>0, <1>1, <2>1, <2>4, SMTT(30) DEF PutBump, Step, Goto, Shape, Alone, Busy
  <2>5. QED BY <1>2, <2>2, <2>3, <2>4
<1>3. ASSUME NEW t \in Threads, PutStore(t) PROVE Alone'
  <2>1. \E u \in Threads : ~Busy(pc'[u])
    BY <1>3, MeetingsNoticed DEF PutStore, Step, Call
  <2>2. reg[t] \in 0..(Size - 1) /\ ~crashed'
    BY <1>0, <1>1, <1>3 DEF PutStore, Step, Call, Goto, Alone
  <2>3. pc[t] = "store" /\ pos' = pos /\ reg' = [reg EXCEPT ![t] = 0]
        /\ pc' = [pc EXCEPT ![t] = IF t = "ui" THEN "flush" ELSE "run"]
    BY <1>0, <1>3 DEF PutStore, Step, Call, Goto
  <2>4. QED BY <1>0, <1>1, <2>1, <2>2, <2>3 DEF Shape, Alone, Busy
<1>4. ASSUME NEW t \in Threads, FlushTest(t) \/ FlushCopy(t) \/ FlushReset(t) \/ FlushPost(t) PROVE Alone'
  <2>1. \E u \in Threads : ~Busy(pc'[u])
    BY <1>4, MeetingsNoticed DEF FlushTest, FlushCopy, FlushReset, FlushPost, Step, Call
  <2>2. CASE FlushTest(t)
    BY <1>0, <1>1, <2>1, <2>2 DEF FlushTest, Step, Goto, Shape, Alone, Busy, outVars
  <2>3. CASE FlushCopy(t)
    BY <1>0, <1>1, <2>1, <2>3 DEF FlushCopy, Step, Goto, Shape, Alone, Busy, outVars
  <2>4. CASE FlushReset(t)
    BY <1>0, <1>1, <2>1, <2>4 DEF FlushReset, Step, Goto, Shape, Alone, Busy
  <2>5. CASE FlushPost(t)
    BY <1>0, <1>1, <2>1, <2>5 DEF FlushPost, Step, Goto, Shape, Alone, Busy, outVars
  <2>6. QED BY <1>4, <2>2, <2>3, <2>4, <2>5
<1>5. CASE Begin \/ GetKey \/ GetTimeout \/ Start \/ StartFails \/ WaitFor
  <2>1. \E u \in Threads : ~Busy(pc'[u])
    BY <1>0, <1>5, MeetingsNoticed
    DEF Begin, Put, Get, System, Finish, GetKey, GetTimeout, Start, StartFails, WaitFor, Step, Call
  <2>2. PICK q \in {"put", "flush", "wait", "run", "key", "waitFor", "read"} :
          pc' = [pc EXCEPT !["rexx"] = q]
    BY <1>5 DEF Begin, Put, Get, System, Finish, GetKey, GetTimeout, Start, StartFails, WaitFor, Step, Call, Goto
  <2>3. pc["rexx"] \notin {"readDone"} /\ UNCHANGED <<pos, reg, crashed>>
    BY <1>5 DEF Begin, Put, Get, System, Finish, GetKey, GetTimeout, Start, StartFails, WaitFor, Step, Call, Goto, outVars
  <2>4. QED BY <1>0, <1>1, <2>1, <2>2, <2>3 DEF Shape, Alone, Busy
<1>6. CASE Read \/ Assign \/ ReadDone
  <2>1. \E u \in Threads : ~Busy(pc'[u])
    BY <1>0, <1>6, MeetingsNoticed DEF Read, Assign, ReadDone, Step, Call
  <2>2. pc["ui"] = "run" /\ pc'["ui"] = "run"
    BY <1>0, <1>1, <1>6 DEF Read, Assign, ReadDone, Step, Call, Goto, Shape, Alone, Busy, PutPlaces
  <2>3. CASE Read
    BY <1>0, <1>1, <2>1, <2>2, <2>3 DEF Read, Step, Goto, Shape, Alone, Busy
  <2>4. CASE Assign
    <3>1. pos' = reg["rexx"] /\ pc["rexx"] = "assign" /\ crashed' = crashed
          /\ pc' = [pc EXCEPT !["rexx"] = IF reg["rexx"] = -1 THEN "readDone" ELSE "flush"]
      BY <2>4 DEF Assign, Step, Call, Goto
    <3>2. reg["rexx"] \in -1..Size
      BY <1>0, <1>1, <3>1 DEF BufferInv, Shape, Alone, Positions
    <3>3. QED BY <1>0, <1>1, <2>1, <2>2, <3>1, <3>2 DEF Shape, Alone, Busy
  <2>5. CASE ReadDone
    BY <1>0, <1>1, <2>1, <2>2, <2>5 DEF ReadDone, Step, Goto, Shape, Alone, Busy
  <2>6. QED BY <1>6, <2>3, <2>4, <2>5
<1>7. CASE OnKey
  <2>1. pc["ui"] = "run" /\ ~Busy(pc["rexx"]) /\ UNCHANGED <<pos, reg, crashed>>
        /\ pc' = [ui |-> "put", rexx |-> IF pc["rexx"] = "wait" THEN "key" ELSE pc["rexx"]]
    BY <1>7 DEF OnKey, outVars
  <2>2. pc'["ui"] = "put" /\ pc'["rexx"] \in {"run", "key", "wait", "start", "waitFor", "done"}
    BY <2>1 DEF Busy
  <2>3. QED BY <1>0, <1>1, <2>1, <2>2 DEF Shape, Alone, Busy
<1>8. CASE ProcWrites \/ Show
  BY <1>1, <1>8 DEF ProcWrites, Show, Alone, outVars
<1>9. CASE UNCHANGED vars
  BY <1>1, <1>9 DEF Alone, vars, outVars
<1>10. ASSUME NEW t \in Threads, Output(t) PROVE Alone'
  BY <1>10, <1>2, <1>3, <1>4 DEF Output
<1>11. QED
  BY <1>5, <1>6, <1>7, <1>8, <1>9, <1>10 DEF Next, Continue, Threads

LEMMA BufferInit == Init => BufferInv
<1> SUFFICES ASSUME Init PROVE BufferInv
  OBVIOUS
<1>1. data \in Data
  BY NoDataTyped DEF Init
<1>2. NoProc \in [pipe : Seq(Chars), left : Nat, printed : Nat, isRexx : BOOLEAN]
  BY EmptySeq DEF NoProc
<1>3. Shape
  <2>1. Size \in Nat /\ MaxKeys \in Nat /\ MaxOut \in Nat /\ MaxCommands \in Nat /\ "ui" \in Threads
    BY SizesAreNat DEF Threads
  <2>2. pos \in -1..(Size + 2) /\ reg \in [Threads -> -1..(Size + 1)]
    BY <2>1 DEF Init
  <2>3. /\ pc \in [Threads -> RexxPlaces \union PutPlaces] /\ pc["ui"] \in {"run"} \union PutPlaces
        /\ ret \in [Threads -> {"run", "index", "key", "start", "read", "done"}]
        /\ ret["ui"] \in {"run", "index"}
    BY <2>1 DEF Init, RexxPlaces
  <2>4. typed \in 0..MaxKeys /\ written \in 0..MaxOut /\ commands \in 0..MaxCommands
    BY <2>1 DEF Init
  <2>5. proc \in [pipe : Seq(Chars), left : Nat, printed : Nat, isRexx : BOOLEAN]
    <3>1. proc = NoProc
      BY DEF Init
    <3>2. QED BY <1>2, <3>1
  <2>6. crashed \in BOOLEAN /\ overlapped \in BOOLEAN
    BY Zenon DEF Init
  <2>7. QED BY <1>1, <2>2, <2>3, <2>4, <2>5, <2>6 DEF Shape
<1>4. Begun /\ Positions /\ Alone
  <2>1. pos = 0 /\ Size \in Nat \ {0} /\ crashed = FALSE /\ "ui" \in Threads /\ "rexx" \in Threads
    BY SizesAreNat DEF Init, Threads
  <2>2. \A t \in Threads : pc[t] = "run"
    BY DEF Init
  <2>3. Begun /\ Positions
    BY <2>1, <2>2 DEF Begun, Positions
  <2>4. QED BY <2>1, <2>2, <2>3 DEF Alone, Busy
<1>5. QED BY <1>3, <1>4 DEF BufferInv

LEMMA BufferNext == BufferInv /\ [Next]_vars => BufferInv'
<1> SUFFICES ASSUME BufferInv, [Next]_vars PROVE BufferInv'
  OBVIOUS
<1>1. Shape'
  <2>1. ASSUME NEW t \in Threads, Output(t) PROVE Shape'
    BY <2>1, ShapeOutput
  <2>2. CASE UNCHANGED vars
    BY <2>2 DEF BufferInv, Shape, vars, outVars, keyVars, procVars
  <2>3. QED BY <2>1, <2>2, ShapeOther, ShapeRead DEF Next, Continue, Threads
<1>2. QED BY <1>1, BegunNext, PositionsNext, AloneNext DEF BufferInv

\* The position stays in the buffer, and no index is out of it, unless the echo of a
\* key met the output of the program; then pos is at most two past the end
\* (RexxConsole.java:186-209, 259-264).
THEOREM BufferTypeCorrect == Spec => []TypeOK
<1>1. BufferInv => TypeOK
  <2> SUFFICES ASSUME BufferInv PROVE TypeOK
    OBVIOUS
  <2>1. Shape /\ Threads = {"rexx", "ui"} /\ Size \in Nat \ {0}
    BY SizesAreNat DEF BufferInv, Threads
  <2>2. pos > Size \/ crashed => overlapped
    BY <2>1 DEF BufferInv, Alone, Shape
  <2>3. data.buf \in [0..(Size - 1) -> Chars] /\ data.char \in [Threads -> Chars]
    BY <2>1 DEF Shape, Data
  <2>4. QED BY <2>1, <2>2, <2>3 DEF Shape, TypeOK, RexxPlaces, PutPlaces
<1>2. QED BY BufferInit, BufferNext, <1>1, PTL DEF Spec

-----------------------------------------------------------------------------
(***************************************************************************)
(* What the texts that wait to be shown make together. FlattenSeq chooses  *)
(* a recursive function: the lemmas show that there is one, by a least     *)
(* counterexample, and that it adds what is posted at the end.             *)
(***************************************************************************)
Texts == Seq(Seq(Chars))

\* A set of numbers that is not empty has a least member.
LEMMA HasLeast ==
  ASSUME NEW T, T \subseteq Nat, T # {}
  PROVE  \E x \in T : \A y \in T : x <= y
<1> DEFINE Less == {p \in Nat \X Nat : p[1] < p[2]}
<1>1. IsWellFoundedOn(Less, Nat)
  BY NatLessThanWellFounded DEF OpToRel
<1>2. PICK x \in T : \A y \in T : ~(<<y, x>> \in Less)
  BY <1>1, WFMin
<1>3. ASSUME NEW y \in T PROVE x <= y
  <2>1. x \in Nat /\ y \in Nat
    OBVIOUS
  <2>2. CASE y < x
    <3>1. <<y, x>> \in Less
      BY <2>1, <2>2
    <3>2. QED BY <1>2, <3>1
  <2>3. QED BY <2>1, <2>2
<1>4. QED BY <1>3

\* g gives the first texts of ts, put together.
Joins(ts, n, g) ==
  /\ g \in [1..n -> Seq(Chars)]
  /\ \A i \in 1..n : g[i] = IF i = 1 THEN ts[i] ELSE g[i - 1] \o ts[i]

\* Such a g exists: the reason why FlattenSeq gives something.
LEMMA JoinsExists ==
  ASSUME NEW ts \in Texts, NEW n \in 1..Len(ts)
  PROVE  \E g : Joins(ts, n, g)
<1>0. Len(ts) \in Nat /\ \A i \in 1..Len(ts) : ts[i] \in Seq(Chars)
  BY LenProperties, ElementOfSeq DEF Texts
<1> DEFINE Bad == {k \in Nat : k \in 1..n /\ ~\E g : Joins(ts, k, g)}
<1>1. CASE Bad # {}
  <2>1. PICK k \in Bad : \A l \in Bad : k <= l
    BY <1>1, HasLeast
  <2>2. Joins(ts, 1, [i \in 1..1 |-> ts[i]])
    <3>1. 1 \in 1..Len(ts) /\ \A i \in 1..1 : i = 1
      BY <1>0
    <3>2. QED BY <1>0, <3>1 DEF Joins
  <2>3. k \in 2..n /\ k - 1 \in 1..n /\ k - 1 \in Nat /\ ~(k <= k - 1)
    BY <1>0, <2>1, <2>2
  <2>4. PICK g : Joins(ts, k - 1, g)
    BY <2>1, <2>3
  <2>5. /\ g \in [1..(k - 1) -> Seq(Chars)]
        /\ \A i \in 1..(k - 1) : g[i] = IF i = 1 THEN ts[i] ELSE g[i - 1] \o ts[i]
    BY <2>4 DEF Joins
  <2> DEFINE f == [i \in 1..k |-> IF i < k THEN g[i] ELSE g[k - 1] \o ts[k]]
  <2>6. g[k - 1] \o ts[k] \in Seq(Chars)
    <3>1. k - 1 \in 1..(k - 1) /\ k \in 1..Len(ts)
      BY <1>0, <2>3
    <3>2. g[k - 1] \in Seq(Chars) /\ ts[k] \in Seq(Chars)
      BY <1>0, <2>5, <3>1
    <3>3. QED BY <3>2, ConcatProperties
  <2>7. \A i \in 1..k : f[i] = IF i < k THEN g[i] ELSE g[k - 1] \o ts[k]
    OBVIOUS
  <2>8. \A i \in 1..k : i \in 1..(k - 1) \/ i = k
    BY <2>3
  <2>9. f \in [1..k -> Seq(Chars)]
    <3>1. \A i \in 1..k : f[i] \in Seq(Chars)
      BY <2>5, <2>6, <2>7, <2>8
    <3>2. QED BY <3>1
  <2> HIDE DEF f
  <2>10. ASSUME NEW i \in 1..k PROVE f[i] = IF i = 1 THEN ts[i] ELSE f[i - 1] \o ts[i]
    <3>1. CASE i \in 1..(k - 1)
      <4>1. f[i] = g[i] /\ (i # 1 => f[i - 1] = g[i - 1])
        BY <2>3, <2>7, <3>1
      <4>2. QED BY <2>5, <3>1, <4>1
    <3>2. CASE i = k
      <4>1. k \in 1..k /\ k - 1 \in 1..k /\ k - 1 < k /\ ~(k < k) /\ k # 1
        BY <2>3
      <4>2. f[k] = g[k - 1] \o ts[k] /\ f[k - 1] = g[k - 1]
        BY <2>7, <4>1, Zenon
      <4>3. QED BY <3>2, <4>1, <4>2
    <3>3. QED BY <2>8, <3>1, <3>2
  <2>11. Joins(ts, k, f)
    BY <2>9, <2>10 DEF Joins
  <2>12. QED BY <2>1, <2>11
<1>2. CASE Bad = {}
  <2>1. n \in Nat /\ n \in 1..n
    BY <1>0
  <2>2. n \notin Bad
    BY <1>2, Zenon
  <2>3. QED BY <2>1, <2>2, Zenon
<1>3. QED BY <1>1, <1>2

\* What two such functions give is the same.
LEMMA JoinsUnique ==
  ASSUME NEW n \in Nat, NEW ts, NEW us, NEW f, NEW g, Joins(ts, n, f), Joins(us, n, g),
         \A i \in 1..n : ts[i] = us[i]
  PROVE  \A i \in 1..n : f[i] = g[i]
<1> DEFINE Bad == {i \in Nat : i \in 1..n /\ f[i] # g[i]}
<1>1. CASE Bad # {}
  <2>1. PICK k \in Bad : \A l \in Bad : k <= l
    BY <1>1, HasLeast
  <2>2. k = 1 \/ (k - 1 \in Nat /\ k - 1 \in 1..n /\ ~(k <= k - 1))
    BY <2>1
  <2>3. k = 1 \/ f[k - 1] = g[k - 1]
    BY <2>1, <2>2
  <2>4. k \in 1..n /\ f[k] # g[k] /\ ts[k] = us[k]
    BY <2>1
  <2>5. /\ f[k] = IF k = 1 THEN ts[k] ELSE f[k - 1] \o ts[k]
        /\ g[k] = IF k = 1 THEN us[k] ELSE g[k - 1] \o us[k]
    BY <2>4, Zenon DEF Joins
  <2>6. QED BY <2>3, <2>4, <2>5
<1>2. QED BY <1>1

LEMMA FlattenJoins ==
  ASSUME NEW ts \in Texts, NEW n \in Nat, n = Len(ts), n # 0
  PROVE  \E g : Joins(ts, n, g) /\ FlattenSeq(ts) = g[n]
<1> DEFINE IsFlat(g) == g = [i \in 1..Len(ts) |-> IF i = 1 THEN ts[i] ELSE g[i - 1] \o ts[i]]
           flat == CHOOSE g : IsFlat(g)
<1>1. PICK g : Joins(ts, n, g)
  <2>1. n \in 1..Len(ts)
    OBVIOUS
  <2>2. QED BY <2>1, JoinsExists
<1>2. IsFlat(g)
  BY <1>1 DEF Joins
<1>3. IsFlat(flat)
  BY <1>2
<1>4. FlattenSeq(ts) = flat[n]
  BY DEF FlattenSeq
<1> HIDE DEF flat
<1>5. \A i \in 1..n : flat[i] = IF i = 1 THEN ts[i] ELSE flat[i - 1] \o ts[i]
  BY <1>3, Zenon
<1>6. \A i \in 1..n : flat[i] = g[i]
  <2> DEFINE Bad == {i \in Nat : i \in 1..n /\ flat[i] # g[i]}
  <2>1. CASE Bad # {}
    <3>1. PICK k \in Bad : \A l \in Bad : k <= l
      BY <2>1, HasLeast
    <3>2. k = 1 \/ (k - 1 \in Nat /\ k - 1 \in 1..n /\ ~(k <= k - 1))
      BY <3>1
    <3>3. k = 1 \/ flat[k - 1] = g[k - 1]
      BY <3>1, <3>2
    <3>4. k \in 1..n /\ flat[k] # g[k]
      BY <3>1
    <3>5. g[k] = IF k = 1 THEN ts[k] ELSE g[k - 1] \o ts[k]
      BY <1>1, <3>4, Zenon DEF Joins
    <3>6. QED BY <1>5, <3>3, <3>4, <3>5
  <2>2. CASE Bad = {}
    BY <2>2
  <2>3. QED BY <2>1, <2>2
<1>7. QED BY <1>1, <1>4, <1>6

LEMMA FlattenType ==
  ASSUME NEW ts \in Texts
  PROVE  FlattenSeq(ts) \in Seq(Chars)
<1>1. PICK n \in Nat : n = Len(ts)
  BY LenProperties DEF Texts
<1>2. CASE n = 0
  <2>1. ts = << >> /\ FlattenSeq(ts) = ts
    BY <1>1, <1>2, EmptySeq DEF Texts, FlattenSeq
  <2>2. QED BY <2>1, EmptySeq
<1>3. CASE n # 0
  <2>1. PICK g : Joins(ts, n, g) /\ FlattenSeq(ts) = g[n]
    BY <1>1, <1>3, FlattenJoins
  <2>2. n \in 1..n
    BY <1>3
  <2>3. QED BY <2>1, <2>2 DEF Joins
<1>4. QED BY <1>2, <1>3

LEMMA FlattenEmpty == FlattenSeq(<< >>) = << >>
<1>1. Len(<< >>) = 0
  BY EmptySeq
<1>2. QED BY <1>1 DEF FlattenSeq

\* A text that is posted comes last.
LEMMA FlattenAppend ==
  ASSUME NEW ts \in Texts, NEW t \in Seq(Chars)
  PROVE  FlattenSeq(Append(ts, t)) = FlattenSeq(ts) \o t
<1>1. PICK n \in Nat : n = Len(ts)
  BY LenProperties DEF Texts
<1>2. PICK us \in Texts : us = Append(ts, t)
  BY AppendProperties DEF Texts
<1>3. Len(us) = n + 1 /\ us[n + 1] = t /\ \A i \in 1..n : us[i] = ts[i]
  BY <1>1, <1>2, AppendProperties DEF Texts
<1>4. PICK m \in Nat : m = n + 1
  OBVIOUS
<1>5. PICK g : Joins(us, m, g) /\ FlattenSeq(us) = g[m]
  BY <1>3, <1>4, FlattenJoins
<1>6. /\ g \in [1..m -> Seq(Chars)]
      /\ \A i \in 1..m : g[i] = IF i = 1 THEN us[i] ELSE g[i - 1] \o us[i]
  BY <1>5 DEF Joins
<1>7. CASE n = 0
  <2>1. ts = << >> /\ FlattenSeq(ts) = << >>
    BY <1>1, <1>7, EmptySeq, FlattenEmpty DEF Texts
  <2>2. << >> \o t = t
    BY ConcatEmptySeq
  <2>3. g[m] = t
    BY <1>3, <1>4, <1>6, <1>7
  <2>4. QED BY <1>2, <1>5, <2>1, <2>2, <2>3
<1>8. CASE n # 0
  <2>1. PICK f : Joins(ts, n, f) /\ FlattenSeq(ts) = f[n]
    BY <1>1, <1>8, FlattenJoins
  <2> DEFINE h == [i \in 1..n |-> g[i]]
  <2>2. \A i \in 1..n : h[i] = g[i] /\ i \in 1..m
    BY <1>4
  <2>3. h \in [1..n -> Seq(Chars)]
    BY <1>6, <2>2
  <2> HIDE DEF h
  <2>4. ASSUME NEW i \in 1..n PROVE h[i] = IF i = 1 THEN us[i] ELSE h[i - 1] \o us[i]
    <3>1. i = 1 \/ i - 1 \in 1..n
      OBVIOUS
    <3>2. h[i] = g[i] /\ (i = 1 \/ h[i - 1] = g[i - 1])
      BY <2>2, <3>1
    <3>3. g[i] = IF i = 1 THEN us[i] ELSE g[i - 1] \o us[i]
      BY <1>6, <2>2
    <3>4. QED BY <3>2, <3>3
  <2>5. Joins(us, n, h)
    BY <2>3, <2>4 DEF Joins
  <2>6. \A i \in 1..n : h[i] = f[i]
    <3>1. Joins(us, n, h) /\ Joins(ts, n, f) /\ \A i \in 1..n : us[i] = ts[i]
      BY <1>3, <2>1, <2>5
    <3>2. QED BY <3>1, JoinsUnique
  <2>7. n \in 1..n /\ m \in 1..m /\ m # 1 /\ m - 1 = n
    BY <1>4, <1>8
  <2>8. g[n] = f[n]
    BY <2>2, <2>6, <2>7, Zenon
  <2>9. g[m] = f[n] \o t
    BY <1>3, <1>4, <1>6, <2>7, <2>8
  <2>10. QED BY <1>2, <1>5, <2>1, <2>9
<1>9. QED BY <1>7, <1>8

\* The text that is shown was the first.
LEMMA FlattenTail ==
  ASSUME NEW ts \in Texts, ts # << >>
  PROVE  FlattenSeq(ts) = Head(ts) \o FlattenSeq(Tail(ts))
<1>1. PICK n \in Nat : n = Len(ts)
  BY LenProperties DEF Texts
<1>2. PICK us \in Texts : us = Tail(ts)
  BY HeadTailProperties DEF Texts
<1>3. PICK t \in Seq(Chars) : t = Head(ts)
  BY HeadTailProperties DEF Texts
<1>4. n # 0 /\ ts[1] = t /\ Len(us) = n - 1 /\ \A i \in 1..(n - 1) : us[i] = ts[i + 1]
  <2>1. n # 0
    BY <1>1, EmptySeq DEF Texts
  <2>2. QED BY <1>1, <1>2, <1>3, <2>1, HeadTailProperties DEF Texts
<1>5. PICK f : Joins(ts, n, f) /\ FlattenSeq(ts) = f[n]
  BY <1>1, <1>4, FlattenJoins
<1>6. \A i \in 1..n : f[i] = IF i = 1 THEN ts[i] ELSE f[i - 1] \o ts[i]
  BY <1>5 DEF Joins
<1>7. PICK m \in Nat : m = n - 1
  BY <1>4
<1>8. CASE m = 0
  <2>1. us = << >> /\ FlattenSeq(us) = << >>
    BY <1>4, <1>7, <1>8, EmptySeq, FlattenEmpty DEF Texts
  <2>2. t \o << >> = t
    BY ConcatEmptySeq
  <2>3. n = 1 /\ 1 \in 1..n
    BY <1>7, <1>8
  <2>4. f[n] = t
    BY <1>4, <1>6, <2>3
  <2>5. QED BY <1>2, <1>3, <1>5, <2>1, <2>2, <2>4
<1>9. CASE m # 0
  <2>1. PICK g : Joins(us, m, g) /\ FlattenSeq(us) = g[m]
    BY <1>4, <1>7, <1>9, FlattenJoins
  <2>2. /\ g \in [1..m -> Seq(Chars)]
        /\ \A i \in 1..m : g[i] = IF i = 1 THEN us[i] ELSE g[i - 1] \o us[i]
    BY <2>1 DEF Joins
  <2>3. ASSUME NEW i \in 1..m, i # 1 => f[i] = t \o g[i - 1]
        PROVE  f[i + 1] = t \o g[i]
    <3>1. i \in 1..m /\ i + 1 \in 1..n /\ i + 1 # 1 /\ (i + 1) - 1 = i /\ us[i] = ts[i + 1]
      BY <1>4, <1>7
    <3>2. f[i + 1] = f[i] \o us[i] /\ us[i] \in Seq(Chars)
      <4>1. f[i + 1] = f[i] \o us[i]
        BY <1>6, <3>1
      <4>2. us[i] \in Seq(Chars)
        BY <1>4, <1>7, <3>1, ElementOfSeq DEF Texts
      <4>3. QED BY <4>1, <4>2
    <3>3. CASE i = 1
      <4>1. f[1] = t /\ g[1] = us[1]
        <5>1. 1 \in 1..n /\ 1 \in 1..m
          BY <1>7, <1>9
        <5>2. QED BY <1>4, <1>6, <2>2, <5>1
      <4>2. QED BY <3>2, <3>3, <4>1
    <3>4. CASE i # 1
      <4>1. i - 1 \in 1..m
        BY <3>4
      <4>2. PICK p \in Seq(Chars) : p = g[i - 1]
        BY <2>2, <4>1
      <4>3. g[i] = p \o us[i]
        BY <2>2, <3>4, <4>2
      <4>4. (t \o p) \o us[i] = t \o (p \o us[i])
        <5>1. PICK q \in Seq(Chars) : q = us[i]
          BY <3>2
        <5>2. (t \o p) \o q = t \o (p \o q)
          BY ConcatAssociative
        <5>3. QED BY <5>1, <5>2
      <4>5. QED BY <2>3, <3>2, <3>4, <4>2, <4>3, <4>4
    <3>5. QED BY <3>3, <3>4
  <2>4. \A i \in 1..m : f[i + 1] = t \o g[i]
    <3> DEFINE Bad == {i \in Nat : i \in 1..m /\ f[i + 1] # t \o g[i]}
    <3>1. CASE Bad # {}
      <4>1. PICK k \in Bad : \A l \in Bad : k <= l
        BY <3>1, HasLeast
      <4>2. k \in 1..m /\ f[k + 1] # t \o g[k]
        BY <4>1
      <4>3. k # 1 => f[k] = t \o g[k - 1]
        <5>1. SUFFICES ASSUME k # 1 PROVE f[k] = t \o g[k - 1]
          OBVIOUS
        <5>2. k - 1 \in Nat /\ k - 1 \in 1..m /\ ~(k <= k - 1) /\ (k - 1) + 1 = k
          BY <4>2, <5>1
        <5>3. k - 1 \notin Bad
          BY <4>1, <5>2
        <5>4. QED BY <5>2, <5>3
      <4>4. QED BY <2>3, <4>2, <4>3
    <3>2. CASE Bad = {}
      <4>1. SUFFICES ASSUME NEW i \in 1..m PROVE f[i + 1] = t \o g[i]
        OBVIOUS
      <4>2. i \in Nat /\ i \notin Bad
        <5>1. i \notin Bad
          BY <3>2, Zenon
        <5>2. QED BY <5>1
      <4>3. QED BY <4>2
    <3>3. QED BY <3>1, <3>2
  <2>5. f[n] = t \o g[m]
    <3>1. m \in 1..m /\ m + 1 = n
      BY <1>4, <1>7, <1>9
    <3>2. QED BY <2>4, <3>1
  <2>6. QED BY <1>2, <1>3, <1>5, <2>1, <2>5
<1>10. QED BY <1>8, <1>9

-----------------------------------------------------------------------------
(***************************************************************************)
(* Characters in texts put together: which ones there are, how often, and  *)
(* in which order.                                                         *)
(***************************************************************************)
\* u is s, of m characters, followed by t, of n.
Pieces(s, t, u, m, n) ==
  /\ DOMAIN s = 1..m /\ DOMAIN t = 1..n /\ DOMAIN u = 1..(m + n)
  /\ \A i \in 1..m : i \in 1..(m + n) /\ u[i] = s[i]
  /\ \A i \in 1..n : m + i \in 1..(m + n) /\ m + i \notin 1..m /\ u[m + i] = t[i]
  /\ \A i \in 1..(m + n) : i \in 1..m \/ \E j \in 1..n : i = m + j

LEMMA Parts ==
  ASSUME NEW s \in Seq(Chars), NEW t \in Seq(Chars)
  PROVE  \E u \in Seq(Chars), m, n \in Nat : u = s \o t /\ Pieces(s, t, u, m, n)
<1>1. PICK m \in Nat : m = Len(s)
  BY LenProperties
<1>2. PICK n \in Nat : n = Len(t)
  BY LenProperties
<1>3. PICK u \in Seq(Chars) : u = s \o t
  BY ConcatProperties
<1>4. Len(u) = m + n /\ \A i \in 1..(m + n) : u[i] = IF i <= m THEN s[i] ELSE t[i - m]
  BY <1>1, <1>2, <1>3, ConcatProperties
<1>5. DOMAIN s = 1..m /\ DOMAIN t = 1..n /\ DOMAIN u = 1..(m + n)
  BY <1>1, <1>2, <1>4, LenProperties
<1>6. \A i \in 1..m : i \in 1..(m + n) /\ u[i] = s[i]
  BY <1>4
<1>7. ASSUME NEW i \in 1..n PROVE m + i \in 1..(m + n) /\ m + i \notin 1..m /\ u[m + i] = t[i]
  <2>1. m + i \in 1..(m + n) /\ ~(m + i <= m) /\ (m + i) - m = i /\ m + i \notin 1..m
    OBVIOUS
  <2>2. QED BY <1>4, <2>1
<1>8. ASSUME NEW i \in 1..(m + n), i \notin 1..m PROVE \E j \in 1..n : i = m + j
  <2>1. i - m \in 1..n /\ i = m + (i - m)
    BY <1>8
  <2>2. QED BY <2>1
<1>9. Pieces(s, t, u, m, n)
  BY <1>5, <1>6, <1>7, <1>8 DEF Pieces
<1>10. QED BY <1>3, <1>9

Never(c, s) == \A l \in DOMAIN s : s[l] # c

LEMMA NeverConcat ==
  ASSUME NEW c, NEW s \in Seq(Chars), NEW t \in Seq(Chars)
  PROVE  Never(c, s \o t) <=> Never(c, s) /\ Never(c, t)
<1>1. PICK u \in Seq(Chars), m, n \in Nat : u = s \o t /\ Pieces(s, t, u, m, n)
  BY Parts
<1>2. ASSUME Never(c, u) PROVE Never(c, s) /\ Never(c, t)
  BY <1>1, <1>2 DEF Never, Pieces
<1>3. ASSUME Never(c, s), Never(c, t) PROVE Never(c, u)
  <2>1. SUFFICES ASSUME NEW k \in DOMAIN u PROVE u[k] # c
    BY DEF Never
  <2>2. k \in 1..m \/ \E j \in 1..n : k = m + j
    BY <1>1 DEF Pieces
  <2>3. QED BY <1>1, <1>3, <2>2 DEF Never, Pieces
<1>4. QED BY <1>1, <1>2, <1>3

\* A character comes once in two texts when it comes once in one and not in the other.
LEMMA OnceConcat ==
  ASSUME NEW c, NEW s \in Seq(Chars), NEW t \in Seq(Chars)
  PROVE  Once(c, s \o t) <=> (Once(c, s) /\ Never(c, t)) \/ (Never(c, s) /\ Once(c, t))
<1>1. PICK u \in Seq(Chars), m, n \in Nat : u = s \o t /\ Pieces(s, t, u, m, n)
  BY Parts
<1>2. ASSUME Once(c, u) PROVE (Once(c, s) /\ Never(c, t)) \/ (Never(c, s) /\ Once(c, t))
  <2>1. PICK k \in DOMAIN u : \A l \in DOMAIN u : u[l] = c <=> l = k
    BY <1>2, Zenon DEF Once
  <2>2. CASE k \in 1..m
    <3>1. k \in DOMAIN s /\ \A l \in DOMAIN s : s[l] = c <=> l = k
      BY <1>1, <2>1, <2>2 DEF Pieces
    <3>2. Once(c, s)
      BY <3>1, Zenon DEF Once
    <3>3. Never(c, t)
      BY <1>1, <2>1, <2>2, ZenonT(40) DEF Never, Pieces
    <3>4. QED BY <3>2, <3>3
  <2>3. ASSUME NEW j \in 1..n, k = m + j PROVE Never(c, s) /\ Once(c, t)
    <3>1. Never(c, s)
      BY <1>1, <2>1, <2>3 DEF Never, Pieces
    <3>2. j \in DOMAIN t /\ \A l \in DOMAIN t : t[l] = c <=> l = j
      <4>1. \A l \in 1..n : m + l = m + j <=> l = j
        OBVIOUS
      <4>2. QED BY <1>1, <2>1, <2>3, <4>1 DEF Pieces
    <3>3. Once(c, t)
      BY <3>2, Zenon DEF Once
    <3>4. QED BY <3>1, <3>3
  <2>4. k \in 1..m \/ \E j \in 1..n : k = m + j
    BY <1>1, <2>1 DEF Pieces
  <2>5. QED BY <2>2, <2>3, <2>4
<1>3. ASSUME Once(c, s), Never(c, t) PROVE Once(c, u)
  <2>1. PICK k \in DOMAIN s : \A l \in DOMAIN s : s[l] = c <=> l = k
    BY <1>3, Zenon DEF Once
  <2>2. \A j \in DOMAIN t : t[j] # c
    BY <1>3 DEF Never
  <2>3. ASSUME NEW l \in DOMAIN u PROVE u[l] = c <=> l = k
    <3>1. l \in 1..m \/ \E j \in 1..n : l = m + j
      BY <1>1 DEF Pieces
    <3>2. QED BY <1>1, <2>1, <2>2, <3>1 DEF Pieces
  <2>4. k \in DOMAIN u
    BY <1>1 DEF Pieces
  <2>5. QED BY <2>3, <2>4, Zenon DEF Once
<1>4. ASSUME Never(c, s), Once(c, t) PROVE Once(c, u)
  <2>1. PICK k \in DOMAIN t : \A l \in DOMAIN t : t[l] = c <=> l = k
    BY <1>4, Zenon DEF Once
  <2>2. \A j \in DOMAIN s : s[j] # c
    BY <1>4 DEF Never
  <2>3. ASSUME NEW l \in DOMAIN u PROVE u[l] = c <=> l = m + k
    <3>1. CASE l \in 1..m
      BY <1>1, <2>1, <2>2, <3>1 DEF Pieces
    <3>2. ASSUME NEW j \in 1..n, l = m + j PROVE u[l] = c <=> l = m + k
      <4>1. u[l] = t[j] /\ j \in DOMAIN t /\ k \in 1..n
        BY <1>1, <3>2 DEF Pieces
      <4>2. m + j = m + k <=> j = k
        BY <4>1
      <4>3. QED BY <2>1, <3>2, <4>1, <4>2
    <3>3. l \in 1..m \/ \E j \in 1..n : l = m + j
      BY <1>1 DEF Pieces
    <3>4. QED BY <3>1, <3>2, <3>3
  <2>4. m + k \in DOMAIN u
    BY <1>1 DEF Pieces
  <2>5. QED BY <2>3, <2>4, Zenon DEF Once
<1>5. QED BY <1>1, <1>2, <1>3, <1>4

\* The characters of who in s are among the first n.
Among(who, n, s) == \A k \in DOMAIN s : s[k][1] = who => s[k][2] \in 1..n

LEMMA AmongConcat ==
  ASSUME NEW who, NEW b, NEW s \in Seq(Chars), NEW t \in Seq(Chars)
  PROVE  Among(who, b, s \o t) <=> Among(who, b, s) /\ Among(who, b, t)
<1>1. PICK u \in Seq(Chars), m, n \in Nat : u = s \o t /\ Pieces(s, t, u, m, n)
  BY Parts
<1>2. ASSUME Among(who, b, u) PROVE Among(who, b, s) /\ Among(who, b, t)
  BY <1>1, <1>2 DEF Among, Pieces
<1>3. ASSUME Among(who, b, s), Among(who, b, t) PROVE Among(who, b, u)
  <2>1. SUFFICES ASSUME NEW k \in DOMAIN u, u[k][1] = who PROVE u[k][2] \in 1..b
    BY DEF Among
  <2>2. k \in 1..m \/ \E j \in 1..n : k = m + j
    BY <1>1 DEF Pieces
  <2>3. QED BY <1>1, <1>3, <2>1, <2>2 DEF Among, Pieces
<1>4. QED BY <1>1, <1>2, <1>3

LEMMA InOrderConcat ==
  ASSUME NEW who, NEW s \in Seq(Chars), NEW t \in Seq(Chars), InOrder(who, s), InOrder(who, t),
         \A k \in DOMAIN s, l \in DOMAIN t : s[k][1] = who /\ t[l][1] = who => s[k][2] < t[l][2]
  PROVE  InOrder(who, s \o t)
<1>1. PICK u \in Seq(Chars), m, n \in Nat : u = s \o t /\ Pieces(s, t, u, m, n)
  BY Parts
<1>2. ASSUME NEW k \in DOMAIN u, NEW l \in DOMAIN u, k < l, u[k][1] = who, u[l][1] = who
      PROVE  u[k][2] < u[l][2]
  <2>1. CASE k \in 1..m /\ l \in 1..m
    BY <1>1, <1>2, <2>1 DEF InOrder, Pieces
  <2>2. ASSUME NEW j \in 1..n, l = m + j, k \in 1..m PROVE u[k][2] < u[l][2]
    <3>1. u[k] = s[k] /\ u[l] = t[j] /\ k \in DOMAIN s /\ j \in DOMAIN t
      BY <1>1, <2>2 DEF Pieces
    <3>2. QED BY <1>2, <3>1
  <2>3. ASSUME NEW i \in 1..n, NEW j \in 1..n, k = m + i, l = m + j PROVE u[k][2] < u[l][2]
    <3>1. i < j
      BY <1>2, <2>3
    <3>2. u[k] = t[i] /\ u[l] = t[j] /\ i \in DOMAIN t /\ j \in DOMAIN t
      BY <1>1, <2>3 DEF Pieces
    <3>3. QED BY <1>2, <3>1, <3>2 DEF InOrder
  <2>4. ASSUME NEW i \in 1..n, k = m + i PROVE l \notin 1..m
    BY <1>2, <2>4
  <2>5. /\ k \in 1..m \/ \E i \in 1..n : k = m + i
        /\ l \in 1..m \/ \E j \in 1..n : l = m + j
    BY <1>1 DEF Pieces
  <2>6. QED BY <2>1, <2>2, <2>3, <2>4, <2>5
<1>3. InOrder(who, u)
  BY <1>2, Zenon DEF InOrder
<1>4. QED BY <1>1, <1>3

LEMMA SingleText ==
  ASSUME NEW x \in Chars
  PROVE  /\ << x >> \in Seq(Chars) /\ DOMAIN << x >> = {1} /\ << x >>[1] = x
         /\ \A c : (Never(c, << x >>) <=> c # x) /\ (Once(c, << x >>) <=> c = x)
<1>1. DOMAIN << x >> = {1} /\ << x >>[1] = x
  OBVIOUS
<1>2. ASSUME NEW c PROVE (Never(c, << x >>) <=> c # x) /\ (Once(c, << x >>) <=> c = x)
  BY <1>1 DEF Never, Once
<1>3. QED BY <1>1, <1>2

LEMMA NoText ==
  ASSUME NEW c PROVE Never(c, << >>) /\ ~Once(c, << >>)
BY DEF Never, Once

\* One more character of who, the next.
LEMMA NextCharacter ==
  ASSUME NEW who \in {"rexx", "key"}, NEW n \in Nat, NEW s \in Seq(Chars), EachOnce(who, n, s),
         NEW x, x = <<who, n + 1>>
  PROVE  EachOnce(who, n + 1, s \o << x >>)
<1>1. x \in Chars
  BY DEF Chars
<1>2. PICK t \in Seq(Chars) : t = << x >>
  BY <1>1, SingleText
<1>3. DOMAIN t = {1} /\ t[1] = x /\ \A c : (Never(c, t) <=> c # x) /\ (Once(c, t) <=> c = x)
  BY <1>1, <1>2, SingleText
<1>4. (\A i \in 1..n : Once(<<who, i>>, s)) /\ Among(who, n, s)
  BY DEF EachOnce, Among
<1>5. Never(x, s)
  <2>1. SUFFICES ASSUME NEW l \in DOMAIN s, s[l] = x PROVE FALSE
    BY DEF Never
  <2>2. s[l][1] = who /\ s[l][2] = n + 1
    BY <2>1
  <2>3. n + 1 \in 1..n
    BY <1>4, <2>2 DEF Among
  <2>4. QED BY <2>3
<1>6. ASSUME NEW i \in 1..(n + 1) PROVE Once(<<who, i>>, s \o t)
  <2>1. CASE i = n + 1
    BY <1>2, <1>3, <1>5, <2>1, OnceConcat
  <2>2. CASE i \in 1..n
    <3>1. <<who, i>> # x
      BY <2>2
    <3>2. Once(<<who, i>>, s) /\ Never(<<who, i>>, t)
      BY <1>3, <1>4, <2>2, <3>1
    <3>3. QED BY <3>2, OnceConcat
  <2>3. QED BY <2>1, <2>2
<1>7. Among(who, n + 1, s)
  BY <1>4 DEF Among
<1>8. Among(who, n + 1, t)
  <2>1. x[2] = n + 1 /\ n + 1 \in 1..(n + 1)
    OBVIOUS
  <2>2. QED BY <1>3, <2>1 DEF Among
<1>9. Among(who, n + 1, s \o t)
  BY <1>7, <1>8, AmongConcat
<1>10. QED BY <1>2, <1>6, <1>9 DEF EachOnce, Among

\* Characters of others change nothing for who.
LEMMA OthersAdded ==
  ASSUME NEW who, NEW n \in Nat, NEW s \in Seq(Chars), EachOnce(who, n, s),
         NEW t \in Seq(Chars), \A l \in DOMAIN t : t[l][1] # who
  PROVE  EachOnce(who, n, s \o t)
<1>1. (\A i \in 1..n : Once(<<who, i>>, s)) /\ Among(who, n, s)
  BY DEF EachOnce, Among
<1>2. ASSUME NEW i \in 1..n PROVE Once(<<who, i>>, s \o t)
  <2>1. Never(<<who, i>>, t)
    BY DEF Never
  <2>2. QED BY <1>1, <2>1, OnceConcat
<1>3. Among(who, n, t)
  BY DEF Among
<1>4. Among(who, n, s \o t)
  BY <1>1, <1>3, AmongConcat
<1>5. QED BY <1>2, <1>4 DEF EachOnce, Among

-----------------------------------------------------------------------------
(* All that was put: w characters of REXX, in order if o says so, and k keys. *)
Accounted(s, w, k, o) ==
  EachOnce("rexx", w, s) /\ EachOnce("key", k, s) /\ (o => InOrder("rexx", s))

LEMMA RexxPut ==
  ASSUME NEW s \in Seq(Chars), NEW w \in Nat, NEW k \in Nat, NEW o \in BOOLEAN, Accounted(s, w, k, o),
         NEW x, x = <<"rexx", w + 1>>
  PROVE  x \in Chars /\ Accounted(s \o << x >>, w + 1, k, o)
<1>1. x \in Chars
  BY DEF Chars
<1>2. PICK t \in Seq(Chars) : t = << x >>
  BY <1>1, SingleText
<1>3. DOMAIN t = {1} /\ t[1] = x
  BY <1>1, <1>2, SingleText
<1>4. EachOnce("rexx", w, s) /\ EachOnce("key", k, s) /\ (o => InOrder("rexx", s))
  BY DEF Accounted
<1>5. EachOnce("rexx", w + 1, s \o t)
  BY <1>2, <1>4, NextCharacter
<1>6. EachOnce("key", k, s \o t)
  <2>1. \A l \in DOMAIN t : t[l][1] # "key"
    BY <1>3
  <2>2. QED BY <1>4, <2>1, OthersAdded
<1>7. ASSUME o PROVE InOrder("rexx", s \o t)
  <2>1. InOrder("rexx", t)
    BY <1>3 DEF InOrder
  <2>2. \A i \in DOMAIN s, l \in DOMAIN t : s[i][1] = "rexx" /\ t[l][1] = "rexx" => s[i][2] < t[l][2]
    <3>1. \A i \in DOMAIN s : s[i][1] = "rexx" => s[i][2] \in 1..w
      BY <1>4 DEF EachOnce
    <3>2. QED BY <1>3, <3>1
  <2>3. QED BY <1>4, <1>7, <2>1, <2>2, InOrderConcat
<1>8. QED BY <1>1, <1>2, <1>5, <1>6, <1>7 DEF Accounted

LEMMA KeyPut ==
  ASSUME NEW s \in Seq(Chars), NEW w \in Nat, NEW k \in Nat, NEW o \in BOOLEAN, Accounted(s, w, k, o),
         NEW x, x = <<"key", k + 1>>
  PROVE  x \in Chars /\ Accounted(s \o << x >>, w, k + 1, o)
<1>1. x \in Chars
  BY DEF Chars
<1>2. PICK t \in Seq(Chars) : t = << x >>
  BY <1>1, SingleText
<1>3. DOMAIN t = {1} /\ t[1] = x
  BY <1>1, <1>2, SingleText
<1>4. EachOnce("rexx", w, s) /\ EachOnce("key", k, s) /\ (o => InOrder("rexx", s))
  BY DEF Accounted
<1>5. EachOnce("key", k + 1, s \o t)
  BY <1>2, <1>4, NextCharacter
<1>6. EachOnce("rexx", w, s \o t)
  <2>1. \A l \in DOMAIN t : t[l][1] # "rexx"
    BY <1>3
  <2>2. QED BY <1>4, <2>1, OthersAdded
<1>7. ASSUME o PROVE InOrder("rexx", s \o t)
  <2>1. InOrder("rexx", t)
    BY <1>3 DEF InOrder
  <2>2. \A i \in DOMAIN s, l \in DOMAIN t : s[i][1] = "rexx" /\ t[l][1] = "rexx" => s[i][2] < t[l][2]
    BY <1>3
  <2>3. QED BY <1>4, <1>7, <2>1, <2>2, InOrderConcat
<1>8. QED BY <1>1, <1>2, <1>5, <1>6, <1>7 DEF Accounted

LEMMA ProcPut ==
  ASSUME NEW s \in Seq(Chars), NEW w \in Nat, NEW k \in Nat, NEW o \in BOOLEAN, Accounted(s, w, k, o),
         NEW t \in Seq(Chars), \A l \in DOMAIN t : t[l][1] = "proc"
  PROVE  Accounted(s \o t, w, k, o)
<1>1. EachOnce("rexx", w, s) /\ EachOnce("key", k, s) /\ (o => InOrder("rexx", s))
  BY DEF Accounted
<1>2. EachOnce("rexx", w, s \o t) /\ EachOnce("key", k, s \o t)
  BY <1>1, OthersAdded
<1>3. ASSUME o PROVE InOrder("rexx", s \o t)
  <2>1. InOrder("rexx", t)
    BY DEF InOrder
  <2>2. QED BY <1>1, <1>3, <2>1, InOrderConcat
<1>4. QED BY <1>2, <1>3 DEF Accounted

\* The order of two texts matters to the order only.
LEMMA TextsSwapped ==
  ASSUME NEW a \in Seq(Chars), NEW p \in Seq(Chars), NEW h \in Seq(Chars), NEW b \in Seq(Chars),
         NEW c \in Seq(Chars), NEW w, NEW k, NEW o, Accounted(a \o p \o h \o b \o c, w, k, o)
  PROVE  Accounted(a \o h \o p \o b \o c, w, k, FALSE)
<1>1. PICK ap \in Seq(Chars), aph \in Seq(Chars), aphb \in Seq(Chars), s \in Seq(Chars) :
        ap = a \o p /\ aph = ap \o h /\ aphb = aph \o b /\ s = aphb \o c
  <2>1. \A x, y \in Seq(Chars) : x \o y \in Seq(Chars)
    BY ConcatProperties
  <2>2. QED BY <2>1
<1>2. PICK ah \in Seq(Chars), ahp \in Seq(Chars), ahpb \in Seq(Chars), t \in Seq(Chars) :
        ah = a \o h /\ ahp = ah \o p /\ ahpb = ahp \o b /\ t = ahpb \o c
  <2>1. \A x, y \in Seq(Chars) : x \o y \in Seq(Chars)
    BY ConcatProperties
  <2>2. QED BY <2>1
<1>3. ASSUME NEW x PROVE /\ Once(x, s) => Once(x, t)
  <2>1. /\ Once(x, ap) <=> (Once(x, a) /\ Never(x, p)) \/ (Never(x, a) /\ Once(x, p))
        /\ Once(x, aph) <=> (Once(x, ap) /\ Never(x, h)) \/ (Never(x, ap) /\ Once(x, h))
        /\ Once(x, aphb) <=> (Once(x, aph) /\ Never(x, b)) \/ (Never(x, aph) /\ Once(x, b))
        /\ Once(x, s) <=> (Once(x, aphb) /\ Never(x, c)) \/ (Never(x, aphb) /\ Once(x, c))
    BY <1>1, OnceConcat
  <2>2. /\ Never(x, ap) <=> Never(x, a) /\ Never(x, p)
        /\ Never(x, aph) <=> Never(x, ap) /\ Never(x, h)
        /\ Never(x, aphb) <=> Never(x, aph) /\ Never(x, b)
    BY <1>1, NeverConcat
  <2>3. /\ Once(x, ah) <=> (Once(x, a) /\ Never(x, h)) \/ (Never(x, a) /\ Once(x, h))
        /\ Once(x, ahp) <=> (Once(x, ah) /\ Never(x, p)) \/ (Never(x, ah) /\ Once(x, p))
        /\ Once(x, ahpb) <=> (Once(x, ahp) /\ Never(x, b)) \/ (Never(x, ahp) /\ Once(x, b))
        /\ Once(x, t) <=> (Once(x, ahpb) /\ Never(x, c)) \/ (Never(x, ahpb) /\ Once(x, c))
    BY <1>2, OnceConcat
  <2>4. /\ Never(x, ah) <=> Never(x, a) /\ Never(x, h)
        /\ Never(x, ahp) <=> Never(x, ah) /\ Never(x, p)
        /\ Never(x, ahpb) <=> Never(x, ahp) /\ Never(x, b)
    BY <1>2, NeverConcat
  <2>5. QED BY <2>1, <2>2, <2>3, <2>4
<1>4. ASSUME NEW who, NEW n, Among(who, n, s) PROVE Among(who, n, t)
  <2>1. /\ Among(who, n, ap) <=> Among(who, n, a) /\ Among(who, n, p)
        /\ Among(who, n, aph) <=> Among(who, n, ap) /\ Among(who, n, h)
        /\ Among(who, n, aphb) <=> Among(who, n, aph) /\ Among(who, n, b)
        /\ Among(who, n, s) <=> Among(who, n, aphb) /\ Among(who, n, c)
    BY <1>1, AmongConcat
  <2>2. /\ Among(who, n, ah) <=> Among(who, n, a) /\ Among(who, n, h)
        /\ Among(who, n, ahp) <=> Among(who, n, ah) /\ Among(who, n, p)
        /\ Among(who, n, ahpb) <=> Among(who, n, ahp) /\ Among(who, n, b)
        /\ Among(who, n, t) <=> Among(who, n, ahpb) /\ Among(who, n, c)
    BY <1>2, AmongConcat
  <2>3. QED BY <1>4, <2>1, <2>2
<1>5. ASSUME NEW who, NEW n, EachOnce(who, n, s) PROVE EachOnce(who, n, t)
  <2>1. (\A i \in 1..n : Once(<<who, i>>, s)) /\ Among(who, n, s)
    BY <1>5 DEF EachOnce, Among
  <2>2. (\A i \in 1..n : Once(<<who, i>>, t)) /\ Among(who, n, t)
    BY <1>3, <1>4, <2>1
  <2>3. QED BY <2>2 DEF EachOnce, Among
<1>6. EachOnce("rexx", w, s) /\ EachOnce("key", k, s)
  BY <1>1 DEF Accounted
<1>7. QED BY <1>2, <1>5, <1>6 DEF Accounted

-----------------------------------------------------------------------------
(***************************************************************************)
(* The parts of OutputSeq. A character, or a text, goes from one part to   *)
(* the next without moving in the whole.                                   *)
(***************************************************************************)
LEMMA Associative ==
  ASSUME NEW x \in Seq(Chars), NEW y \in Seq(Chars), NEW z \in Seq(Chars)
  PROVE  (x \o y) \o z = x \o (y \o z)
BY ConcatAssociative

Whole(a, p, h, b, c) == a \o p \o h \o b \o c

\* What a character or a text on its way leaves unchanged.
LEMMA Moves ==
  ASSUME NEW a \in Seq(Chars), NEW p \in Seq(Chars), NEW h \in Seq(Chars), NEW b \in Seq(Chars),
         NEW c \in Seq(Chars)
  PROVE  /\ Whole(a, p, h, b, c) \in Seq(Chars)
         /\ Whole(a, p, << >>, h, c) = Whole(a, p, h, << >>, c)
         /\ Whole(a, p, h, b, c) = Whole(a, p, h, b \o c, << >>)
         /\ Whole(a, p, h, b, c) = Whole(a, p \o h, << >>, b, c)
         /\ Whole(a, p \o h, b, c, << >>) = Whole(a \o p, h, b, c, << >>)
<1>1. \A x, y \in Seq(Chars) : x \o y \in Seq(Chars)
  BY ConcatProperties
<1>2. \A x \in Seq(Chars) : x \o << >> = x
  BY ConcatEmptySeq
<1>3. \A x, y, z \in Seq(Chars) : (x \o y) \o z = x \o (y \o z)
  BY Associative, Zenon
<1>4. \A x \in Seq(Chars) : (x \o b) \o c = x \o (b \o c)
  BY <1>3
<1>5. a \o p \o h = a \o (p \o h)
  BY Associative
<1>6. PICK ap \in Seq(Chars), aph \in Seq(Chars), aphb \in Seq(Chars), s \in Seq(Chars) :
        ap = a \o p /\ aph = ap \o h /\ aphb = aph \o b /\ s = aphb \o c
  BY <1>1
<1>7. Whole(a, p, h, b, c) = s
  BY <1>6 DEF Whole
<1>8. Whole(a, p, << >>, h, c) = Whole(a, p, h, << >>, c)
  <2>1. ap \o << >> = ap /\ aph \o << >> = aph
    BY <1>2
  <2>2. QED BY <1>6, <2>1 DEF Whole
<1>9. s = Whole(a, p, h, b \o c, << >>)
  <2>1. aph \o b \o c = aph \o (b \o c)
    BY <1>4
  <2>2. PICK bc \in Seq(Chars) : bc = b \o c
    BY <1>1
  <2>3. PICK x \in Seq(Chars) : x = aph \o bc
    BY <1>1
  <2>4. x \o << >> = x
    BY <1>2
  <2>5. QED BY <1>6, <2>1, <2>2, <2>3, <2>4 DEF Whole
<1>10. s = Whole(a, p \o h, << >>, b, c)
  <2>1. aph \o << >> = aph
    BY <1>2
  <2>2. QED BY <1>5, <1>6, <2>1 DEF Whole
<1>11. Whole(a, p \o h, b, c, << >>) = Whole(a \o p, h, b, c, << >>)
  BY <1>5 DEF Whole
<1>12. QED BY <1>6, <1>7, <1>8, <1>9, <1>10, <1>11

\* What is put is added at the end.
LEMMA LastPut ==
  ASSUME NEW a \in Seq(Chars), NEW p \in Seq(Chars), NEW h \in Seq(Chars), NEW b \in Seq(Chars),
         NEW c \in Seq(Chars)
  PROVE  /\ Whole(a, p, h, b, << >>) \in Seq(Chars)
         /\ Whole(a, p, h, b, << >>) \o c = Whole(a, p, h, b, c)
<1>1. PICK ap \in Seq(Chars), aph \in Seq(Chars), aphb \in Seq(Chars) :
        ap = a \o p /\ aph = ap \o h /\ aphb = aph \o b
  BY ConcatProperties
<1>2. aphb \o << >> = aphb
  BY ConcatEmptySeq
<1>3. QED BY <1>1, <1>2 DEF Whole

-----------------------------------------------------------------------------
(***************************************************************************)
(* As long as the threads have not met, each character is where the        *)
(* program counters say, in one place. The conjuncts of Places are what    *)
(* OutputSeq needs to be the same after each step of put and flush.        *)
(***************************************************************************)
\* Thread t holds a character that it has not yet stored.
Putting(t) ==
  \/ pc[t] \in {"put", "index", "bump", "store"}
  \/ pc[t] \in {"flush", "copy", "reset", "post"} /\ ret[t] = "index"

\* What is where, as long as the threads have not met in the output code.
Places ==
  /\ \A t \in Threads : data.char[t] # Nothing <=> Putting(t)
  /\ \A t \in Threads : pc[t] = "store" => pos = reg[t] + 1
  /\ \A t \in Threads : pc[t] = "reset" => data.text[t] = InBuffer
  /\ pc["ui"] = "run" /\ pc["rexx"] \in {"start", "waitFor", "read", "assign"} => pos = 0
  /\ pc["rexx"] = "readDone" => pos = -1
  /\ \A i \in 1..Len(proc.pipe) : proc.pipe[i][1] = "proc"
  /\ pc["rexx"] = "assign" => \A i \in 0..(reg["rexx"] - 1) : data.buf[i][1] = "proc"

OutputInv ==
  /\ BufferInv /\ overtaken \in BOOLEAN
  /\ ~overlapped => Places /\ Accounted(OutputSeq, written, typed, ~overtaken)

\* The threads have not met, nor do they in the step.
Calm == OutputInv /\ BufferInv' /\ ~overlapped /\ ~overlapped'

\* While a thread is in the output code the other one is not.
LEMMA OtherAway ==
  ASSUME BufferInv, ~overlapped, NEW t \in Threads, Busy(pc[t]), NEW u \in Threads, u # t
  PROVE  ~Busy(pc[u])
BY DEF BufferInv, Alone, Threads

LEMMA CalmFacts ==
  ASSUME Calm
  PROVE  /\ Shape /\ Alone /\ Places /\ Shape' /\ Alone' /\ Threads = {"rexx", "ui"} /\ Size \in Nat \ {0}
         /\ overtaken \in BOOLEAN /\ Accounted(OutputSeq, written, typed, ~overtaken) /\ ~crashed
         /\ Positions
BY SizesAreNat DEF Calm, OutputInv, BufferInv, Threads, Alone

LEMMA PlacesPutTest ==
  ASSUME Calm, NEW t \in Threads, PutTest(t)
  PROVE  Places'
<1>1. /\ Shape /\ Alone /\ Places /\ Threads = {"rexx", "ui"}
  BY CalmFacts
<1>2. /\ data' = data /\ pos' = pos /\ reg' = reg /\ proc' = proc /\ pc[t] = "put"
      /\ \/ pc' = [pc EXCEPT ![t] = "flush"] /\ ret' = [ret EXCEPT ![t] = "index"]
         \/ pc' = [pc EXCEPT ![t] = "index"] /\ ret' = ret
  BY DEF Calm, PutTest, Call, Step, Goto, Hold, outVars, procVars
<1>3. InBuffer' = InBuffer
  BY <1>1, <1>2 DEF InBuffer, Shape
<1>4. QED BY <1>1, <1>2, <1>3 DEF Places, Putting, Shape

LEMMA PlacesPutIndex ==
  ASSUME Calm, NEW t \in Threads, PutIndex(t)
  PROVE  Places'
<1>1. /\ Shape /\ Alone /\ Places /\ Threads = {"rexx", "ui"}
  BY CalmFacts
<1>2. /\ data' = data /\ pos' = pos /\ reg' = [reg EXCEPT ![t] = pos] /\ proc' = proc /\ pc[t] = "index"
      /\ pc' = [pc EXCEPT ![t] = "bump"] /\ ret' = ret
  BY DEF Calm, PutIndex, Step, Goto, Hold, procVars
<1>3. \A u \in Threads : u # t => ~Busy(pc[u])
  BY <1>2, OtherAway DEF Calm, OutputInv, Busy
<1>4. InBuffer' = InBuffer
  BY <1>1, <1>2 DEF InBuffer, Shape
<1>5. QED BY <1>1, <1>2, <1>3, <1>4 DEF Places, Putting, Shape, Busy

LEMMA PlacesPutBump ==
  ASSUME Calm, NEW t \in Threads, PutBump(t)
  PROVE  Places'
<1>1. /\ Shape /\ Alone /\ Places /\ Threads = {"rexx", "ui"}
  BY CalmFacts
<1>2. /\ data' = data /\ pos' = reg[t] + 1 /\ reg' = reg /\ proc' = proc /\ pc[t] = "bump"
      /\ pc' = [pc EXCEPT ![t] = "store"] /\ ret' = ret
  BY DEF Calm, PutBump, Step, Goto, Hold, procVars
<1>3. \A u \in Threads : u # t => ~Busy(pc[u])
  BY <1>2, OtherAway DEF Calm, OutputInv, Busy
<1>4. QED BY <1>1, <1>2, <1>3 DEF Places, Putting, Shape, Busy

\* Storing changes the buffer and the character in hand.
LEMMA Stored ==
  ASSUME Calm, NEW t \in Threads, PutStore(t)
  PROVE  /\ reg[t] \in 0..(Size - 1) /\ pos = reg[t] + 1
         /\ data'.buf = [data.buf EXCEPT ![reg[t]] = data.char[t]]
         /\ data'.char = [data.char EXCEPT ![t] = Nothing]
         /\ data'.text = data.text /\ data'.posted = data.posted /\ data'.shown = data.shown
         /\ pos' = pos /\ reg' = [reg EXCEPT ![t] = 0] /\ proc' = proc /\ pc[t] = "store"
         /\ pc' = [pc EXCEPT ![t] = IF t = "ui" THEN "flush" ELSE "run"]
         /\ ret' = IF t = "ui" THEN [ret EXCEPT ![t] = "run"] ELSE ret
<1>1. /\ Shape /\ Alone /\ Places /\ Threads = {"rexx", "ui"} /\ data \in Data /\ Size \in Nat \ {0}
  BY CalmFacts DEF Shape
<1>2. pos' = pos /\ reg' = [reg EXCEPT ![t] = 0] /\ proc' = proc /\ pc[t] = "store"
  BY DEF Calm, PutStore, Call, Step, Goto, procVars
<1>3. pc' = [pc EXCEPT ![t] = IF t = "ui" THEN "flush" ELSE "run"]
  BY DEF Calm, PutStore, Call, Step, Goto
<1>4. ret' = IF t = "ui" THEN [ret EXCEPT ![t] = "run"] ELSE ret
  BY DEF Calm, PutStore, Call, Step, Goto
<1>5. reg[t] \in 0..(Size - 1) /\ pos = reg[t] + 1
  BY <1>1, <1>2 DEF Alone, Places
<1>6. data' = [data EXCEPT !.buf[reg[t]] = data.char[t], !.char[t] = Nothing]
  BY <1>5 DEF Calm, PutStore, Hold
<1>7. QED BY <1>1, <1>2, <1>3, <1>4, <1>5, <1>6 DEF Data

LEMMA PlacesPutStore ==
  ASSUME Calm, NEW t \in Threads, PutStore(t)
  PROVE  Places'
<1>1. /\ Shape /\ Alone /\ Places /\ Threads = {"rexx", "ui"} /\ data \in Data
  BY CalmFacts DEF Shape
<1>2. /\ data'.char = [data.char EXCEPT ![t] = Nothing]
      /\ pos' = pos /\ reg' = [reg EXCEPT ![t] = 0] /\ proc' = proc /\ pc[t] = "store"
      /\ pc' = [pc EXCEPT ![t] = IF t = "ui" THEN "flush" ELSE "run"]
      /\ ret' = IF t = "ui" THEN [ret EXCEPT ![t] = "run"] ELSE ret
  BY Stored
<1>3. \A u \in Threads : u # t => ~Busy(pc[u])
  BY <1>2, OtherAway DEF Calm, OutputInv, Busy
<1>4. data.char \in [Threads -> Chars]
  BY <1>1 DEF Data
<1>5. ASSUME NEW u \in Threads
      PROVE  /\ data'.char[u] # Nothing <=> Putting(u)'
             /\ pc'[u] \notin {"store", "reset"}
  BY <1>1, <1>2, <1>3, <1>4 DEF Places, Putting, Shape, Busy
<1>6. pc'["rexx"] \notin {"read", "assign", "readDone"}
  BY <1>1, <1>2, <1>3 DEF Shape, Busy
<1>7. pc'["ui"] = "run" /\ pc'["rexx"] \in {"start", "waitFor"} => FALSE
  BY <1>1, <1>2 DEF Shape
<1>8. QED BY <1>1, <1>2, <1>5, <1>6, <1>7 DEF Places

LEMMA PlacesFlushTest ==
  ASSUME Calm, NEW t \in Threads, FlushTest(t)
  PROVE  Places'
<1>1. /\ Shape /\ Alone /\ Places /\ Threads = {"rexx", "ui"}
  BY CalmFacts
<1>2. /\ data' = data /\ pos' = pos /\ reg' = reg /\ proc' = proc /\ pc[t] = "flush" /\ ret' = ret
      /\ pc' = [pc EXCEPT ![t] = IF pos > 0 THEN "copy" ELSE ret[t]]
  BY DEF Calm, FlushTest, Step, Goto, Hold, outVars, procVars
<1>3. \A u \in Threads : u # t => ~Busy(pc[u])
  BY <1>2, OtherAway DEF Calm, OutputInv, Busy
<1>4. pos \in 0..Size
  BY <1>1, <1>2, <1>3 DEF Alone, Busy
<1>5. QED BY <1>1, <1>2, <1>3, <1>4 DEF Places, Putting, Shape, Busy

\* Copying changes the text in hand only.
LEMMA Copied ==
  ASSUME Calm, NEW t \in Threads, FlushCopy(t)
  PROVE  /\ data'.buf = data.buf /\ data'.char = data.char
         /\ data'.text = [data.text EXCEPT ![t] = InBuffer]
         /\ data'.posted = data.posted /\ data'.shown = data.shown
         /\ pos' = pos /\ reg' = reg /\ proc' = proc /\ pc[t] = "copy" /\ ret' = ret
         /\ pc' = [pc EXCEPT ![t] = "reset"]
         /\ InBuffer' = InBuffer
<1>1. /\ Shape /\ Alone /\ Places /\ Threads = {"rexx", "ui"} /\ data \in Data /\ Size \in Nat \ {0}
  BY CalmFacts DEF Shape
<1>2. pos' = pos /\ reg' = reg /\ proc' = proc /\ pc[t] = "copy" /\ ret' = ret
  BY DEF Calm, FlushCopy, Step, Goto, outVars, procVars
<1>3. \A u \in Threads : u # t => ~Busy(pc[u])
  BY <1>2, OtherAway DEF Calm, OutputInv, Busy
<1>4. pos \in 0..Size
  BY <1>1, <1>2, <1>3 DEF Alone, Busy
<1>5. pc' = [pc EXCEPT ![t] = "reset"]
  BY <1>4 DEF Calm, FlushCopy, Step, Goto
<1>6. InBuffer = [i \in 1..pos |-> data.buf[i - 1]]
  BY <1>1, <1>2, <1>3 DEF InBuffer, Busy
<1>7. data' = [data EXCEPT !.text[t] = [i \in 1..pos |-> data.buf[i - 1]]]
  BY DEF Calm, FlushCopy, Hold
<1>8. data' = [data EXCEPT !.text[t] = InBuffer]
  BY <1>6, <1>7, Zenon
<1>9. /\ data'.buf = data.buf /\ data'.char = data.char
      /\ data'.text = [data.text EXCEPT ![t] = InBuffer]
      /\ data'.posted = data.posted /\ data'.shown = data.shown
  <2>1. \A s : /\ [data EXCEPT !.text[t] = s].buf = data.buf /\ [data EXCEPT !.text[t] = s].char = data.char
               /\ [data EXCEPT !.text[t] = s].text = [data.text EXCEPT ![t] = s]
               /\ [data EXCEPT !.text[t] = s].posted = data.posted
               /\ [data EXCEPT !.text[t] = s].shown = data.shown
    BY <1>1 DEF Data
  <2>2. QED BY <1>8, <2>1, Zenon
<1>10. InBuffer' = InBuffer
  <2>1. \A u \in Threads : pc'[u] # "store" /\ pc[u] # "store"
    BY <1>1, <1>2, <1>3, <1>5 DEF Shape, Busy
  <2>2. QED BY <1>1, <1>2, <1>9, <2>1 DEF InBuffer
<1>11. QED BY <1>2, <1>5, <1>9, <1>10

LEMMA PlacesFlushCopy ==
  ASSUME Calm, NEW t \in Threads, FlushCopy(t)
  PROVE  Places'
<1>1. /\ Shape /\ Alone /\ Places /\ Threads = {"rexx", "ui"} /\ data \in Data
  BY CalmFacts DEF Shape
<1>2. /\ data'.buf = data.buf /\ data'.char = data.char
      /\ data'.text = [data.text EXCEPT ![t] = InBuffer]
      /\ pos' = pos /\ reg' = reg /\ proc' = proc /\ pc[t] = "copy" /\ ret' = ret
      /\ pc' = [pc EXCEPT ![t] = "reset"] /\ InBuffer' = InBuffer
  BY Copied
<1>3. \A u \in Threads : u # t => ~Busy(pc[u])
  BY <1>2, OtherAway DEF Calm, OutputInv, Busy
<1>4. data.text \in [Threads -> Seq(Chars)]
  BY <1>1 DEF Data
<1>5. ASSUME NEW u \in Threads
      PROVE  /\ data'.char[u] # Nothing <=> Putting(u)'
             /\ pc'[u] # "store"
             /\ pc'[u] = "reset" => data'.text[u] = InBuffer'
  BY <1>1, <1>2, <1>3, <1>4 DEF Places, Putting, Shape, Busy
<1>6. /\ pc'["rexx"] \notin {"read", "assign", "readDone"}
      /\ ~(pc'["ui"] = "run" /\ pc'["rexx"] \in {"start", "waitFor"})
  BY <1>1, <1>2, <1>3 DEF Shape, Busy
<1>7. QED BY <1>1, <1>2, <1>5, <1>6 DEF Places

LEMMA PlacesFlushReset ==
  ASSUME Calm, NEW t \in Threads, FlushReset(t)
  PROVE  Places'
<1>1. /\ Shape /\ Alone /\ Places /\ Threads = {"rexx", "ui"}
  BY CalmFacts
<1>2. /\ data' = data /\ pos' = 0 /\ reg' = reg /\ proc' = proc /\ pc[t] = "reset" /\ ret' = ret
      /\ pc' = [pc EXCEPT ![t] = "post"]
  BY DEF Calm, FlushReset, Step, Goto, Hold, procVars
<1>3. \A u \in Threads : u # t => ~Busy(pc[u])
  BY <1>2, OtherAway DEF Calm, OutputInv, Busy
<1>4. QED BY <1>1, <1>2, <1>3 DEF Places, Putting, Shape, Busy

\* A text that is posted leaves the hand of its thread.
LEMMA Posted ==
  ASSUME Calm, NEW t \in Threads, FlushPost(t)
  PROVE  /\ data'.buf = data.buf /\ data'.char = data.char
         /\ data'.text = [data.text EXCEPT ![t] = << >>]
         /\ t = "ui" => data'.posted = data.posted /\ data'.shown = data.shown \o data.text[t]
         /\ t = "rexx" => data'.posted = Append(data.posted, data.text[t]) /\ data'.shown = data.shown
         /\ pos' = pos /\ pos = 0 /\ reg' = reg /\ proc' = proc /\ pc[t] = "post" /\ ret' = ret
         /\ pc' = [pc EXCEPT ![t] = ret[t]]
<1>1. /\ Shape /\ Alone /\ Places /\ Threads = {"rexx", "ui"} /\ data \in Data
  BY CalmFacts DEF Shape
<1>2. pos' = pos /\ reg' = reg /\ proc' = proc /\ pc[t] = "post" /\ ret' = ret
      /\ pc' = [pc EXCEPT ![t] = ret[t]]
  BY DEF Calm, FlushPost, Step, Goto, outVars, procVars
<1>3. pos = 0
  BY <1>1, <1>2 DEF Alone
<1>4. CASE t = "ui"
  <2>1. data' = [data EXCEPT !.shown = data.shown \o data.text[t], !.text[t] = << >>]
    BY <1>1, <1>4 DEF Calm, FlushPost, Hold, Data
  <2>2. \A s : /\ [data EXCEPT !.shown = s, !.text[t] = << >>].buf = data.buf
               /\ [data EXCEPT !.shown = s, !.text[t] = << >>].char = data.char
               /\ [data EXCEPT !.shown = s, !.text[t] = << >>].text = [data.text EXCEPT ![t] = << >>]
               /\ [data EXCEPT !.shown = s, !.text[t] = << >>].posted = data.posted
               /\ [data EXCEPT !.shown = s, !.text[t] = << >>].shown = s
    BY <1>1 DEF Data
  <2>3. QED BY <1>2, <1>3, <1>4, <2>1, <2>2
<1>5. CASE t = "rexx"
  <2>1. data' = [data EXCEPT !.posted = Append(data.posted, data.text[t]), !.text[t] = << >>]
    BY <1>1, <1>5 DEF Calm, FlushPost, Hold, Data
  <2>2. \A s : /\ [data EXCEPT !.posted = s, !.text[t] = << >>].buf = data.buf
               /\ [data EXCEPT !.posted = s, !.text[t] = << >>].char = data.char
               /\ [data EXCEPT !.posted = s, !.text[t] = << >>].text = [data.text EXCEPT ![t] = << >>]
               /\ [data EXCEPT !.posted = s, !.text[t] = << >>].posted = s
               /\ [data EXCEPT !.posted = s, !.text[t] = << >>].shown = data.shown
    BY <1>1 DEF Data
  <2>3. QED BY <1>2, <1>3, <1>5, <2>1, <2>2
<1>6. QED BY <1>1, <1>4, <1>5

LEMMA PlacesFlushPost ==
  ASSUME Calm, NEW t \in Threads, FlushPost(t)
  PROVE  Places'
<1>1. /\ Shape /\ Alone /\ Places /\ Threads = {"rexx", "ui"}
  BY CalmFacts
<1>2. /\ data'.buf = data.buf /\ data'.char = data.char
      /\ pos' = pos /\ pos = 0 /\ reg' = reg /\ proc' = proc /\ pc[t] = "post" /\ ret' = ret
      /\ pc' = [pc EXCEPT ![t] = ret[t]]
  BY Posted
<1>3. \A u \in Threads : u # t => ~Busy(pc[u])
  BY <1>2, OtherAway DEF Calm, OutputInv, Busy
<1>4. ASSUME NEW u \in Threads
      PROVE  /\ data'.char[u] # Nothing <=> Putting(u)'
             /\ pc'[u] \notin {"store", "reset"}
  BY <1>1, <1>2, <1>3 DEF Places, Putting, Shape, Busy
<1>5. pc'["rexx"] \notin {"assign", "readDone"}
  BY <1>1, <1>2, <1>3 DEF Shape, Busy
<1>6. QED BY <1>1, <1>2, <1>4, <1>5 DEF Places

LEMMA PlacesPut ==
  ASSUME Calm, Put
  PROVE  /\ Places'
         /\ data'.buf = data.buf /\ data'.text = data.text /\ data'.posted = data.posted
         /\ data'.shown = data.shown /\ data.char["rexx"] = Nothing
         /\ data'.char = [data.char EXCEPT !["rexx"] = <<"rexx", written + 1>>]
         /\ pc["rexx"] = "run" /\ pc' = [pc EXCEPT !["rexx"] = "put"] /\ pos' = pos
<1>1. /\ Shape /\ Alone /\ Places /\ Threads = {"rexx", "ui"} /\ data \in Data /\ Alone'
  BY CalmFacts DEF Shape
<1>2. /\ written' = written + 1 /\ pos' = pos /\ reg' = reg /\ proc' = proc /\ pc["rexx"] = "run"
      /\ ret' = ret /\ pc' = [pc EXCEPT !["rexx"] = "put"]
  BY DEF Put, Step, Goto, procVars
<1>3. data' = [data EXCEPT !.char["rexx"] = <<"rexx", written + 1>>]
  BY <1>2 DEF Calm, Put, Hold
<1>4. /\ data'.buf = data.buf /\ data'.text = data.text /\ data'.posted = data.posted
      /\ data'.shown = data.shown /\ data'.char = [data.char EXCEPT !["rexx"] = <<"rexx", written + 1>>]
  BY <1>1, <1>3 DEF Data
<1>5. <<"rexx", written + 1>> # Nothing
  BY DEF Nothing
<1>6. data.char \in [Threads -> Chars]
  BY <1>1 DEF Data
<1>7. pc'["ui"] = "run" /\ pc["ui"] = "run" /\ pc'["rexx"] = "put"
  BY <1>1, <1>2 DEF Alone, Busy, Shape, PutPlaces
<1>8. data'.char["rexx"] # Nothing /\ data'.char["ui"] = data.char["ui"]
  BY <1>1, <1>4, <1>5, <1>6
<1>9. data.char["ui"] = Nothing /\ data.char["rexx"] = Nothing
  BY <1>1, <1>2, <1>7 DEF Places, Putting
<1>10. Putting("rexx")' /\ ~Putting("ui")'
  BY <1>7 DEF Putting
<1>11. Places'
  BY <1>1, <1>2, <1>7, <1>8, <1>9, <1>10 DEF Places
<1>12. QED BY <1>2, <1>4, <1>9, <1>11

LEMMA PlacesOnKey ==
  ASSUME Calm, OnKey
  PROVE  /\ Places'
         /\ data'.buf = data.buf /\ data'.text = data.text /\ data'.posted = data.posted
         /\ data'.shown = data.shown /\ data.char["rexx"] = Nothing /\ data.char["ui"] = Nothing
         /\ data'.char = [data.char EXCEPT !["ui"] = <<"key", typed + 1>>]
         /\ ~Busy(pc["rexx"]) /\ ~Busy(pc'["rexx"]) /\ pc["ui"] = "run" /\ pc'["ui"] = "put" /\ pos' = pos
<1>1. /\ Shape /\ Alone /\ Places /\ Threads = {"rexx", "ui"} /\ data \in Data
  BY CalmFacts DEF Shape
<1>2. /\ typed' = typed + 1 /\ pos' = pos /\ reg' = reg /\ proc' = proc /\ pc["ui"] = "run"
      /\ ret' = ret /\ pc' = [ui |-> "put", rexx |-> IF pc["rexx"] = "wait" THEN "key" ELSE pc["rexx"]]
  BY DEF OnKey, outVars, procVars
<1>3. data' = [data EXCEPT !.char["ui"] = <<"key", typed + 1>>]
  BY <1>2 DEF Calm, OnKey, Hold
<1>4. /\ data'.buf = data.buf /\ data'.text = data.text /\ data'.posted = data.posted
      /\ data'.shown = data.shown /\ data'.char = [data.char EXCEPT !["ui"] = <<"key", typed + 1>>]
  BY <1>1, <1>3 DEF Data
<1>5. <<"key", typed + 1>> # Nothing
  BY DEF Nothing
<1>6. data.char \in [Threads -> Chars]
  BY <1>1 DEF Data
<1>7. ~Busy(pc["rexx"])
  BY DEF Calm, OnKey
<1>8. pc'["ui"] = "put" /\ pc'["rexx"] \in {"run", "key", "wait", "start", "waitFor", "done"}
      /\ pc["rexx"] \in {"run", "key", "wait", "start", "waitFor", "done"}
  BY <1>2, <1>7 DEF Busy
<1>9. data'.char["ui"] # Nothing /\ data'.char["rexx"] = data.char["rexx"]
  BY <1>1, <1>4, <1>5, <1>6
<1>10. data.char["ui"] = Nothing /\ data.char["rexx"] = Nothing
  BY <1>1, <1>2, <1>8 DEF Places, Putting
<1>11. Putting("ui")' /\ ~Putting("rexx")'
  BY <1>8 DEF Putting
<1>12. Places'
  BY <1>1, <1>2, <1>8, <1>9, <1>10, <1>11 DEF Places
<1>13. QED BY <1>2, <1>4, <1>7, <1>8, <1>10, <1>12 DEF Busy

\* What the interpreter does elsewhere moves no character.
LEMMA PlacesElsewhere ==
  ASSUME Calm, Get \/ System \/ Finish \/ GetKey \/ GetTimeout \/ Start \/ StartFails \/ WaitFor
  PROVE  /\ Places' /\ data' = data /\ InBuffer' = InBuffer
         /\ pc["rexx"] # "post" /\ pc'["rexx"] # "post" /\ pc'["ui"] = pc["ui"]
<1>1. /\ Shape /\ Alone /\ Places /\ Threads = {"rexx", "ui"} /\ Alone'
  BY CalmFacts
<1>2. data' = data /\ pos' = pos /\ reg' = reg
  BY DEF Calm, Get, System, Finish, GetKey, GetTimeout, Start, StartFails, WaitFor, Hold, outVars
<1>3. /\ pc["rexx"] \in {"run", "key", "wait", "start", "waitFor"}
      /\ \E q \in {"flush", "run", "key", "wait", "waitFor", "read"} :
           /\ pc' = [pc EXCEPT !["rexx"] = q]
           /\ q = "flush" => ret'["rexx"] # "index"
           /\ q = "waitFor" => pc["rexx"] = "start"
           /\ q = "read" => pc["rexx"] = "waitFor"
  BY <1>1 DEF Get, System, Finish, GetKey, GetTimeout, Start, StartFails, WaitFor, Call, Step, Goto, Shape
<1>4. ret'["ui"] = ret["ui"]
  BY <1>1 DEF Get, System, Finish, GetKey, GetTimeout, Start, StartFails, WaitFor, Call, Step, Shape
<1>5. PICK q \in {"flush", "run", "key", "wait", "waitFor", "read"} :
           /\ pc' = [pc EXCEPT !["rexx"] = q]
           /\ q = "flush" => ret'["rexx"] # "index"
           /\ q = "waitFor" => pc["rexx"] = "start"
           /\ q = "read" => pc["rexx"] = "waitFor"
  BY <1>3
<1>6. pc'["rexx"] = q /\ pc'["ui"] = pc["ui"]
  BY <1>1, <1>5 DEF Shape
<1>7. \A t \in Threads : (pc'[t] = "store" <=> pc[t] = "store") /\ (pc'[t] = "reset" <=> pc[t] = "reset")
  BY <1>1, <1>3, <1>6
<1>8. InBuffer' = InBuffer
  BY <1>2, <1>7 DEF InBuffer
<1>9. \A i \in 1..Len(proc'.pipe) : proc'.pipe[i][1] = "proc"
  <2>1. CASE Start
    <3>1. proc'.pipe = << >>
      BY <2>1 DEF Start
    <3>2. Len(proc'.pipe) = 0
      BY <3>1, EmptySeq
    <3>3. QED BY <3>2
  <2>2. CASE WaitFor /\ proc.isRexx
    <3>1. proc'.pipe = << >>
      BY <2>2 DEF WaitFor, NoProc
    <3>2. Len(proc'.pipe) = 0
      BY <3>1, EmptySeq
    <3>3. QED BY <3>2
  <2>3. CASE proc' = proc
    BY <1>1, <2>3 DEF Places
  <2>4. QED BY <2>1, <2>2, <2>3
        DEF Get, System, Finish, GetKey, GetTimeout, StartFails, WaitFor, procVars
<1>10. ASSUME NEW t \in Threads PROVE Putting(t)' <=> Putting(t)
  <2>1. CASE t = "ui"
    BY <1>4, <1>6, <2>1 DEF Putting
  <2>2. CASE t = "rexx"
    BY <1>3, <1>5, <1>6, <2>2 DEF Putting
  <2>3. QED BY <1>1, <2>1, <2>2
<1>11. Places'
  BY <1>1, <1>2, <1>3, <1>5, <1>6, <1>7, <1>8, <1>9, <1>10 DEF Places
<1>12. QED BY <1>2, <1>3, <1>6, <1>8, <1>11

LEMMA PlacesRead ==
  ASSUME Calm, Read
  PROVE  /\ Places' /\ InBuffer' = InBuffer
         /\ data'.text = data.text /\ data'.char = data.char /\ data'.posted = data.posted
         /\ data'.shown = data.shown
         /\ pc["rexx"] = "read" /\ pc'["rexx"] = "assign" /\ pc'["ui"] = pc["ui"]
<1>1. /\ Shape /\ Alone /\ Places /\ Threads = {"rexx", "ui"} /\ data \in Data /\ Size \in Nat \ {0}
      /\ proc \in [pipe : Seq(Chars), left : Nat, printed : Nat, isRexx : BOOLEAN]
  BY CalmFacts DEF Shape
<1>2. pc["rexx"] = "read" /\ pc' = [pc EXCEPT !["rexx"] = "assign"] /\ ret' = ret /\ pos' = pos
  BY DEF Read, Step, Goto
<1>3. pc["ui"] = "run"
  BY <1>1, <1>2 DEF Alone, Busy, Shape, PutPlaces
<1>4. pos = 0 /\ pc'["ui"] = "run" /\ pc'["rexx"] = "assign"
  BY <1>1, <1>2, <1>3 DEF Places, Shape
<1>5. Len(proc.pipe) \in Nat
  BY <1>1, LenProperties
<1>6. PICK n \in 0..Size : n = IF Len(proc.pipe) < Size THEN Len(proc.pipe) ELSE Size
  BY <1>1, <1>5
<1> DEFINE b == [i \in DOMAIN data.buf |-> IF i < n THEN proc.pipe[i + 1] ELSE data.buf[i]]
<1>7. data' = [data EXCEPT !.buf = [i \in DOMAIN @ |-> IF i < n THEN proc.pipe[i + 1] ELSE @[i]]]
  BY <1>6, Zenon DEF Calm, Read, Hold
<1>8. [data EXCEPT !.buf = [i \in DOMAIN @ |-> IF i < n THEN proc.pipe[i + 1] ELSE @[i]]] = [data EXCEPT !.buf = b]
  BY <1>1 DEF Data
<1>9. reg' = [reg EXCEPT !["rexx"] = IF n = 0 THEN -1 ELSE n] /\ proc' = [proc EXCEPT !.pipe = SubSeq(@, n + 1, Len(@))]
  BY <1>6, Zenon DEF Read
<1>10. \A i \in 0..(n - 1) : b[i] = proc.pipe[i + 1] /\ i + 1 \in 1..Len(proc.pipe)
  <2>1. DOMAIN data.buf = 0..(Size - 1)
    BY <1>1 DEF Data
  <2>2. \A i \in 0..(n - 1) : i \in 0..(Size - 1) /\ i < n /\ i + 1 \in 1..Len(proc.pipe)
    BY <1>1, <1>5, <1>6
  <2>3. QED BY <2>1, <2>2
<1> HIDE DEF b
<1>11. /\ data'.buf = b /\ data'.text = data.text /\ data'.char = data.char
       /\ data'.posted = data.posted /\ data'.shown = data.shown
  BY <1>1, <1>7, <1>8 DEF Data
<1>12. \A i \in 0..(reg'["rexx"] - 1) : data'.buf[i][1] = "proc"
  <2>1. reg'["rexx"] = IF n = 0 THEN -1 ELSE n
    BY <1>1, <1>9 DEF Shape
  <2>2. \A i \in 0..(reg'["rexx"] - 1) : i \in 0..(n - 1)
    BY <1>6, <2>1
  <2>3. QED BY <1>1, <1>10, <1>11, <2>2 DEF Places
<1>13. \A i \in 1..Len(proc'.pipe) : proc'.pipe[i][1] = "proc"
  <2>1. proc'.pipe = SubSeq(proc.pipe, n + 1, Len(proc.pipe))
    BY <1>1, <1>9
  <2>2. \A i \in (n + 1)..Len(proc.pipe) : proc.pipe[i] \in {c \in Chars : c[1] = "proc"}
    <3>1. \A i \in (n + 1)..Len(proc.pipe) : i \in 1..Len(proc.pipe)
      BY <1>5, <1>6
    <3>2. \A i \in 1..Len(proc.pipe) : proc.pipe[i] \in Chars
      BY <1>1, ElementOfSeq
    <3>3. QED BY <1>1, <3>1, <3>2 DEF Places
  <2>3. SubSeq(proc.pipe, n + 1, Len(proc.pipe)) \in Seq({c \in Chars : c[1] = "proc"})
    BY <1>5, <1>6, <2>2, SubSeqProperties
  <2>4. QED BY <2>1, <2>3, ElementOfSeq
<1>14. InBuffer' = InBuffer
  <2>1. \A t \in Threads : pc'[t] # "store" /\ pc[t] # "store"
    BY <1>1, <1>2, <1>3, <1>4
  <2>2. InBuffer = << >> /\ InBuffer' = << >>
    BY <1>2, <1>4, <2>1 DEF InBuffer
  <2>3. QED BY <2>2
<1>15. ASSUME NEW t \in Threads PROVE (Putting(t)' <=> Putting(t)) /\ pc'[t] \notin {"store", "reset"}
  BY <1>1, <1>2, <1>3, <1>4 DEF Putting
<1>16. Places'
  BY <1>1, <1>2, <1>4, <1>11, <1>12, <1>13, <1>15 DEF Places
<1>17. QED BY <1>2, <1>3, <1>4, <1>11, <1>14, <1>16

LEMMA PlacesAssign ==
  ASSUME Calm, Assign
  PROVE  /\ Places' /\ data' = data
         /\ InBuffer = << >> /\ InBuffer' \in Seq(Chars)
         /\ \A i \in DOMAIN InBuffer' : InBuffer'[i][1] = "proc"
         /\ pc["rexx"] = "assign" /\ pc'["rexx"] \in {"readDone", "flush"} /\ pc'["ui"] = pc["ui"]
         /\ pc["ui"] = "run"
<1>1. /\ Shape /\ Alone /\ Places /\ Threads = {"rexx", "ui"} /\ data \in Data /\ Size \in Nat \ {0}
      /\ Positions
  BY CalmFacts DEF Shape
<1>2. /\ pc["rexx"] = "assign" /\ data' = data /\ pos' = reg["rexx"] /\ reg' = [reg EXCEPT !["rexx"] = 0]
      /\ proc' = proc
      /\ pc' = [pc EXCEPT !["rexx"] = IF reg["rexx"] = -1 THEN "readDone" ELSE "flush"]
      /\ ret' = IF reg["rexx"] = -1 THEN ret ELSE [ret EXCEPT !["rexx"] = "read"]
  BY DEF Calm, Assign, Call, Step, Goto, Hold, procVars
<1>3. pc["ui"] = "run"
  BY <1>1, <1>2 DEF Alone, Busy, Shape, PutPlaces
<1>4. pos = 0 /\ pc'["ui"] = "run" /\ pc'["rexx"] = IF reg["rexx"] = -1 THEN "readDone" ELSE "flush"
  BY <1>1, <1>2, <1>3 DEF Places, Shape
<1>5. reg["rexx"] \in -1..Size
  BY <1>1, <1>2 DEF Positions, Shape
<1>6. \A t \in Threads : pc'[t] # "store" /\ pc[t] # "store" /\ pc'[t] # "reset" /\ pc[t] # "reset"
  BY <1>1, <1>2, <1>3, <1>4
<1>7. InBuffer = << >>
  BY <1>4, <1>6 DEF InBuffer
<1>8. InBuffer' = [i \in 1..reg["rexx"] |-> data.buf[i - 1]]
  BY <1>2, <1>6 DEF InBuffer
<1>9. PICK n \in 0..Size : n = IF reg["rexx"] = -1 THEN 0 ELSE reg["rexx"]
  BY <1>1, <1>5
<1>10. 1..reg["rexx"] = 1..n
  BY <1>5, <1>9
<1>11. \A i \in 1..n : data.buf[i - 1] \in Chars /\ data.buf[i - 1][1] = "proc"
  <2>1. \A i \in 1..n : i - 1 \in 0..(Size - 1) /\ i - 1 \in 0..(reg["rexx"] - 1)
    BY <1>1, <1>5, <1>9
  <2>2. data.buf \in [0..(Size - 1) -> Chars]
    BY <1>1 DEF Data
  <2>3. QED BY <1>1, <1>2, <2>1, <2>2 DEF Places
<1>12. PICK s : s = [i \in 1..n |-> data.buf[i - 1]]
  OBVIOUS
<1>13. s \in Seq(Chars)
  <2>1. s \in [1..n -> Chars]
    BY <1>11, <1>12
  <2>2. n \in Nat
    BY <1>1
  <2>3. QED BY <2>1, <2>2, SeqDef
<1>14. InBuffer' = s
  BY <1>8, <1>10, <1>12
<1>15. \A i \in DOMAIN s : s[i][1] = "proc"
  BY <1>11, <1>12
<1>16. ASSUME NEW t \in Threads PROVE ~Putting(t)' /\ ~Putting(t)
  BY <1>1, <1>2, <1>3, <1>4 DEF Putting, Shape
<1>17. Places'
  BY <1>1, <1>2, <1>4, <1>6, <1>16 DEF Places
<1>18. QED BY <1>2, <1>3, <1>4, <1>7, <1>13, <1>14, <1>15, <1>17

LEMMA PlacesReadDone ==
  ASSUME Calm, ReadDone
  PROVE  /\ Places' /\ data' = data /\ InBuffer' = InBuffer
         /\ pc["rexx"] = "readDone" /\ pc'["rexx"] = "run" /\ pc'["ui"] = pc["ui"]
<1>1. /\ Shape /\ Alone /\ Places /\ Threads = {"rexx", "ui"}
  BY CalmFacts
<1>2. /\ pc["rexx"] = "readDone" /\ data' = data /\ pos' = 0 /\ reg' = reg
      /\ proc' = NoProc /\ ret' = ret /\ pc' = [pc EXCEPT !["rexx"] = "run"]
  BY DEF Calm, ReadDone, Step, Goto, Hold
<1>3. pc["ui"] = "run"
  BY <1>1, <1>2 DEF Alone, Busy, Shape, PutPlaces
<1>4. pos = -1 /\ pc'["ui"] = "run" /\ pc'["rexx"] = "run"
  BY <1>1, <1>2, <1>3 DEF Places, Shape
<1>5. \A t \in Threads : pc'[t] \notin {"store", "reset"} /\ pc[t] # "store"
  BY <1>1, <1>2, <1>3, <1>4
<1>6. InBuffer = << >> /\ InBuffer' = << >>
  BY <1>2, <1>4, <1>5 DEF InBuffer
<1>7. Len(proc'.pipe) = 0
  BY <1>2, EmptySeq DEF NoProc
<1>8. ASSUME NEW t \in Threads PROVE ~Putting(t)' /\ ~Putting(t)
  BY <1>1, <1>2, <1>3, <1>4 DEF Putting, Shape
<1>9. Places'
  BY <1>1, <1>2, <1>4, <1>5, <1>7, <1>8 DEF Places
<1>10. QED BY <1>2, <1>3, <1>4, <1>6, <1>9

LEMMA PlacesProcWrites ==
  ASSUME Calm, ProcWrites
  PROVE  Places' /\ data' = data /\ InBuffer' = InBuffer /\ pc' = pc
<1>1. /\ Shape /\ Alone /\ Places /\ Threads = {"rexx", "ui"}
      /\ proc \in [pipe : Seq(Chars), left : Nat, printed : Nat, isRexx : BOOLEAN]
  BY CalmFacts DEF Shape
<1>2. UNCHANGED <<pos, reg, data, pc, ret>>
  BY DEF ProcWrites, outVars
<1>3. proc'.pipe = Append(proc.pipe, <<"proc", proc.printed + 1>>)
  BY <1>1 DEF ProcWrites
<1>4. <<"proc", proc.printed + 1>> \in Chars
  BY <1>1 DEF Chars
<1>5. /\ Len(proc.pipe) \in Nat /\ Len(proc'.pipe) = Len(proc.pipe) + 1
      /\ \A i \in 1..Len(proc.pipe) : proc'.pipe[i] = proc.pipe[i]
      /\ proc'.pipe[Len(proc.pipe) + 1] = <<"proc", proc.printed + 1>>
  BY <1>1, <1>3, <1>4, AppendProperties, LenProperties
<1>6. ASSUME NEW i \in 1..Len(proc'.pipe) PROVE proc'.pipe[i][1] = "proc"
  <2>1. i \in 1..Len(proc.pipe) \/ i = Len(proc.pipe) + 1
    BY <1>5
  <2>2. QED BY <1>1, <1>5, <2>1 DEF Places
<1>7. InBuffer' = InBuffer
  BY <1>2 DEF InBuffer
<1>8. \A t \in Threads : Putting(t)' <=> Putting(t)
  BY <1>2 DEF Putting
<1>9. Places'
  BY <1>1, <1>2, <1>6, <1>7, <1>8 DEF Places
<1>10. QED BY <1>2, <1>7, <1>9

LEMMA PlacesShow ==
  ASSUME Calm, Show
  PROVE  /\ Places' /\ InBuffer' = InBuffer /\ pc' = pc
         /\ data'.text = data.text /\ data'.char = data.char
         /\ data.posted # << >> /\ data'.posted = Tail(data.posted)
         /\ data'.shown = data.shown \o Head(data.posted)
<1>1. /\ Shape /\ Alone /\ Places /\ Threads = {"rexx", "ui"} /\ data \in Data
  BY CalmFacts DEF Shape
<1>2. UNCHANGED <<pos, reg, proc, pc, ret>> /\ data.posted # << >>
  BY DEF Show, outVars, procVars
<1>3. /\ data'.buf = data.buf /\ data'.text = data.text /\ data'.char = data.char
      /\ data'.posted = Tail(data.posted) /\ data'.shown = data.shown \o Head(data.posted)
  BY <1>1 DEF Show, Data
<1>4. InBuffer' = InBuffer
  BY <1>2, <1>3 DEF InBuffer
<1>5. \A t \in Threads : Putting(t)' <=> Putting(t)
  BY <1>2 DEF Putting
<1>6. Places'
  BY <1>1, <1>2, <1>3, <1>4, <1>5 DEF Places
<1>7. QED BY <1>2, <1>3, <1>4, <1>6

-----------------------------------------------------------------------------
(***************************************************************************)
(* The steps, seen from OutputSeq: what put and flush do leaves it as it   *)
(* is, or, when an echo overtakes a text, as it is but for the order.      *)
(***************************************************************************)
LEMMA PiecesTyped ==
  ASSUME Shape, Alone, Places
  PROVE  /\ data.shown \in Seq(Chars) /\ FlattenSeq(data.posted) \in Seq(Chars)
         /\ \A t \in Threads : InHand(t) \in Seq(Chars) /\ InPut(t) \in Seq(Chars)
         /\ InHand("rexx") \o InHand("ui") \in Seq(Chars)
         /\ InPut("rexx") \o InPut("ui") \in Seq(Chars)
         /\ InBuffer \in Seq(Chars)
<1>1. /\ Threads = {"rexx", "ui"} /\ data \in Data /\ Size \in Nat \ {0}
  BY SizesAreNat DEF Threads, Shape
<1>2. data.shown \in Seq(Chars) /\ data.posted \in Texts
      /\ data.text \in [Threads -> Seq(Chars)] /\ data.char \in [Threads -> Chars]
      /\ data.buf \in [0..(Size - 1) -> Chars]
  BY <1>1 DEF Data, Texts
<1>3. FlattenSeq(data.posted) \in Seq(Chars)
  BY <1>2, FlattenType
<1>4. ASSUME NEW t \in Threads PROVE InHand(t) \in Seq(Chars) /\ InPut(t) \in Seq(Chars)
  BY <1>2, EmptySeq, SingleText DEF InHand, InPut
<1>5. InHand("rexx") \o InHand("ui") \in Seq(Chars) /\ InPut("rexx") \o InPut("ui") \in Seq(Chars)
  BY <1>1, <1>4, ConcatProperties
<1>6. InBuffer \in Seq(Chars)
  <2>1. PICK n : n = IF \E t \in Threads : pc[t] = "store" THEN pos - 1 ELSE pos
    OBVIOUS
  <2>2. InBuffer = [i \in 1..n |-> data.buf[i - 1]]
    BY <2>1 DEF InBuffer
  <2>3. n \in -1..Size
    BY <1>1, <2>1 DEF Alone, Places, Shape
  <2>4. PICK k \in 0..Size : 1..n = 1..k
    <3>1. n \in 0..Size \/ (n = -1 /\ 1..n = 1..0)
      BY <2>3
    <3>2. QED BY <1>1, <3>1
  <2>5. \A i \in 1..k : data.buf[i - 1] \in Chars
    <3>1. \A i \in 1..k : i - 1 \in 0..(Size - 1)
      BY <1>1
    <3>2. QED BY <1>2, <3>1
  <2>6. [i \in 1..k |-> data.buf[i - 1]] \in Seq(Chars)
    <3>1. [i \in 1..k |-> data.buf[i - 1]] \in [1..k -> Chars]
      BY <2>5
    <3>2. k \in Nat
      BY <1>1
    <3>3. QED BY <3>1, <3>2, SeqDef
  <2>7. QED BY <2>2, <2>4, <2>6
<1>7. QED BY <1>2, <1>3, <1>4, <1>5, <1>6

LEMMA OutputIs ==
  OutputSeq = Whole(data.shown, FlattenSeq(data.posted), InHand("rexx") \o InHand("ui"), InBuffer,
                    InPut("rexx") \o InPut("ui"))
BY DEF OutputSeq, Whole

\* Nothing that is on its way moves.
LEMMA NothingMoves ==
  ASSUME data'.shown = data.shown, data'.posted = data.posted, data'.char = data.char, InBuffer' = InBuffer,
         InHand("rexx")' = InHand("rexx"), InHand("ui")' = InHand("ui")
  PROVE  OutputSeq' = OutputSeq
<1>1. InPut("rexx")' = InPut("rexx") /\ InPut("ui")' = InPut("ui")
  BY DEF InPut
<1>2. QED BY <1>1 DEF OutputSeq

\* What is to be shown of a step that ends without a meeting.
Done == Accounted(OutputSeq, written, typed, ~overtaken)

LEMMA PutSteps ==
  ASSUME Calm, NEW t \in Threads, PutTest(t) \/ PutIndex(t) \/ PutBump(t) \/ FlushTest(t) \/ FlushCopy(t)
  PROVE  Done'
<1>1. /\ Shape /\ Alone /\ Places /\ Threads = {"rexx", "ui"} /\ data \in Data /\ Done
  BY CalmFacts DEF Shape, Done
<1>2. UNCHANGED <<written, typed, overtaken>>
  BY DEF PutTest, PutIndex, PutBump, FlushTest, FlushCopy, outVars, keyVars
<1>3. /\ pc[t] \in {"put", "index", "bump", "flush", "copy"}
      /\ \E q \in {"flush", "index", "bump", "store", "copy", "reset"} \union {ret[t]} : pc' = [pc EXCEPT ![t] = q]
  BY DEF PutTest, PutIndex, PutBump, FlushTest, FlushCopy, Call, Step, Goto
<1>4. /\ data'.shown = data.shown /\ data'.posted = data.posted /\ data'.char = data.char
      /\ data'.buf = data.buf /\ \A u \in Threads : u # t => data'.text[u] = data.text[u]
  <2>1. CASE FlushCopy(t)
    <3>1. data.text \in [Threads -> Seq(Chars)]
      BY <1>1 DEF Data
    <3>2. QED BY <2>1, <3>1, Copied
  <2>2. CASE PutTest(t) \/ PutIndex(t) \/ PutBump(t) \/ FlushTest(t)
    BY <2>2 DEF Calm, PutTest, PutIndex, PutBump, FlushTest, Hold
  <2>3. QED BY <2>1, <2>2
<1>5. pc[t] # "post" /\ pc'[t] # "post" /\ \A u \in Threads : u # t => pc'[u] = pc[u]
  BY <1>1, <1>3 DEF Shape
<1>6. ASSUME NEW u \in Threads PROVE InHand(u)' = InHand(u)
  BY <1>4, <1>5 DEF InHand
<1>7. \A u \in Threads : u # t => ~Busy(pc[u])
  BY <1>3, OtherAway DEF Calm, OutputInv, Busy
<1>8. \A u \in Threads : pc[u] # "store"
  BY <1>3, <1>7 DEF Busy
<1>9. InBuffer = [i \in 1..pos |-> data.buf[i - 1]]
  BY <1>8 DEF InBuffer
<1>10. InBuffer' = InBuffer
  <2>1. CASE PutBump(t)
    <3>1. pos' = reg[t] + 1 /\ pc[t] = "bump" /\ pc'[t] = "store"
      BY <1>1, <2>1 DEF PutBump, Step, Goto, Shape
    <3>2. pos' - 1 = pos
      BY <1>1, <3>1 DEF Alone, Shape
    <3>3. InBuffer' = [i \in 1..(pos' - 1) |-> data'.buf[i - 1]]
      BY <3>1 DEF InBuffer
    <3>4. QED BY <1>4, <1>9, <3>2, <3>3
  <2>2. CASE PutTest(t) \/ PutIndex(t) \/ FlushTest(t) \/ FlushCopy(t)
    <3>1. pos' = pos /\ pc'[t] # "store"
      BY <1>1, <2>2 DEF PutTest, PutIndex, FlushTest, FlushCopy, Call, Step, Goto, outVars, Shape
    <3>2. \A u \in Threads : pc'[u] # "store"
      BY <1>5, <1>8, <3>1
    <3>3. InBuffer' = [i \in 1..pos' |-> data'.buf[i - 1]]
      BY <3>2 DEF InBuffer
    <3>4. QED BY <1>4, <1>9, <3>1, <3>3
  <2>3. QED BY <2>1, <2>2
<1>11. OutputSeq' = OutputSeq
  BY <1>1, <1>4, <1>6, <1>10, NothingMoves
<1>12. QED BY <1>1, <1>2, <1>11 DEF Done

LEMMA OtherSteps ==
  ASSUME Calm,
         Get \/ System \/ Finish \/ GetKey \/ GetTimeout \/ Start \/ StartFails \/ WaitFor \/ Read
         \/ ReadDone \/ ProcWrites
  PROVE  Done'
<1>1. Threads = {"rexx", "ui"} /\ Done
  BY CalmFacts DEF Done
<1>2. UNCHANGED <<written, typed, overtaken>>
  BY DEF Get, System, Finish, GetKey, GetTimeout, Start, StartFails, WaitFor, Read, ReadDone, ProcWrites,
     outVars, keyVars
<1>3. /\ data'.shown = data.shown /\ data'.posted = data.posted /\ data'.char = data.char
      /\ data'.text = data.text /\ InBuffer' = InBuffer
      /\ pc'["ui"] = pc["ui"]
      /\ (pc["rexx"] # "post" /\ pc'["rexx"] # "post") \/ pc'["rexx"] = pc["rexx"]
  <2>1. CASE Get \/ System \/ Finish \/ GetKey \/ GetTimeout \/ Start \/ StartFails \/ WaitFor
    BY <2>1, PlacesElsewhere
  <2>2. CASE Read
    BY <2>2, PlacesRead
  <2>3. CASE ReadDone
    BY <2>3, PlacesReadDone
  <2>4. CASE ProcWrites
    BY <2>4, PlacesProcWrites
  <2>5. QED BY <2>1, <2>2, <2>3, <2>4
<1>4. InHand("rexx")' = InHand("rexx") /\ InHand("ui")' = InHand("ui")
  BY <1>3 DEF InHand
<1>5. OutputSeq' = OutputSeq
  BY <1>3, <1>4, NothingMoves
<1>6. QED BY <1>1, <1>2, <1>5 DEF Done

\* Where no thread is about to post, no text is in a hand.
LEMMA EmptyHands ==
  ASSUME \A t \in Threads : pc[t] # "post"
  PROVE  InHand("rexx") \o InHand("ui") = << >>
<1>1. InHand("rexx") = << >> /\ InHand("ui") = << >>
  BY DEF InHand, Threads
<1>2. QED BY <1>1, EmptySeq, ConcatEmptySeq

\* Where no thread puts a character, none is in a hand.
LEMMA NothingPut ==
  ASSUME \A t \in Threads : data.char[t] = Nothing
  PROVE  InPut("rexx") \o InPut("ui") = << >>
<1>1. InPut("rexx") = << >> /\ InPut("ui") = << >>
  BY DEF InPut, Threads
<1>2. QED BY <1>1, EmptySeq, ConcatEmptySeq

\* One thread puts a character.
LEMMA OnePut ==
  ASSUME NEW t \in Threads, data.char[t] # Nothing, data.char[t] \in Chars,
         \A u \in Threads : u # t => data.char[u] = Nothing
  PROVE  InPut("rexx") \o InPut("ui") = << data.char[t] >>
<1>1. << data.char[t] >> \in Seq(Chars)
  BY SingleText
<1>2. /\ << data.char[t] >> \o << >> = << data.char[t] >>
      /\ << >> \o << data.char[t] >> = << data.char[t] >>
  BY <1>1, ConcatEmptySeq
<1>3. InPut(t) = << data.char[t] >> /\ \A u \in Threads : u # t => InPut(u) = << >>
  BY DEF InPut
<1>4. QED BY <1>2, <1>3 DEF Threads

\* One thread is about to post its text.
LEMMA OneHand ==
  ASSUME NEW t \in Threads, pc[t] = "post", data.text[t] \in Seq(Chars),
         \A u \in Threads : u # t => pc[u] # "post"
  PROVE  InHand("rexx") \o InHand("ui") = data.text[t]
<1>1. data.text[t] \o << >> = data.text[t] /\ << >> \o data.text[t] = data.text[t]
  BY ConcatEmptySeq
<1>2. InHand(t) = data.text[t] /\ \A u \in Threads : u # t => InHand(u) = << >>
  BY DEF InHand
<1>3. QED BY <1>1, <1>2 DEF Threads

LEMMA StoreStep ==
  ASSUME Calm, NEW t \in Threads, PutStore(t)
  PROVE  Done'
<1>1. /\ Shape /\ Alone /\ Places /\ Threads = {"rexx", "ui"} /\ data \in Data /\ Done
      /\ Size \in Nat \ {0}
  BY CalmFacts DEF Shape, Done
<1>2. UNCHANGED <<written, typed, overtaken>>
  BY DEF PutStore, keyVars
<1>3. /\ reg[t] \in 0..(Size - 1) /\ pos = reg[t] + 1
      /\ data'.buf = [data.buf EXCEPT ![reg[t]] = data.char[t]]
      /\ data'.char = [data.char EXCEPT ![t] = Nothing]
      /\ data'.text = data.text /\ data'.posted = data.posted /\ data'.shown = data.shown
      /\ pos' = pos /\ pc[t] = "store"
      /\ pc' = [pc EXCEPT ![t] = IF t = "ui" THEN "flush" ELSE "run"]
  BY Stored
<1>4. \A u \in Threads : u # t => ~Busy(pc[u]) /\ data.char[u] = Nothing
  <2>1. \A u \in Threads : u # t => ~Busy(pc[u])
    BY <1>3, OtherAway DEF Calm, OutputInv, Busy
  <2>2. \A u \in Threads : u # t => ~Putting(u)
    BY <2>1 DEF Busy, Putting
  <2>3. QED BY <1>1, <2>1, <2>2 DEF Places
<1>5. PICK x \in Chars : x = data.char[t] /\ x # Nothing
  <2>1. data.char[t] \in Chars
    BY <1>1 DEF Data
  <2>2. Putting(t)
    BY <1>3 DEF Putting
  <2>3. QED BY <1>1, <2>1, <2>2 DEF Places
<1>6. InPut("rexx") \o InPut("ui") = << x >>
  BY <1>4, <1>5, OnePut
<1>7. (InPut("rexx") \o InPut("ui"))' = << >>
  <2>1. \A u \in Threads : data'.char[u] = Nothing
    <3>1. data.char \in [Threads -> Chars]
      BY <1>1 DEF Data
    <3>2. QED BY <1>3, <1>4, <3>1
  <2>2. InPut("rexx")' = << >> /\ InPut("ui")' = << >>
    BY <1>1, <2>1 DEF InPut
  <2>3. QED BY <2>2, EmptySeq, ConcatEmptySeq
<1>8. InHand("rexx") \o InHand("ui") = << >> /\ (InHand("rexx") \o InHand("ui"))' = << >>
  <2>1. \A u \in Threads : pc[u] # "post" /\ pc'[u] # "post"
    BY <1>1, <1>3, <1>4 DEF Busy, Shape
  <2>2. InHand("rexx")' = << >> /\ InHand("ui")' = << >>
    BY <1>1, <2>1 DEF InHand
  <2>3. QED BY <2>1, <2>2, EmptyHands, EmptySeq, ConcatEmptySeq
<1>9. InBuffer' = InBuffer \o << x >>
  <2>1. PICK n \in 0..(Size - 1) : n = reg[t]
    BY <1>3
  <2>2. InBuffer = [i \in 1..n |-> data.buf[i - 1]]
    <3>1. pos - 1 = n
      BY <1>3, <2>1
    <3>2. QED BY <1>3, <3>1 DEF InBuffer
  <2>3. InBuffer' = [i \in 1..(n + 1) |-> data'.buf[i - 1]]
    <3>1. \A u \in Threads : pc'[u] # "store"
      BY <1>1, <1>3, <1>4 DEF Busy, Shape
    <3>2. pos' = n + 1
      BY <1>3, <2>1
    <3>3. QED BY <3>1, <3>2 DEF InBuffer
  <2>4. data.buf \in [0..(Size - 1) -> Chars]
    BY <1>1 DEF Data
  <2>5. \A i \in 1..n : data'.buf[i - 1] = data.buf[i - 1]
    BY <1>1, <1>3, <2>1, <2>4
  <2>6. data'.buf[n] = x
    BY <1>3, <1>5, <2>1, <2>4
  <2>7. PICK b \in Seq(Chars) : b = InBuffer
    BY <1>1, PiecesTyped
  <2>8. Len(b) = n /\ n \in Nat
    <3>1. n \in Nat /\ DOMAIN b = 1..n
      BY <1>1, <2>2, <2>7
    <3>2. QED BY <3>1, LenProperties
  <2>9. PICK c \in Seq(Chars) : c = Append(b, x)
    BY AppendProperties
  <2>10. Len(c) = n + 1 /\ c[n + 1] = x /\ \A i \in 1..n : c[i] = b[i]
    BY <2>8, <2>9, AppendProperties
  <2>11. c \in [1..(n + 1) -> Chars]
    BY <2>10, LenProperties
  <2>12. ASSUME NEW i \in 1..(n + 1) PROVE data'.buf[i - 1] = c[i]
    <3>1. CASE i \in 1..n
      BY <2>2, <2>5, <2>7, <2>10, <3>1
    <3>2. CASE i = n + 1
      <4>1. i - 1 = n
        BY <2>8, <3>2
      <4>2. QED BY <2>6, <2>10, <3>2, <4>1
    <3>3. i \in 1..n \/ i = n + 1
      BY <2>8
    <3>4. QED BY <3>1, <3>2, <3>3
  <2>13. InBuffer' = c
    BY <2>3, <2>11, <2>12
  <2>14. c = b \o << x >>
    BY <2>9, AppendIsConcat
  <2>15. QED BY <2>7, <2>13, <2>14
<1>10. PICK a \in Seq(Chars), p \in Seq(Chars), b \in Seq(Chars), c \in Seq(Chars) :
         a = data.shown /\ p = FlattenSeq(data.posted) /\ b = InBuffer /\ c = << x >>
  BY <1>1, PiecesTyped, SingleText
<1>11. OutputSeq = Whole(a, p, << >>, b, c)
  BY <1>6, <1>8, <1>10, OutputIs
<1>12. OutputSeq' = Whole(a, p, << >>, b \o c, << >>)
  <2>1. OutputSeq' = Whole(data.shown, FlattenSeq(data.posted), InHand("rexx") \o InHand("ui"), InBuffer,
                           InPut("rexx") \o InPut("ui"))'
    BY DEF OutputSeq, Whole
  <2>2. QED BY <1>3, <1>7, <1>8, <1>9, <1>10, <2>1
<1>13. OutputSeq' = OutputSeq
  <2>1. PICK h \in Seq(Chars) : h = << >>
    BY EmptySeq
  <2>2. Whole(a, p, h, b, c) = Whole(a, p, h, b \o c, << >>)
    BY Moves
  <2>3. QED BY <1>11, <1>12, <2>1, <2>2
<1>14. QED BY <1>1, <1>2, <1>13 DEF Done

LEMMA ResetStep ==
  ASSUME Calm, NEW t \in Threads, FlushReset(t)
  PROVE  Done'
<1>1. /\ Shape /\ Alone /\ Places /\ Threads = {"rexx", "ui"} /\ data \in Data /\ Done
  BY CalmFacts DEF Shape, Done
<1>2. UNCHANGED <<written, typed, overtaken>>
  BY DEF FlushReset, keyVars
<1>3. data' = data /\ pos' = 0 /\ pc[t] = "reset" /\ pc' = [pc EXCEPT ![t] = "post"]
  BY DEF Calm, FlushReset, Step, Goto, Hold
<1>4. \A u \in Threads : u # t => ~Busy(pc[u])
  BY <1>3, OtherAway DEF Calm, OutputInv, Busy
<1>5. PICK a \in Seq(Chars), p \in Seq(Chars), b \in Seq(Chars), c \in Seq(Chars) :
        a = data.shown /\ p = FlattenSeq(data.posted) /\ b = InBuffer /\ c = InPut("rexx") \o InPut("ui")
  BY <1>1, PiecesTyped
<1>6. InHand("rexx") \o InHand("ui") = << >>
  <2>1. \A u \in Threads : pc[u] # "post"
    BY <1>1, <1>3, <1>4 DEF Busy
  <2>2. QED BY <2>1, EmptyHands
<1>7. (InHand("rexx") \o InHand("ui"))' = b
  <2>1. InHand(t)' = b
    BY <1>1, <1>3, <1>5 DEF InHand, Places, Shape
  <2>2. \A u \in Threads : u # t => InHand(u)' = << >>
    BY <1>1, <1>3, <1>4 DEF InHand, Shape, Busy
  <2>3. b \o << >> = b /\ << >> \o b = b
    BY ConcatEmptySeq
  <2>4. QED BY <1>1, <2>1, <2>2, <2>3
<1>8. InBuffer' = << >>
  <2>1. \A u \in Threads : pc'[u] # "store"
    BY <1>1, <1>3, <1>4 DEF Shape, Busy
  <2>2. InBuffer' = [i \in 1..0 |-> data'.buf[i - 1]]
    BY <1>3, <2>1 DEF InBuffer
  <2>3. QED BY <2>2
<1>9. (InPut("rexx") \o InPut("ui"))' = c
  BY <1>3, <1>5 DEF InPut
<1>10. OutputSeq = Whole(a, p, << >>, b, c)
  BY <1>5, <1>6, OutputIs
<1>11. OutputSeq' = Whole(a, p, b, << >>, c)
  <2>1. OutputSeq' = Whole(data.shown, FlattenSeq(data.posted), InHand("rexx") \o InHand("ui"), InBuffer,
                           InPut("rexx") \o InPut("ui"))'
    BY DEF OutputSeq, Whole
  <2>2. QED BY <1>3, <1>5, <1>7, <1>8, <1>9, <2>1
<1>12. OutputSeq' = OutputSeq
  <2>1. Whole(a, p, << >>, b, c) = Whole(a, p, b, << >>, c)
    BY Moves
  <2>2. QED BY <1>10, <1>11, <2>1
<1>13. QED BY <1>1, <1>2, <1>12 DEF Done

\* What posting leaves in the hands, the buffer and the puts.
LEMMA AfterPost ==
  ASSUME Calm, NEW t \in Threads, FlushPost(t)
  PROVE  /\ InHand("rexx") \o InHand("ui") = data.text[t] /\ data.text[t] \in Seq(Chars)
         /\ (InHand("rexx") \o InHand("ui"))' = << >>
         /\ InBuffer = << >> /\ InBuffer' = << >>
         /\ (InPut("rexx") \o InPut("ui"))' = InPut("rexx") \o InPut("ui")
<1>1. /\ Shape /\ Alone /\ Places /\ Threads = {"rexx", "ui"} /\ data \in Data
  BY CalmFacts DEF Shape
<1>2. /\ data'.char = data.char /\ pos' = pos /\ pos = 0 /\ pc[t] = "post" /\ pc' = [pc EXCEPT ![t] = ret[t]]
  BY Posted
<1>3. \A u \in Threads : u # t => ~Busy(pc[u])
  BY <1>2, OtherAway DEF Calm, OutputInv, Busy
<1>4. data.text[t] \in Seq(Chars)
  BY <1>1 DEF Data
<1>5. InHand("rexx") \o InHand("ui") = data.text[t]
  <2>1. \A u \in Threads : u # t => pc[u] # "post"
    BY <1>3 DEF Busy
  <2>2. QED BY <1>2, <1>4, <2>1, OneHand
<1>6. \A u \in Threads : pc'[u] \notin {"post", "store"} /\ pc[u] # "store"
  BY <1>1, <1>2, <1>3 DEF Shape, Busy
<1>7. (InHand("rexx") \o InHand("ui"))' = << >>
  <2>1. InHand("rexx")' = << >> /\ InHand("ui")' = << >>
    BY <1>1, <1>6 DEF InHand
  <2>2. QED BY <2>1, EmptySeq, ConcatEmptySeq
<1>8. InBuffer = << >> /\ InBuffer' = << >>
  BY <1>2, <1>6 DEF InBuffer
<1>9. (InPut("rexx") \o InPut("ui"))' = InPut("rexx") \o InPut("ui")
  BY <1>2 DEF InPut
<1>10. QED BY <1>4, <1>5, <1>7, <1>8, <1>9

LEMMA PostStep ==
  ASSUME Calm, NEW t \in Threads, FlushPost(t)
  PROVE  Done'
<1>1. /\ Shape /\ Alone /\ Places /\ Threads = {"rexx", "ui"} /\ data \in Data /\ Done
      /\ overtaken \in BOOLEAN
  BY CalmFacts DEF Shape, Done
<1>2. UNCHANGED <<written, typed>> /\ overtaken' = (overtaken \/ (t = "ui" /\ data.posted # << >>))
  BY DEF FlushPost, keyVars, outVars
<1>3. /\ InHand("rexx") \o InHand("ui") = data.text[t] /\ data.text[t] \in Seq(Chars)
      /\ (InHand("rexx") \o InHand("ui"))' = << >>
      /\ InBuffer = << >> /\ InBuffer' = << >>
      /\ (InPut("rexx") \o InPut("ui"))' = InPut("rexx") \o InPut("ui")
  BY AfterPost
<1>4. PICK a \in Seq(Chars), p \in Seq(Chars), h \in Seq(Chars), c \in Seq(Chars) :
        a = data.shown /\ p = FlattenSeq(data.posted) /\ h = data.text[t] /\ c = InPut("rexx") \o InPut("ui")
  BY <1>1, <1>3, PiecesTyped
<1>5. OutputSeq = Whole(a, p, h, << >>, c)
  BY <1>3, <1>4, OutputIs
<1>6. PICK e \in Seq(Chars) : e = << >>
  BY EmptySeq
<1>7. OutputSeq' = Whole(data'.shown, FlattenSeq(data'.posted), e, e, c)
  <2>1. OutputSeq' = Whole(data.shown, FlattenSeq(data.posted), InHand("rexx") \o InHand("ui"), InBuffer,
                           InPut("rexx") \o InPut("ui"))'
    BY DEF OutputSeq, Whole
  <2>2. QED BY <1>3, <1>4, <1>6, <2>1
<1>8. CASE t = "rexx"
  <2>1. data'.posted = Append(data.posted, h) /\ data'.shown = a
    BY <1>4, <1>8, Posted
  <2>2. FlattenSeq(data'.posted) = p \o h
    <3>1. data.posted \in Texts
      BY <1>1 DEF Data, Texts
    <3>2. QED BY <1>4, <2>1, <3>1, FlattenAppend
  <2>3. OutputSeq' = Whole(a, p \o h, e, e, c)
    BY <1>7, <2>1, <2>2
  <2>4. Whole(a, p, h, e, c) = Whole(a, p \o h, << >>, e, c)
    BY Moves
  <2>5. OutputSeq' = OutputSeq
    BY <1>5, <1>6, <2>3, <2>4
  <2>6. overtaken' = overtaken
    BY <1>1, <1>2, <1>8
  <2>7. QED BY <1>1, <1>2, <2>5, <2>6 DEF Done
<1>9. CASE t = "ui"
  <2>1. data'.posted = data.posted /\ data'.shown = a \o h
    BY <1>4, <1>9, Posted
  <2>2. OutputSeq' = Whole(a \o h, p, e, e, c)
    BY <1>4, <1>7, <2>1
  <2>3. CASE data.posted = << >>
    <3>1. p = e
      BY <1>4, <1>6, <2>3, FlattenEmpty
    <3>2. a \o p = a /\ (a \o h) \o p = a \o h
      <4>1. a \o h \in Seq(Chars)
        BY ConcatProperties
      <4>2. QED BY <1>6, <3>1, <4>1, ConcatEmptySeq
    <3>3. Whole(a, p, h, e, c) = Whole(a \o h, p, e, e, c)
      <4>1. PICK ah \in Seq(Chars) : ah = a \o h
        BY ConcatProperties
      <4>2. ah \o e = ah
        BY <1>6, ConcatEmptySeq
      <4>3. QED BY <3>1, <3>2, <4>1, <4>2 DEF Whole
    <3>4. OutputSeq' = OutputSeq
      BY <1>5, <1>6, <2>2, <3>3
    <3>5. overtaken' = overtaken
      BY <1>1, <1>2, <2>3
    <3>6. QED BY <1>1, <1>2, <3>4, <3>5 DEF Done
  <2>4. CASE data.posted # << >>
    <3>1. overtaken' = TRUE
      BY <1>2, <1>9, <2>4
    <3>2. Accounted(a \o p \o h \o e \o c, written, typed, ~overtaken)
      BY <1>1, <1>5, <1>6 DEF Done, Whole
    <3>3. Accounted(a \o h \o p \o e \o c, written, typed, FALSE)
      BY <3>2, TextsSwapped
    <3>4. a \o h \o p \o e = a \o h \o p \o e \o e
      <4>1. PICK ah \in Seq(Chars) : ah = a \o h
        BY ConcatProperties
      <4>2. PICK ahp \in Seq(Chars) : ahp = ah \o p
        BY ConcatProperties
      <4>3. ahp \o e = ahp
        BY <1>6, ConcatEmptySeq
      <4>4. QED BY <4>1, <4>2, <4>3
    <3>5. OutputSeq' = a \o h \o p \o e \o c
      BY <2>2, <3>4 DEF Whole
    <3>6. QED BY <1>2, <3>1, <3>3, <3>5 DEF Done
  <2>5. QED BY <2>3, <2>4
<1>10. QED BY <1>1, <1>8, <1>9

-----------------------------------------------------------------------------
(***************************************************************************)
(* A character is put, the output of a command is read, a text is shown;   *)
(* and all of the steps together.                                          *)
(***************************************************************************)
\* A character that a thread begins to put comes last.
LEMMA PutComesLast ==
  ASSUME Shape, Alone, Places, NEW t \in Threads, NEW x \in Chars, x # Nothing,
         \A u \in Threads : data.char[u] = Nothing, data'.char = [data.char EXCEPT ![t] = x],
         data'.shown = data.shown, data'.posted = data.posted, InBuffer' = InBuffer,
         InHand("rexx")' = InHand("rexx"), InHand("ui")' = InHand("ui")
  PROVE  OutputSeq \in Seq(Chars) /\ OutputSeq' = OutputSeq \o << x >>
<1>1. Threads = {"rexx", "ui"} /\ data.char \in [Threads -> Chars]
  BY DEF Threads, Shape, Data
<1>2. InPut("rexx") \o InPut("ui") = << >>
  BY NothingPut
<1>3. (InPut("rexx") \o InPut("ui"))' = << x >>
  <2>1. << x >> \o << >> = << x >> /\ << >> \o << x >> = << x >>
    BY SingleText, ConcatEmptySeq
  <2>2. InPut(t)' = << x >> /\ \A u \in Threads : u # t => InPut(u)' = << >>
    BY <1>1 DEF InPut
  <2>3. QED BY <1>1, <2>1, <2>2
<1>4. PICK a \in Seq(Chars), p \in Seq(Chars), h \in Seq(Chars), b \in Seq(Chars), c \in Seq(Chars),
           e \in Seq(Chars) :
        /\ a = data.shown /\ p = FlattenSeq(data.posted) /\ h = InHand("rexx") \o InHand("ui")
        /\ b = InBuffer /\ c = << x >> /\ e = << >>
  BY PiecesTyped, SingleText, EmptySeq
<1>5. OutputSeq = Whole(a, p, h, b, e)
  BY <1>2, <1>4, OutputIs
<1>6. OutputSeq' = Whole(a, p, h, b, c)
  <2>1. OutputSeq' = Whole(data.shown, FlattenSeq(data.posted), InHand("rexx") \o InHand("ui"), InBuffer,
                           InPut("rexx") \o InPut("ui"))'
    BY DEF OutputSeq, Whole
  <2>2. FlattenSeq(data.posted)' = p /\ (InHand("rexx") \o InHand("ui"))' = h
    BY <1>4
  <2>3. QED BY <1>3, <1>4, <2>1, <2>2
<1>7. Whole(a, p, h, b, << >>) \o c = Whole(a, p, h, b, c)
  BY LastPut
<1>8. Whole(a, p, h, b, << >>) \in Seq(Chars)
  BY LastPut
<1>9. QED BY <1>4, <1>5, <1>6, <1>7, <1>8

\* How many characters the program and the user have put.
LEMMA CalmCounts ==
  ASSUME Calm
  PROVE  written \in Nat /\ typed \in Nat
<1>1. written \in 0..MaxOut /\ typed \in 0..MaxKeys
  BY CalmFacts DEF Shape
<1>2. MaxOut \in Nat /\ MaxKeys \in Nat
  BY SizesAreNat
<1>3. QED BY <1>1, <1>2

LEMMA RexxPutStep ==
  ASSUME Calm, Put
  PROVE  Done'
<1>1. /\ Shape /\ Alone /\ Places /\ Threads = {"rexx", "ui"} /\ data \in Data /\ Done /\ Alone'
      /\ overtaken \in BOOLEAN /\ written \in Nat /\ typed \in Nat
  BY CalmCounts, CalmFacts DEF Shape, Done
<1>2. written' = written + 1 /\ typed' = typed /\ overtaken' = overtaken
  BY DEF Put, keyVars
<1>3. /\ data'.buf = data.buf /\ data'.text = data.text /\ data'.posted = data.posted
      /\ data'.shown = data.shown /\ data.char["rexx"] = Nothing
      /\ data'.char = [data.char EXCEPT !["rexx"] = <<"rexx", written + 1>>]
      /\ pc["rexx"] = "run" /\ pc' = [pc EXCEPT !["rexx"] = "put"] /\ pos' = pos
  BY PlacesPut
<1>4. pc'["rexx"] = "put" /\ pc'["ui"] = "run" /\ pc["ui"] = "run"
  BY <1>1, <1>3 DEF Alone, Busy, Shape, PutPlaces
<1>5. data.char["ui"] = Nothing
  BY <1>1, <1>4 DEF Places, Putting
<1>6. InBuffer' = InBuffer /\ InHand("rexx")' = InHand("rexx") /\ InHand("ui")' = InHand("ui")
  <2>1. \A u \in Threads : pc'[u] \notin {"store", "post"} /\ pc[u] \notin {"store", "post"}
    BY <1>1, <1>3, <1>4
  <2>2. InBuffer' = InBuffer
    BY <1>3, <2>1 DEF InBuffer
  <2>3. QED BY <1>1, <2>1, <2>2 DEF InHand
<1>7. PICK x : x = <<"rexx", written + 1>>
  OBVIOUS
<1>8. x # Nothing
  BY <1>7 DEF Nothing
<1>9. x \in Chars
  BY <1>1, <1>7 DEF Chars
<1>10. OutputSeq \in Seq(Chars) /\ OutputSeq' = OutputSeq \o << x >>
  <2>1. \A u \in Threads : data.char[u] = Nothing
    BY <1>1, <1>3, <1>5
  <2>2. data'.char = [data.char EXCEPT !["rexx"] = x] /\ "rexx" \in Threads
    BY <1>1, <1>3, <1>7
  <2>3. QED BY <1>1, <1>3, <1>6, <1>8, <1>9, <2>1, <2>2, PutComesLast, Zenon
<1>11. Accounted(OutputSeq \o << x >>, written + 1, typed, ~overtaken)
  <2>1. PICK s \in Seq(Chars), o \in BOOLEAN : s = OutputSeq /\ o = ~overtaken
    BY <1>1, <1>10
  <2>2. Accounted(s, written, typed, o)
    BY <1>1, <2>1 DEF Done
  <2>3. Accounted(s \o << x >>, written + 1, typed, o)
    BY <1>1, <1>7, <2>2, RexxPut
  <2>4. QED BY <2>1, <2>3
<1>12. QED BY <1>2, <1>10, <1>11 DEF Done

LEMMA KeyPutStep ==
  ASSUME Calm, OnKey
  PROVE  Done'
<1>1. /\ Shape /\ Alone /\ Places /\ Threads = {"rexx", "ui"} /\ data \in Data /\ Done
      /\ overtaken \in BOOLEAN /\ written \in Nat /\ typed \in Nat
  BY CalmCounts, CalmFacts DEF Shape, Done
<1>2. written' = written /\ typed' = typed + 1 /\ overtaken' = overtaken
  BY DEF OnKey, outVars
<1>3. /\ data'.buf = data.buf /\ data'.text = data.text /\ data'.posted = data.posted
      /\ data'.shown = data.shown /\ data.char["rexx"] = Nothing /\ data.char["ui"] = Nothing
      /\ data'.char = [data.char EXCEPT !["ui"] = <<"key", typed + 1>>]
      /\ ~Busy(pc["rexx"]) /\ ~Busy(pc'["rexx"]) /\ pc["ui"] = "run" /\ pc'["ui"] = "put" /\ pos' = pos
  BY PlacesOnKey
<1>4. InBuffer' = InBuffer /\ InHand("rexx")' = InHand("rexx") /\ InHand("ui")' = InHand("ui")
  <2>1. \A u \in Threads : pc'[u] \notin {"store", "post"} /\ pc[u] \notin {"store", "post"}
    BY <1>1, <1>3 DEF Busy
  <2>2. InBuffer' = InBuffer
    BY <1>3, <2>1 DEF InBuffer
  <2>3. QED BY <1>1, <2>1, <2>2 DEF InHand
<1>5. PICK x : x = <<"key", typed + 1>>
  OBVIOUS
<1>6. x # Nothing
  BY <1>5 DEF Nothing
<1>7. x \in Chars
  BY <1>1, <1>5 DEF Chars
<1>8. OutputSeq \in Seq(Chars) /\ OutputSeq' = OutputSeq \o << x >>
  <2>1. \A u \in Threads : data.char[u] = Nothing
    BY <1>1, <1>3
  <2>2. data'.char = [data.char EXCEPT !["ui"] = x] /\ "ui" \in Threads
    BY <1>1, <1>3, <1>5
  <2>3. QED BY <1>1, <1>3, <1>4, <1>6, <1>7, <2>1, <2>2, PutComesLast, Zenon
<1>9. Accounted(OutputSeq \o << x >>, written, typed + 1, ~overtaken)
  <2>1. PICK s \in Seq(Chars), o \in BOOLEAN : s = OutputSeq /\ o = ~overtaken
    BY <1>1, <1>8
  <2>2. Accounted(s, written, typed, o)
    BY <1>1, <2>1 DEF Done
  <2>3. Accounted(s \o << x >>, written, typed + 1, o)
    BY <1>1, <1>5, <2>2, KeyPut
  <2>4. QED BY <2>1, <2>3
<1>10. QED BY <1>2, <1>8, <1>9 DEF Done

\* What a command printed is read into an empty buffer, when no character is in hand.
LEMMA AssignStep ==
  ASSUME Calm, Assign
  PROVE  Done'
<1>1. /\ Shape /\ Alone /\ Places /\ Threads = {"rexx", "ui"} /\ data \in Data /\ Done
      /\ overtaken \in BOOLEAN /\ written \in Nat /\ typed \in Nat
  BY CalmCounts, CalmFacts DEF Shape, Done
<1>2. UNCHANGED <<written, typed, overtaken>>
  BY DEF Assign, keyVars
<1>3. /\ data' = data /\ InBuffer = << >> /\ InBuffer' \in Seq(Chars)
      /\ \A i \in DOMAIN InBuffer' : InBuffer'[i][1] = "proc"
      /\ pc["rexx"] = "assign" /\ pc'["rexx"] \in {"readDone", "flush"} /\ pc'["ui"] = pc["ui"]
      /\ pc["ui"] = "run"
  BY PlacesAssign
<1>4. InHand("rexx") \o InHand("ui") = << >> /\ (InHand("rexx") \o InHand("ui"))' = << >>
  <2>1. \A u \in Threads : pc[u] # "post" /\ pc'[u] # "post"
    BY <1>1, <1>3
  <2>2. InHand("rexx")' = << >> /\ InHand("ui")' = << >>
    BY <1>1, <2>1 DEF InHand
  <2>3. QED BY <2>1, <2>2, EmptyHands, EmptySeq, ConcatEmptySeq
<1>5. InPut("rexx") \o InPut("ui") = << >> /\ (InPut("rexx") \o InPut("ui"))' = << >>
  <2>1. \A u \in Threads : data.char[u] = Nothing
    BY <1>1, <1>3 DEF Places, Putting
  <2>2. (InPut("rexx") \o InPut("ui"))' = InPut("rexx") \o InPut("ui")
    BY <1>3 DEF InPut
  <2>3. QED BY <2>1, <2>2, NothingPut
<1>6. PICK a \in Seq(Chars), p \in Seq(Chars), e \in Seq(Chars), q \in Seq(Chars), o \in BOOLEAN :
        a = data.shown /\ p = FlattenSeq(data.posted) /\ e = << >> /\ q = InBuffer' /\ o = ~overtaken
  BY <1>1, <1>3, PiecesTyped, EmptySeq
<1>7. OutputSeq = Whole(a, p, e, e, e)
  BY <1>3, <1>4, <1>5, <1>6, OutputIs
<1>8. OutputSeq' = Whole(a, p, e, q, e)
  <2>1. OutputSeq' = Whole(data.shown, FlattenSeq(data.posted), InHand("rexx") \o InHand("ui"), InBuffer,
                           InPut("rexx") \o InPut("ui"))'
    BY DEF OutputSeq, Whole
  <2>2. QED BY <1>3, <1>4, <1>5, <1>6, <2>1
<1>9. PICK s \in Seq(Chars) : s = a \o p
  BY ConcatProperties
<1>10. \A y \in Seq(Chars) : y \o e = y
  BY <1>6, ConcatEmptySeq
<1>11. OutputSeq = s
  BY <1>7, <1>9, <1>10 DEF Whole
<1>12. OutputSeq' = s \o q
  <2>1. s \o q \in Seq(Chars)
    BY ConcatProperties
  <2>2. QED BY <1>8, <1>9, <1>10, <2>1 DEF Whole
<1>13. Accounted(s \o q, written, typed, o)
  <2>1. Accounted(s, written, typed, o)
    BY <1>1, <1>6, <1>11 DEF Done
  <2>2. \A l \in DOMAIN q : q[l][1] = "proc"
    BY <1>3, <1>6
  <2>3. QED BY <1>1, <2>1, <2>2, ProcPut
<1>14. QED BY <1>2, <1>6, <1>12, <1>13 DEF Done

LEMMA ShowStep ==
  ASSUME Calm, Show
  PROVE  Done'
<1>1. /\ Shape /\ Alone /\ Places /\ Threads = {"rexx", "ui"} /\ data \in Data /\ Done
  BY CalmFacts DEF Shape, Done
<1>2. UNCHANGED <<written, typed, overtaken>>
  BY DEF Show, outVars, keyVars
<1>3. /\ InBuffer' = InBuffer /\ pc' = pc /\ data'.text = data.text /\ data'.char = data.char
      /\ data.posted # << >> /\ data'.posted = Tail(data.posted)
      /\ data'.shown = data.shown \o Head(data.posted)
  BY PlacesShow
<1>4. data.posted \in Texts
  BY <1>1 DEF Data, Texts
<1>5. Head(data.posted) \in Seq(Chars) /\ Tail(data.posted) \in Texts
  BY <1>3, <1>4, HeadTailProperties DEF Texts
<1>6. PICK a \in Seq(Chars), f \in Seq(Chars), r \in Seq(Chars), h \in Seq(Chars), b \in Seq(Chars),
           c \in Seq(Chars) :
        /\ a = data.shown /\ f = Head(data.posted) /\ r = FlattenSeq(Tail(data.posted))
        /\ h = InHand("rexx") \o InHand("ui") /\ b = InBuffer /\ c = InPut("rexx") \o InPut("ui")
  BY <1>1, <1>5, PiecesTyped, FlattenType
<1>7. OutputSeq = a \o (f \o r) \o h \o b \o c
  <2>1. FlattenSeq(data.posted) = f \o r
    BY <1>3, <1>4, <1>6, FlattenTail
  <2>2. QED BY <1>6, <2>1, OutputIs DEF Whole
<1>8. OutputSeq' = (a \o f) \o r \o h \o b \o c
  <2>1. (InHand("rexx") \o InHand("ui"))' = h /\ (InPut("rexx") \o InPut("ui"))' = c
    BY <1>3, <1>6 DEF InHand, InPut
  <2>2. OutputSeq' = Whole(data.shown, FlattenSeq(data.posted), InHand("rexx") \o InHand("ui"), InBuffer,
                           InPut("rexx") \o InPut("ui"))'
    BY DEF OutputSeq, Whole
  <2>3. QED BY <1>3, <1>6, <2>1, <2>2 DEF Whole
<1>9. (a \o f) \o r = a \o (f \o r)
  BY Associative, SMTT(30)
<1>10. OutputSeq' = OutputSeq
  BY <1>7, <1>8, <1>9
<1>11. QED BY <1>1, <1>2, <1>10 DEF Done

LEMMA OutputInit == Init => OutputInv
<1> SUFFICES ASSUME Init PROVE OutputInv
  OBVIOUS
<1>1. BufferInv
  BY BufferInit
<1>2. /\ data = NoData /\ pos = 0 /\ written = 0 /\ typed = 0 /\ overtaken = FALSE /\ proc = NoProc
      /\ pc = [t \in Threads |-> "run"] /\ Threads = {"rexx", "ui"}
  BY DEF Init, Threads
<1>3. \A t \in Threads : pc[t] = "run" /\ data.char[t] = Nothing
  BY <1>2 DEF NoData
<1>4. Places
  <2>1. Len(proc.pipe) = 0
    BY <1>2, EmptySeq DEF NoProc
  <2>2. QED BY <1>2, <1>3, <2>1 DEF Places, Putting
<1>5. OutputSeq = << >>
  <2>1. data.shown = << >> /\ data.posted = << >>
    BY <1>2 DEF NoData
  <2>2. InBuffer = << >>
    BY <1>2, <1>3 DEF InBuffer
  <2>3. InHand("rexx") \o InHand("ui") = << >> /\ InPut("rexx") \o InPut("ui") = << >>
    BY <1>3, EmptyHands, NothingPut
  <2>4. << >> \o << >> = << >>
    BY EmptySeq, ConcatEmptySeq
  <2>5. QED BY <2>1, <2>2, <2>3, <2>4, FlattenEmpty DEF OutputSeq
<1>6. Accounted(OutputSeq, written, typed, ~overtaken)
  <2>1. DOMAIN OutputSeq = {}
    BY <1>5
  <2>2. QED BY <1>2, <2>1 DEF Accounted, EachOnce, InOrder
<1>7. QED BY <1>1, <1>2, <1>4, <1>6 DEF OutputInv

LEMMA OutputNext == OutputInv /\ [Next]_vars => OutputInv'
<1> SUFFICES ASSUME OutputInv, [Next]_vars PROVE OutputInv'
  OBVIOUS
<1>1. BufferInv /\ BufferInv'
  BY BufferNext DEF OutputInv
<1>2. overtaken' \in BOOLEAN
  <2>1. CASE overtaken' = overtaken
    BY <2>1 DEF OutputInv
  <2>2. ASSUME NEW t \in Threads, FlushPost(t) PROVE overtaken' \in BOOLEAN
    BY <2>2 DEF FlushPost
  <2>3. QED BY <2>1, <2>2
    DEF Next, Begin, Continue, Output, PutTest, PutIndex, PutBump, PutStore, FlushTest, FlushCopy,
        FlushReset, Put, Get, System, Finish, GetKey, GetTimeout, Start, StartFails, WaitFor,
        Read, Assign, ReadDone, ProcWrites, Show, OnKey, vars, Threads
<1>3. ASSUME ~overlapped' PROVE Places' /\ Done'
  <2>1. ~overlapped
    BY <1>3 DEF Next, Begin, Continue, Output, PutTest, PutIndex, PutBump, PutStore, FlushTest, FlushCopy,
       FlushReset, FlushPost, Put, Get, System, Finish, GetKey, GetTimeout, Start, StartFails, WaitFor,
       Read, Assign, ReadDone, ProcWrites, Show, OnKey, Step, Call, Goto, vars
  <2>2. Calm
    BY <1>1, <1>3, <2>1 DEF Calm
  <2>3. ASSUME NEW t \in Threads, Output(t) PROVE Places' /\ Done'
    <3>1. Places'
      BY <2>2, <2>3, PlacesPutTest, PlacesPutIndex, PlacesPutBump, PlacesPutStore, PlacesFlushTest,
         PlacesFlushCopy, PlacesFlushReset, PlacesFlushPost DEF Output
    <3>2. Done'
      BY <2>2, <2>3, PutSteps, StoreStep, ResetStep, PostStep DEF Output
    <3>3. QED BY <3>1, <3>2
  <2>4. CASE Put \/ OnKey \/ Assign \/ Show
    BY <2>2, <2>4, PlacesPut, PlacesOnKey, PlacesAssign, PlacesShow, RexxPutStep, KeyPutStep, AssignStep, ShowStep
  <2>5. CASE Get \/ System \/ Finish \/ GetKey \/ GetTimeout \/ Start \/ StartFails \/ WaitFor \/ Read
             \/ ReadDone \/ ProcWrites
    <3>1. Places'
      BY <2>2, <2>5, PlacesElsewhere, PlacesRead, PlacesReadDone, PlacesProcWrites
    <3>2. QED BY <2>2, <2>5, <3>1, OtherSteps
  <2>6. CASE UNCHANGED vars
    <3>1. UNCHANGED <<pos, reg, written, data, typed, pc, ret, proc, overtaken>>
      BY <2>6 DEF vars, outVars, keyVars, procVars
    <3>2. Places /\ Done
      BY <2>1 DEF OutputInv, Done
    <3>3. InBuffer' = InBuffer /\ (\A t : InHand(t)' = InHand(t)) /\ \A t : Putting(t)' <=> Putting(t)
      BY <3>1 DEF InBuffer, InHand, Putting
    <3>4. OutputSeq' = OutputSeq
      BY <3>1, <3>3, NothingMoves
    <3>5. Places'
      BY <3>1, <3>2, <3>3 DEF Places
    <3>6. QED BY <3>1, <3>2, <3>4, <3>5 DEF Done
  <2>7. QED BY <2>3, <2>4, <2>5, <2>6 DEF Next, Begin, Continue, Threads
<1>4. QED BY <1>1, <1>2, <1>3 DEF OutputInv, Done

\* As long as the threads were never in the output code together, nothing put is lost
\* or shown twice; and if no echo was shown before text already posted, what REXX
\* wrote comes in order (RexxConsole.java:186-210).
THEOREM OutputAlwaysOnceInOrder == Spec => []OutputOnceInOrder
<1>1. OutputInv => OutputOnceInOrder
  BY DEF OutputInv, OutputOnceInOrder, Accounted
<1>2. QED BY OutputInit, OutputNext, <1>1, PTL DEF Spec

=============================================================================
