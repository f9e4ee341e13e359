---------------------------- MODULE RexxStreamsProofs ----------------------------
(***************************************************************************)
(* What a program sees of its files is what RexxStreams says, for any      *)
(* files, bounds and buffer: Spec => ImplementsRexxStreams.                *)
(*                                                                         *)
(* A file is, for RexxStreams, bytes and two positions.  The manager holds *)
(* the bytes in the file and in a buffer that waits to be written          *)
(* (Content), and the positions in the stream or, for the direction the    *)
(* stream is not used in, in the entry (posSave).  The proof goes up the   *)
(* layers of the code.                                                     *)
(*                                                                         *)
(* The buffer.  Content(s) is the file with what waits over it, byte by    *)
(* byte (Bytewise).  The methods of FileStreamBuf leave it, but for Putc,  *)
(* which puts one byte over it at the write position.  Flushing what waits *)
(* may move the write position to the end of what waited (Settled, Top),   *)
(* which is the Jump of RexxStreams.                                       *)
(*                                                                         *)
(* The loops.  What PutAll, GetUntil and gotoLine have done after i steps  *)
(* (Over, Took, Went, Counting) is kept by each step, hence by the loop: a *)
(* read takes a piece of the content, up to a newline or not; a write      *)
(* leaves the content with the bytes over it; LINES counts the lines that  *)
(* are left.                                                               *)
(*                                                                         *)
(* The manager.  EnsureRead leaves the file of the name open to be read,   *)
(* at the position it was left at, and everything else as it was           *)
(* (Readable); EnsureWrite the same to be written (Writable); or there is  *)
(* no such file, or it is read-only.  The steps differ from these in the   *)
(* stream of one entry (Moved).  The invariant is Modal, beside Sound of   *)
(* IOMgrProofs: an entry is written only after that was granted, which it  *)
(* never is to a file of ro; a file without an entry has no mode; and the  *)
(* streams of the console stay.                                            *)
(*                                                                         *)
(* The actions.  Each action of IOMgr is one of RexxStreams under          *)
(* FileView, ReadView and WriteView, or leaves them, call and ret          *)
(* unchanged.  AbsentIsNoFile says that no byte is taken for the mark of a *)
(* file that does not exist.                                               *)
(***************************************************************************)
EXTENDS IOMgrProofs

-----------------------------------------------------------------------------
(***************************************************************************)
(* The content: the file, and what waits to be written to it.              *)
(***************************************************************************)
\* Where the bytes that wait end: flushed, they leave the write position there.
Top(s) == s.posPut + Waiting(s)

\* From s to t the file is the same; the write position too, or it went over bytes that waited.
Settled(s, t) ==
  /\ Content(t) = Content(s) /\ Top(t) = Top(s)
  /\ WritePos(t) \in {WritePos(s), Top(s)}

\* The bounds of what waits, and the write position by them.
LEMMA Waits ==
  ASSUME NEW s, Good(s)
  PROVE  /\ Waiting(s) \in 0..BufSize /\ OutWaiting(s) \in 0..Waiting(s)
         /\ WritePos(s) = s.posPut + OutWaiting(s) /\ WritePos(s) \in Nat
         /\ s.pb = BufSize => Waiting(s) = 0 /\ WritePos(s) = s.posPut
         /\ s.io # "PUT" => s.pb = BufSize /\ Waiting(s) = 0 /\ WritePos(s) = s.posPut
         /\ s.pb \in {0, BufSize} /\ s.posPut \in Nat /\ s.io \in {"NONE", "GET", "PUT"}
         /\ s.pb = 0 => s.io = "PUT"
         /\ s.io = "PUT" => s.off = s.posPut
         /\ Top(s) \in Nat /\ WritePos(s) <= Top(s) /\ (Waiting(s) = 0 => WritePos(s) = Top(s))
<1>1. /\ s.p \in 0..BufSize /\ s.most \in 0..BufSize /\ s.pb \in {0, BufSize} /\ s.posPut \in Nat
      /\ BufSize \in Nat /\ s.pb <= s.p /\ (s.pb = BufSize => s.most = 0) /\ s.io \in {"NONE", "GET", "PUT"}
      /\ (s.io # "PUT" => s.pb = BufSize) /\ BufSize # 0
  BY StreamFields, Sizes DEF Good
<1>2. OutWaiting(s) = s.p - s.pb /\ OutWaiting(s) \in 0..BufSize
  BY <1>1 DEF OutWaiting
<1>3. Waiting(s) \in 0..BufSize /\ OutWaiting(s) \in 0..Waiting(s)
  BY <1>1, <1>2 DEF Waiting
<1>4. s.pb = BufSize => Waiting(s) = 0 /\ OutWaiting(s) = 0
  BY <1>1, <1>2 DEF Waiting
<1>5. WritePos(s) = s.posPut + OutWaiting(s)
  BY DEF WritePos
<1>6. s.io = "PUT" => s.off = s.posPut
  BY DEF Good
<1>7. s.pb = 0 => s.io = "PUT"
  BY <1>1
<1>8. Top(s) \in Nat /\ WritePos(s) <= Top(s) /\ (Waiting(s) = 0 => WritePos(s) = Top(s))
  <2>1. Top(s) = s.posPut + Waiting(s)
    BY DEF Top
  <2>2. QED BY <1>1, <1>3, <1>5, <2>1
<1>9. QED BY <1>1, <1>2, <1>3, <1>4, <1>5, <1>6, <1>7, <1>8

\* The content of the file and the w bytes that wait, byte by byte.
ByteAt(s, w, i) ==
  IF s.posPut < i /\ i <= s.posPut + w THEN s.buf[i - s.posPut - 1]
  ELSE IF i <= Len(s.file) THEN s.file[i] ELSE Hole

\* The content, byte by byte.
LEMMA Bytewise ==
  ASSUME NEW s, Good(s), NEW w \in Nat, w = Waiting(s),
         NEW k \in Nat, k = IF w # 0 /\ s.posPut + w > Len(s.file) THEN s.posPut + w ELSE Len(s.file)
  PROVE  /\ Len(Content(s)) = k
         /\ Content(s) = [i \in 1..k |-> ByteAt(s, w, i)]
<1>1. /\ s.posPut \in Nat /\ s.file \in Seq(Stored) /\ Len(s.file) \in Nat
      /\ s.file \in [1..Len(s.file) -> Stored]
  BY StreamFields, LenProperties DEF Good
<1>2. PICK f : f = [i \in 1..k |-> ByteAt(s, w, i)]
  OBVIOUS
<1>3. \A i \in 1..k : f[i] = IF s.posPut < i /\ i <= s.posPut + w THEN s.buf[i - s.posPut - 1]
                             ELSE IF i <= Len(s.file) THEN s.file[i] ELSE Hole
  BY <1>2 DEF ByteAt
<1>4. CASE w = 0
  <2>1. Content(s) = s.file /\ k = Len(s.file)
    BY <1>4 DEF Content
  <2>2. \A i \in 1..k : f[i] = s.file[i]
    BY <1>1, <1>3, <1>4, <2>1
  <2>3. f = s.file
    BY <1>1, <1>2, <2>1, <2>2
  <2>4. QED BY <1>2, <2>1, <2>3
<1>5. CASE w # 0
  <2>1. s.pb = 0
    BY <1>5, Waits
  <2>2. PICK str : str = Span(s, 0, w)
    OBVIOUS
  <2>3. Len(str) = w /\ \A i \in 1..w : str[i] = s.buf[0 + i - 1]
    BY <2>2, SpanLen
  <2>4. Content(s) = Overwrite(s.file, s.posPut, str)
    BY <1>5, <2>1, <2>2 DEF Content
  <2>5. Content(s) = [i \in 1..k |-> IF s.posPut < i /\ i <= s.posPut + w THEN str[i - s.posPut]
                                     ELSE IF i <= Len(s.file) THEN s.file[i] ELSE Hole]
    BY <1>5, <2>3, <2>4 DEF Overwrite
  <2>6. ASSUME NEW i \in 1..k, s.posPut < i, i <= s.posPut + w
        PROVE  str[i - s.posPut] = s.buf[i - s.posPut - 1]
    <3>1. i - s.posPut \in 1..w /\ 0 + (i - s.posPut) - 1 = i - s.posPut - 1
      BY <1>1, <2>6
    <3>2. QED BY <2>3, <3>1
  <2>7. Content(s) = f
    <3>1. \A i \in 1..k : Content(s)[i] = f[i]
      BY <1>3, <2>5, <2>6
    <3>2. QED BY <1>2, <2>5, <3>1
  <2>8. Len(Content(s)) = k
    BY <1>2, <2>7
  <2>9. QED BY <1>2, <2>7, <2>8
<1>6. QED BY <1>4, <1>5

\* The write position jumps within the file, if it does.
LEMMA TopInFile ==
  ASSUME NEW s, Good(s)
  PROVE  Top(s) = WritePos(s) \/ Top(s) <= Len(Content(s))
<1>1. PICK w \in Nat : w = Waiting(s)
  BY Waits
<1>2. CASE w = 0
  BY <1>1, <1>2, Waits
<1>3. CASE w # 0
  <2>1. s.posPut \in Nat /\ Len(s.file) \in Nat
    BY StreamFields DEF Good
  <2>2. PICK k \in Nat : k = IF w # 0 /\ s.posPut + w > Len(s.file) THEN s.posPut + w ELSE Len(s.file)
    BY <2>1
  <2>3. Len(Content(s)) = k
    BY <1>1, <2>2, Bytewise
  <2>4. s.posPut + w <= k
    BY <1>3, <2>1, <2>2
  <2>5. QED BY <1>1, <2>3, <2>4 DEF Top
<1>4. QED BY <1>2, <1>3

\* Nothing waits: the file is all there is.
LEMMA Written ==
  ASSUME NEW s, Good(s), Waiting(s) = 0
  PROVE  Content(s) = s.file
BY DEF Content

\* Writing what waits changes nothing of the content.
LEMMA SyncOutSettled ==
  ASSUME NEW s, Good(s)
  PROVE  LET t == SyncOut(s)
         IN  /\ Settled(s, t) /\ t.file = Content(s) /\ Content(t) = Content(s)
             /\ WritePos(t) = t.posPut /\ t.posPut = s.posPut + Waiting(s)
<1>1. PICK w \in Nat : w = Waiting(s)
  BY Waits
<1>2. PICK t : t = SyncOut(s)
  OBVIOUS
<1>3. Good(t) /\ t.pb = BufSize /\ Waiting(t) = 0 /\ WritePos(t) = t.posPut
  BY <1>2, SyncOutGood, Waits
<1>4. Content(t) = t.file
  BY <1>3, Written
<1>5. s \in Stream
  BY DEF Good
<1>6. CASE w = 0
  <2>1. SyncOut(s) = [s EXCEPT !.most = 0, !.pb = BufSize, !.p = BufSize]
    BY <1>1, <1>5, <1>6 DEF SyncOut, NoOutput, Stream
  <2>2. t.file = s.file /\ t.posPut = s.posPut
    BY <1>2, <1>5, <2>1 DEF Stream
  <2>3. Content(s) = s.file /\ WritePos(s) = s.posPut + 0 /\ s.posPut \in Nat
    <3>1. /\ OutWaiting(s) \in 0..Waiting(s) /\ WritePos(s) = s.posPut + OutWaiting(s) /\ s.posPut \in Nat
          /\ Waiting(s) = 0
      BY <1>1, <1>6, Waits
    <3>2. OutWaiting(s) = 0
      BY <3>1
    <3>3. QED BY <3>1, <3>2, Written
  <2>4. t.posPut = s.posPut + Waiting(s) /\ t.file = Content(s) /\ WritePos(t) = WritePos(s)
    BY <1>1, <1>3, <1>6, <2>2, <2>3
  <2>5. Settled(s, t)
    <3>1. Top(s) = s.posPut + Waiting(s) /\ Top(t) = t.posPut + 0 /\ t.posPut \in Nat
      BY <1>3, <2>2, <2>3 DEF Top
    <3>2. QED BY <1>4, <2>4, <3>1 DEF Settled
  <2>6. QED BY <1>2, <1>3, <1>4, <2>4, <2>5
<1>7. CASE w # 0
  <2>1. s.pb = 0 /\ s.io = "PUT" /\ s.off = s.posPut /\ s.posPut \in Nat /\ w > 0
    BY <1>1, <1>7, Waits
  <2>2. PICK u : u = FlushSome(s, w)
    OBVIOUS
  <2>3. SyncOut(s) = NoOutput([u EXCEPT !.most = 0])
    BY <1>1, <2>1, <2>2 DEF SyncOut
  <2>4. u = [s EXCEPT !.buf = NoBytes, !.io = "PUT", !.pb = 0, !.p = 0,
                      !.file = Overwrite(s.file, s.posPut, Span(s, 0, w)), !.off = s.posPut + w,
                      !.posPut = s.posPut + w]
    BY <1>5, <2>1, <2>2 DEF FlushSome, Unused, Stream
  <2>5. u.file = Overwrite(s.file, s.posPut, Span(s, 0, w)) /\ u.posPut = s.posPut + w
    BY <1>5, <2>4 DEF Stream
  <2>6. t.file = u.file /\ t.posPut = u.posPut
    BY <1>2, <1>5, <2>3, <2>4 DEF NoOutput, Stream
  <2>7. t.file = Content(s)
    BY <1>1, <1>7, <2>1, <2>5, <2>6 DEF Content
  <2>8. Top(s) = s.posPut + w /\ Top(t) = t.posPut + 0 /\ t.posPut \in Nat
    BY <1>1, <1>3, <2>1, <2>5, <2>6 DEF Top
  <2>9. Settled(s, t)
    BY <1>3, <1>4, <2>5, <2>6, <2>7, <2>8 DEF Settled
  <2>10. QED BY <1>1, <1>2, <1>3, <1>4, <2>5, <2>6, <2>7, <2>9
<1>8. QED BY <1>6, <1>7

\* Settling twice.
LEMMA SettledTwice ==
  ASSUME NEW s, NEW t, NEW u, Settled(s, t), Settled(t, u)
  PROVE  Settled(s, u)
BY DEF Settled

\* Fields that Content and WritePos do not look at.
LEMMA Elsewhere ==
  ASSUME NEW s, NEW t, Good(s), Good(t), s.pb = BufSize, t.pb = BufSize,
         t.file = s.file, t.posPut = s.posPut
  PROVE  Settled(s, t) /\ WritePos(t) = WritePos(s) /\ Content(t) = Content(s)
<1>1. Waiting(s) = 0 /\ Waiting(t) = 0 /\ WritePos(s) = s.posPut /\ WritePos(t) = t.posPut
  BY Waits
<1>2. Content(s) = s.file /\ Content(t) = t.file
  BY <1>1, Written
<1>3. Top(s) = s.posPut + 0 /\ Top(t) = t.posPut + 0
  BY <1>1 DEF Top
<1>4. QED BY <1>1, <1>2, <1>3 DEF Settled

\* Dropping what was read ahead changes nothing of the content.
LEMMA SyncInSettled ==
  ASSUME NEW s, Good(s), s.pb = BufSize
  PROVE  LET t == SyncIn(s)
         IN  /\ Settled(s, t) /\ t.pb = BufSize /\ WritePos(t) = WritePos(s) /\ Content(t) = Content(s)
<1>1. s \in Stream
  BY DEF Good
<1>2. PICK t : t = SyncIn(s)
  OBVIOUS
<1>3. Good(t)
  BY <1>2, SyncInGood
<1>4. t.pb = BufSize /\ t.file = s.file /\ t.posPut = s.posPut
  BY <1>1, <1>2 DEF SyncIn, NoInput, Unused, Stream
<1>5. QED BY <1>2, <1>3, <1>4, Elsewhere

\* Nor does sync, in either direction.
LEMMA SyncSettled ==
  ASSUME NEW s, Good(s)
  PROVE  LET t == Sync(s)
         IN  /\ Good(t) /\ Settled(s, t) /\ ReadPos(t) = ReadPos(s) /\ t.file = Content(s)
             /\ WritePos(t) = s.posPut + Waiting(s)
<1>1. PICK u : u = SyncOut(s)
  OBVIOUS
<1>2. /\ Good(u) /\ u.pb = BufSize /\ Settled(s, u) /\ u.file = Content(s) /\ WritePos(u) = s.posPut + Waiting(s)
      /\ u.g = s.g /\ u.eg = s.eg /\ u.posGet = s.posGet
  BY <1>1, SyncOutGood, SyncOutSettled
<1>3. ReadPos(u) = ReadPos(s)
  BY <1>2 DEF ReadPos, InAvail
<1>4. PICK t : t = SyncIn(u)
  OBVIOUS
<1>5. Good(t) /\ ReadPos(t) = ReadPos(u) /\ t.file = u.file
  BY <1>2, <1>4, SyncInGood
<1>6. Settled(u, t) /\ WritePos(t) = WritePos(u)
  BY <1>2, <1>4, SyncInSettled
<1>7. Settled(s, t)
  BY <1>2, <1>5, <1>6, SettledTwice
<1>8. Sync(s) = t
  BY <1>1, <1>4 DEF Sync
<1>9. QED BY <1>2, <1>3, <1>5, <1>6, <1>7, <1>8

\* What Close leaves of a file is its content.
LEMMA ClosedContent == ASSUME NEW s, Good(s) PROVE Closed(s) = Content(s)
BY SyncSettled DEF Closed

\* Filling the buffer writes first what waits.
LEMMA UnderflowSettled ==
  ASSUME NEW s, Good(s), s.g = s.eg
  PROVE  LET t == Underflow(s)
         IN  /\ Good(t) /\ t.io = "GET" /\ ReadPos(t) = ReadPos(s) /\ Settled(s, t) /\ t.file = Content(s)
             /\ t.g < t.eg <=> ReadPos(s) < Len(Content(s))
<1>1. PICK t : t = Underflow(s)
  OBVIOUS
<1>2. PICK u : u = SyncOut(s)
  OBVIOUS
<1>3. /\ Good(t) /\ t.io = "GET" /\ ReadPos(t) = ReadPos(s)
      /\ t.g < t.eg <=> ReadPos(s) < Len(t.file)
      /\ t.file = u.file /\ t.posPut = u.posPut
  BY <1>1, <1>2, UnderflowGood
<1>4. Good(u) /\ u.pb = BufSize /\ Settled(s, u) /\ u.file = Content(s)
  BY <1>2, SyncOutGood, SyncOutSettled
<1>5. t.pb = BufSize
  BY <1>3, Waits
<1>6. Settled(u, t)
  BY <1>3, <1>4, <1>5, Elsewhere
<1>7. Settled(s, t)
  BY <1>4, <1>6, SettledTwice
<1>8. QED BY <1>1, <1>3, <1>4, <1>7

\* A read of one byte: the one at the read position, or EOF.
ReadAs(s, r, k) ==
  /\ Good(r.s) /\ r.s.io = "GET" /\ Settled(s, r.s) /\ ReadPos(r.s) = ReadPos(s) + k
  /\ r.c \in Stored \union {EOF}
  /\ r.c = EOF <=> ReadPos(s) >= Len(Content(s))
  /\ r.c # EOF => ReadPos(s) + 1 \in 1..Len(Content(s)) /\ r.c = Content(s)[ReadPos(s) + 1]

\* A stream settles as itself.
LEMMA SettledSame == ASSUME NEW s PROVE Settled(s, s)
BY DEF Settled

\* What Peek gives of a stream that was read last.
LEMMA PeekRead ==
  ASSUME NEW t, Good(t), t.io = "GET"
  PROVE  t.g < t.eg => /\ ReadPos(t) + 1 \in 1..Len(t.file) /\ t.buf[t.g] = t.file[ReadPos(t) + 1]
                       /\ t.buf[t.g] \in Stored /\ t.buf[t.g] # EOF
<1>1. SUFFICES ASSUME t.g < t.eg
               PROVE  /\ ReadPos(t) + 1 \in 1..Len(t.file) /\ t.buf[t.g] = t.file[ReadPos(t) + 1]
                      /\ t.buf[t.g] \in Stored /\ t.buf[t.g] # EOF
  OBVIOUS
<1>2. Reads(t, Peek(t), 0)
  BY PeekGood
<1>3. Peek(t) = [s |-> t, c |-> t.buf[t.g]]
  BY <1>1 DEF Peek, AtG
<1>4. Peek(t).c = t.buf[t.g]
  BY <1>3
<1>5. ~(ReadPos(t) >= Len(t.file))
  <2>1. t.g \in 0..(t.eg - 1) /\ ReadPos(t) = t.posGet - t.eg + t.g
    BY <1>1, Pointers, StreamFields
  <2>2. t.posGet - t.eg + t.g + 1 \in 1..Len(t.file)
    BY <2>1 DEF Good
  <2>3. ReadPos(t) \in Nat /\ Len(t.file) \in Nat
    BY Pointers, StreamFields
  <2>4. QED BY <2>1, <2>2, <2>3
<1>6. QED BY <1>2, <1>4, <1>5, MarksDiffer DEF Reads

\* Peek gives the byte at the read position, or EOF at the end of the content.
LEMMA PeekAs ==
  ASSUME NEW s, Good(s)
  PROVE  /\ ReadAs(s, Peek(s), 0) /\ Peek(s) = [s |-> Peek(s).s, c |-> Peek(s).c]
         /\ Peek(s).c # EOF => Peek(s).s.g < Peek(s).s.eg
<1>1. PICK t : t = IF s.g < s.eg THEN s ELSE Underflow(s)
  OBVIOUS
<1>2. s.g \in 0..s.eg /\ s.eg \in Nat /\ s.g \in Nat /\ ReadPos(s) \in Nat /\ (s.io # "GET" => s.eg = 0)
  BY Pointers, StreamFields DEF Good
<1>3. Len(Content(s)) \in Nat
  BY ContentGood
<1>4. /\ Good(t) /\ t.io = "GET" /\ ReadPos(t) = ReadPos(s) /\ Settled(s, t) /\ t.file = Content(s)
      /\ t.g < t.eg <=> ReadPos(s) < Len(Content(s))
  <2>1. CASE s.g < s.eg
    <3>1. t = s /\ s.io = "GET"
      BY <1>1, <1>2, <2>1
    <3>2. Content(s) = s.file
      BY <3>1, ContentGood
    <3>3. ReadPos(s) + 1 \in 1..Len(s.file)
      BY <2>1, <3>1, PeekRead
    <3>4. QED BY <1>2, <1>3, <2>1, <3>1, <3>2, <3>3, SettledSame
  <2>2. CASE ~(s.g < s.eg)
    <3>1. s.g = s.eg
      BY <1>2, <2>2
    <3>2. QED BY <1>1, <2>2, <3>1, UnderflowSettled
  <2>3. QED BY <2>1, <2>2
<1>5. Peek(s) = [s |-> t, c |-> IF t.g < t.eg THEN t.buf[t.g] ELSE EOF]
  BY <1>1 DEF Peek, AtG
<1>6. Peek(s).s = t /\ Peek(s).c = IF t.g < t.eg THEN t.buf[t.g] ELSE EOF
  BY <1>5
<1>7. t.g < t.eg => /\ ReadPos(t) + 1 \in 1..Len(t.file) /\ t.buf[t.g] = t.file[ReadPos(t) + 1]
                    /\ t.buf[t.g] \in Stored /\ t.buf[t.g] # EOF
  BY <1>4, PeekRead
<1>8. ReadPos(t) = ReadPos(s) + 0
  BY <1>2, <1>4
<1>9. CASE t.g < t.eg
  <2>1. Peek(s).c # EOF /\ Peek(s).c \in Stored /\ ReadPos(s) + 1 \in 1..Len(Content(s))
        /\ Peek(s).c = Content(s)[ReadPos(s) + 1]
    BY <1>4, <1>6, <1>7, <1>9
  <2>2. ~(ReadPos(s) >= Len(Content(s)))
    BY <1>2, <1>3, <1>4, <1>9
  <2>3. QED BY <1>4, <1>5, <1>6, <1>8, <1>9, <2>1, <2>2 DEF ReadAs
<1>10. CASE ~(t.g < t.eg)
  <2>1. Peek(s).c = EOF
    BY <1>6, <1>10
  <2>2. ReadPos(s) >= Len(Content(s))
    BY <1>2, <1>3, <1>4, <1>10
  <2>3. QED BY <1>4, <1>5, <1>6, <1>8, <2>1, <2>2 DEF ReadAs
<1>11. QED BY <1>9, <1>10

\* Getc gives the same, and moves one byte on.
LEMMA GetcAs ==
  ASSUME NEW s, Good(s)
  PROVE  LET r == Getc(s) IN ReadAs(s, r, IF r.c = EOF THEN 0 ELSE 1)
<1>1. PICK q : q = Peek(s)
  OBVIOUS
<1>2. ReadAs(s, q, 0) /\ q = [s |-> q.s, c |-> q.c] /\ (q.c # EOF => q.s.g < q.s.eg)
  BY <1>1, PeekAs
<1>3. CASE q.c = EOF
  <2>1. Getc(s) = q
    BY <1>1, <1>3 DEF Getc, Bumped
  <2>2. QED BY <1>2, <1>3, <2>1
<1>4. CASE q.c # EOF
  <2>1. Good(q.s) /\ q.s.io = "GET" /\ q.s \in Stream
    BY <1>2 DEF ReadAs, Good
  <2>2. PICK t : t = [q.s EXCEPT !.g = q.s.g + 1]
    OBVIOUS
  <2>3. Getc(s) = [s |-> t, c |-> q.c]
    BY <1>1, <1>2, <1>4, <2>2 DEF Getc, Bumped
  <2>4. Getc(s).s = t /\ Getc(s).c = q.c
    BY <2>3
  <2>5. Good(t) /\ t.io = "GET" /\ ReadPos(t) = ReadPos(s) + 1
    <3>1. Reads(s, Getc(s), IF Getc(s).c = EOF THEN 0 ELSE 1)
      BY GetcGood
    <3>2. QED BY <1>4, <2>4, <3>1 DEF Reads
  <2>6. t.file = q.s.file /\ t.posPut = q.s.posPut
    BY <2>1, <2>2 DEF Stream
  <2>7. Settled(q.s, t)
    BY <2>1, <2>5, <2>6, Elsewhere, Waits
  <2>8. Settled(s, t)
    BY <1>2, <2>1, <2>5, <2>7, SettledTwice DEF ReadAs
  <2>9. QED BY <1>2, <1>4, <2>4, <2>5, <2>8 DEF ReadAs
<1>5. QED BY <1>3, <1>4

-----------------------------------------------------------------------------
\* Seeks.
LEMMA SeekToAs ==
  ASSUME NEW s, Good(s), s.pb = BufSize, NEW at \in Nat, NEW io \in {"GET", "PUT"}
  PROVE  LET t == SeekTo(s, at, io)
         IN  /\ Good(t) /\ Content(t) = Content(s)
             /\ io = "GET" => ReadPos(t) = at /\ Settled(s, t)
             /\ io = "PUT" => ReadPos(t) = ReadPos(s) /\ WritePos(t) = at /\ Top(t) = at
<1>1. s \in Stream /\ ReadPos(s) = s.posGet - InAvail(s) /\ ReadPos(s) \in Nat /\ s.posPut \in Nat
  BY Pointers, StreamFields DEF ReadPos
<1>2. PICK t : t = SeekTo(s, at, io)
  OBVIOUS
<1>3. Good(t) /\ t.file = s.file /\ (io = "GET" => ReadPos(t) = at)
  BY <1>2, SeekToGood
<1>4. PICK q, w : /\ q = IF io = "GET" THEN at ELSE s.posGet - InAvail(s)
                  /\ w = IF io = "PUT" THEN at ELSE s.posPut
  OBVIOUS
<1>5. t = [s EXCEPT !.off = at, !.io = io, !.posGet = q, !.posPut = w, !.buf = NoBytes, !.g = 0, !.eg = 0]
  BY <1>1, <1>2, <1>4 DEF SeekTo, Unused, NoInput, Stream
<1>6. t.pb = BufSize /\ t.posPut = w /\ t.posGet = q /\ t.g = 0 /\ t.eg = 0
  BY <1>1, <1>5 DEF Stream
<1>7. /\ WritePos(t) = w /\ Content(t) = t.file /\ WritePos(s) = s.posPut /\ Content(s) = s.file
      /\ Top(t) = WritePos(t) /\ Top(s) = WritePos(s)
  BY <1>3, <1>6, Waits, Written
<1>8. io = "PUT" => ReadPos(t) = ReadPos(s)
  <2>1. ReadPos(t) = q - (0 - 0)
    BY <1>6 DEF ReadPos, InAvail
  <2>2. QED BY <1>1, <1>4, <2>1
<1>9. io = "GET" => Settled(s, t)
  BY <1>3, <1>4, <1>7 DEF Settled
<1>10. QED BY <1>2, <1>3, <1>4, <1>7, <1>8, <1>9

\* A seek through the descriptor leaves the content, and one position.
LEMMA HardSeekAs ==
  ASSUME NEW s, Good(s), NEW to \in Nat \union {End}, NEW io \in {"GET", "PUT"}
  PROVE  LET t == HardSeek(s, to, io)
             at == IF to = End THEN Len(Content(s)) ELSE to
         IN  /\ Good(t) /\ Content(t) = Content(s)
             /\ io = "GET" => Settled(s, t) /\ ReadPos(t) = at
             /\ io = "PUT" => ReadPos(t) = ReadPos(s) /\ WritePos(t) = at /\ Top(t) = at
<1>1. PICK u : u = SyncOut(s)
  OBVIOUS
<1>2. /\ Good(u) /\ u.pb = BufSize /\ Settled(s, u) /\ u.file = Content(s) /\ Content(u) = Content(s)
      /\ u.g = s.g /\ u.eg = s.eg /\ u.posGet = s.posGet
  BY <1>1, SyncOutGood, SyncOutSettled
<1>3. ReadPos(u) = ReadPos(s)
  BY <1>2 DEF ReadPos, InAvail
<1>4. PICK at \in Nat : at = IF to = End THEN Len(Content(s)) ELSE to
  BY ContentGood
<1>5. PICK t : t = SeekTo(u, at, io)
  OBVIOUS
<1>6. HardSeek(s, to, io) = t
  BY <1>1, <1>2, <1>4, <1>5 DEF HardSeek, Seek
<1>7. /\ Good(t) /\ Content(t) = Content(u)
      /\ io = "GET" => ReadPos(t) = at /\ Settled(u, t)
      /\ io = "PUT" => ReadPos(t) = ReadPos(u) /\ WritePos(t) = at /\ Top(t) = at
  BY <1>2, <1>5, SeekToAs
<1>8. io = "GET" => Settled(s, t)
  BY <1>2, <1>7, SettledTwice
<1>9. QED BY <1>2, <1>3, <1>4, <1>6, <1>7, <1>8

\* seekg moves the read position, and the content stays.
LEMMA SeekInAs ==
  ASSUME NEW s, Good(s), NEW to \in Nat \union {End}
  PROVE  LET t == SeekIn(s, to)
         IN  /\ Good(t) /\ Settled(s, t) /\ Content(t) = Content(s)
             /\ ReadPos(t) = IF to = End THEN Len(Content(s)) ELSE to
<1> DEFINE i == s.g + to - (s.posGet - InAvail(s))
<1>1. CASE to # End /\ 0 <= i /\ i <= s.eg
  <2>1. PICK j : j = i
    OBVIOUS
  <2>2. to \in Nat
    BY <1>1
  <2>3. s \in Stream /\ s.g \in 0..s.eg /\ InAvail(s) = s.eg - s.g /\ s.posGet - s.eg \in Nat
        /\ s.posGet \in Nat /\ s.eg \in Nat /\ s.g \in Nat
    BY Pointers, StreamFields
  <2>4. j \in Int /\ s.posGet - s.eg + j = to
    BY <2>1, <2>2, <2>3
  <2>5. PICK t : t = [s EXCEPT !.g = j]
    OBVIOUS
  <2>6. SeekIn(s, to) = t
    BY <1>1, <2>1, <2>5 DEF SeekIn
  <2>7. Good(t)
    BY <2>6, SeekInGood
  <2>8. /\ t.g = j /\ t.eg = s.eg /\ t.posGet = s.posGet /\ t.pb = s.pb /\ t.p = s.p /\ t.most = s.most
        /\ t.file = s.file /\ t.posPut = s.posPut /\ t.buf = s.buf
    BY <2>3, <2>5 DEF Stream
  <2>9. Content(t) = Content(s) /\ WritePos(t) = WritePos(s) /\ Top(t) = Top(s)
    BY <2>8 DEF Content, WritePos, Top, Waiting, OutWaiting, Span
  <2>10. ReadPos(t) = to
    <3>1. ReadPos(t) = t.posGet - t.eg + t.g
      BY <2>7, Pointers
    <3>2. QED BY <2>4, <2>8, <3>1
  <2>11. Settled(s, t)
    BY <2>9 DEF Settled
  <2>12. QED BY <1>1, <2>6, <2>7, <2>9, <2>10, <2>11
<1>2. CASE ~(to # End /\ 0 <= i /\ i <= s.eg)
  <2>1. SeekIn(s, to) = HardSeek(s, to, "GET")
    BY <1>2, Zenon DEF SeekIn
  <2>2. PICK t : t = HardSeek(s, to, "GET")
    OBVIOUS
  <2>3. /\ Good(t) /\ Content(t) = Content(s) /\ Settled(s, t)
        /\ ReadPos(t) = IF to = End THEN Len(Content(s)) ELSE to
    BY <2>2, HardSeekAs
  <2>4. QED BY <2>1, <2>2, <2>3
<1>3. QED BY <1>1, <1>2

\* seekp moves the write position, and the content stays.
LEMMA SeekOutAs ==
  ASSUME NEW s, Good(s), NEW to \in Nat \union {End}
  PROVE  LET t == SeekOut(s, to)
         IN  /\ Good(t) /\ Content(t) = Content(s) /\ ReadPos(t) = ReadPos(s)
             /\ WritePos(t) = IF to = End THEN Len(Content(s)) ELSE to
             /\ Top(t) \in {WritePos(t), Top(s)}
<1> DEFINE i == to - s.posPut
<1>0. PICK t : t = SeekOut(s, to)
  OBVIOUS
<1>1. CASE to # End /\ 0 <= i /\ i <= Waiting(s)
  <2>1. PICK w \in Nat : w = Waiting(s)
    BY Waits
  <2>2. to \in Nat /\ s.posPut \in Nat /\ s.pb \in {0, BufSize} /\ BufSize \in Nat /\ s \in Stream
    BY <1>1, Waits, Sizes DEF Good
  <2>3. PICK j \in Nat : j = to - s.posPut /\ j <= w
    BY <1>1, <2>1, <2>2
  <2>4. PICK p \in Nat : p = s.pb + j
    BY <2>2
  <2>5. t = [s EXCEPT !.most = w, !.p = p]
    BY <1>0, <1>1, <2>1, <2>3, <2>4, Zenon DEF SeekOut
  <2>6. Good(t)
    BY <1>0, SeekOutGood
  <2>7. /\ t.g = s.g /\ t.eg = s.eg /\ t.posGet = s.posGet /\ t.pb = s.pb /\ t.p = p /\ t.most = w
        /\ t.file = s.file /\ t.posPut = s.posPut /\ t.buf = s.buf
    BY <2>2, <2>5 DEF Stream
  <2>8. OutWaiting(t) = j
    BY <2>2, <2>4, <2>7 DEF OutWaiting
  <2>9. Waiting(t) = w
    BY <2>3, <2>7, <2>8 DEF Waiting
  <2>10. Content(t) = Content(s)
    BY <2>1, <2>7, <2>9 DEF Content, Span
  <2>11. WritePos(t) = to
    BY <2>2, <2>3, <2>7, <2>8 DEF WritePos
  <2>12. ReadPos(t) = ReadPos(s)
    BY <2>7 DEF ReadPos, InAvail
  <2>13. Top(t) = Top(s)
    BY <2>1, <2>7, <2>9 DEF Top
  <2>14. QED BY <1>0, <1>1, <2>6, <2>10, <2>11, <2>12, <2>13
<1>2. CASE ~(to # End /\ 0 <= i /\ i <= Waiting(s))
  <2>1. SeekOut(s, to) = HardSeek(s, to, "PUT")
    BY <1>2, Zenon DEF SeekOut
  <2>2. PICK u : u = HardSeek(s, to, "PUT")
    OBVIOUS
  <2>3. /\ Good(u) /\ Content(u) = Content(s) /\ ReadPos(u) = ReadPos(s)
        /\ WritePos(u) = (IF to = End THEN Len(Content(s)) ELSE to)
        /\ Top(u) = (IF to = End THEN Len(Content(s)) ELSE to)
    BY <2>2, HardSeekAs
  <2>4. Top(u) \in {WritePos(u), Top(s)}
    BY <2>3
  <2>5. t = u
    BY <1>0, <2>1, <2>2
  <2>6. QED BY <1>0, <2>3, <2>4, <2>5
<1>3. QED BY <1>1, <1>2

-----------------------------------------------------------------------------
(***************************************************************************)
(* Writing.                                                                *)
(***************************************************************************)
\* Making room for a byte changes nothing.
LEMMA OverflowAs ==
  ASSUME NEW s, Good(s), s.p = BufSize, ~NullWrite(s)
  PROVE  LET t == Overflow(s)
         IN  /\ Content(t) = Content(s) /\ WritePos(t) = WritePos(s) /\ ReadPos(t) = ReadPos(s)
<1>1. PICK t : t = Overflow(s)
  OBVIOUS
<1>2. Good(t) /\ t.pb = 0 /\ t.io = "PUT"
  BY <1>1, OverflowGood
<1>3. /\ s \in Stream /\ ReadPos(s) \in Nat /\ ReadPos(s) = s.posGet - InAvail(s)
      /\ s.posPut \in Nat /\ s.posGet \in Nat /\ s.pb \in {0, BufSize} /\ BufSize \in Nat
      /\ 0 < BufSize /\ s.io \in {"NONE", "GET", "PUT"} /\ s.most \in 0..BufSize
  <2>1. s \in Stream /\ ReadPos(s) \in Nat
    BY Pointers
  <2>2. QED BY <2>1, StreamFields, Sizes DEF ReadPos
<1>4. ASSUME t.p = 0, t.most = 0
      PROVE  Content(t) = t.file /\ WritePos(t) = t.posPut
  <2>1. OutWaiting(t) = 0
    BY <1>2, <1>4 DEF OutWaiting
  <2>2. Waiting(t) = 0
    BY <1>4, <2>1 DEF Waiting
  <2>3. WritePos(t) = t.posPut + 0 /\ t.posPut \in Nat
    BY <1>2, <2>1, Waits
  <2>4. QED BY <1>2, <2>2, <2>3, Written
<1>5. CASE s.io = "GET"
  <2>1. PICK o, q : o = s.off + s.posPut - s.posGet /\ q = s.posGet - InAvail(s)
    OBVIOUS
  <2>2. t = [s EXCEPT !.g = 0, !.eg = 0, !.buf = NoBytes, !.off = o, !.posGet = q,
                      !.pb = 0, !.p = 0, !.io = "PUT"]
    BY <1>1, <1>3, <1>5, <2>1 DEF Overflow, Unused, NoInput, Stream
  <2>3. t.g = 0 /\ t.eg = 0 /\ t.posGet = q /\ t.p = 0 /\ t.most = s.most /\ t.file = s.file /\ t.posPut = s.posPut
    BY <1>3, <2>2 DEF Stream
  <2>4. s.most = 0 /\ Content(s) = s.file /\ WritePos(s) = s.posPut
    <3>1. s.pb = BufSize /\ Waiting(s) = 0 /\ WritePos(s) = s.posPut
      BY <1>5, Waits
    <3>2. s.most = 0
      BY <3>1 DEF Good
    <3>3. QED BY <3>1, <3>2, Written
  <2>5. ReadPos(t) = q - (0 - 0)
    BY <2>3 DEF ReadPos, InAvail
  <2>6. ReadPos(t) = ReadPos(s)
    BY <1>3, <2>1, <2>5
  <2>7. QED BY <1>1, <1>4, <2>3, <2>4, <2>6
<1>6. CASE s.io # "GET" /\ s.pb = 0
  <2>1. s.io = "PUT" /\ OutWaiting(s) = BufSize /\ s.off = s.posPut /\ Waiting(s) = BufSize
    <3>1. OutWaiting(s) = BufSize
      BY <1>3, <1>6 DEF OutWaiting
    <3>2. Waiting(s) = BufSize
      BY <1>3, <3>1 DEF Waiting
    <3>3. QED BY <1>3, <1>6, <3>1, <3>2, Waits
  <2>2. \A i \in 0..(BufSize - 1) : s.buf[i] \in Bytes
    BY <1>3, <1>6 DEF Good
  <2>3. PICK u : u = FlushSome(s, BufSize)
    OBVIOUS
  <2>4. /\ u \in Stream /\ u.pb = 0 /\ u.p = 0 /\ u.posPut = s.posPut + BufSize
        /\ u.g = s.g /\ u.eg = s.eg /\ u.posGet = s.posGet /\ u.most = s.most
    <3>1. BufSize \in 0..BufSize
      BY <1>3
    <3>2. QED BY <1>6, <2>1, <2>2, <2>3, <3>1, FlushSomeGood
  <2>5. u = [s EXCEPT !.buf = NoBytes, !.io = "PUT", !.pb = 0, !.p = 0,
                      !.file = Overwrite(s.file, s.posPut, Span(s, 0, BufSize)), !.off = s.posPut + BufSize,
                      !.posPut = s.posPut + BufSize]
    BY <1>3, <1>6, <2>1, <2>3 DEF FlushSome, Unused, Stream
  <2>6. u.file = Overwrite(s.file, s.posPut, Span(s, 0, BufSize))
    BY <1>3, <2>5 DEF Stream
  <2>7. t = [u EXCEPT !.most = 0, !.io = "PUT"]
    BY <1>1, <1>3, <1>6, <2>1, <2>3 DEF Overflow
  <2>8. t.p = 0 /\ t.most = 0 /\ t.file = u.file /\ t.posPut = u.posPut /\ t.g = s.g /\ t.eg = s.eg /\ t.posGet = s.posGet
    BY <2>4, <2>7 DEF Stream
  <2>9. Content(s) = u.file
    BY <1>3, <1>6, <2>1, <2>6 DEF Content
  <2>10. WritePos(s) = s.posPut + BufSize
    BY <2>1, Waits
  <2>11. ReadPos(t) = ReadPos(s)
    BY <2>8 DEF ReadPos, InAvail
  <2>12. QED BY <1>1, <1>4, <2>4, <2>8, <2>9, <2>10, <2>11
<1>7. CASE s.io # "GET" /\ s.pb # 0
  <2>1. s.pb = BufSize /\ s.most = 0 /\ OutWaiting(s) = 0
    BY <1>3, <1>7 DEF Good, OutWaiting
  <2>2. t = [s EXCEPT !.has = TRUE, !.pb = 0, !.p = 0, !.most = 0, !.io = "PUT"]
    BY <1>1, <1>3, <1>7, <2>1 DEF Overflow, Stream
  <2>3. t.p = 0 /\ t.most = 0 /\ t.file = s.file /\ t.posPut = s.posPut /\ t.g = s.g /\ t.eg = s.eg /\ t.posGet = s.posGet
    BY <1>3, <2>2 DEF Stream
  <2>4. Content(s) = s.file /\ WritePos(s) = s.posPut
    BY <2>1, Waits, Written
  <2>5. ReadPos(t) = ReadPos(s)
    BY <2>3 DEF ReadPos, InAvail
  <2>6. QED BY <1>1, <1>4, <2>3, <2>4, <2>5
<1>8. QED BY <1>5, <1>6, <1>7

\* c written over f at pos.
Placed(f, pos, c) ==
  [i \in 1..(IF pos + 1 > Len(f) THEN pos + 1 ELSE Len(f)) |->
     IF i = pos + 1 THEN c ELSE IF i <= Len(f) THEN f[i] ELSE Hole]

\* Storing c in the buffer puts it over the content at the write position.
LEMMA StoreAs ==
  ASSUME NEW u, Good(u), u.pb = 0, u.p < BufSize, NEW c \in Bytes,
         NEW t, Good(t), t.pb = 0, t.p = u.p + 1, t.most = u.most, t.file = u.file, t.posPut = u.posPut,
         t.buf = [u.buf EXCEPT ![u.p] = c]
  PROVE  Content(t) = Placed(Content(u), WritePos(u), c) /\ WritePos(t) = WritePos(u) + 1
<1>1. /\ u.p \in 0..(BufSize - 1) /\ u.p \in Nat /\ u.most \in Nat /\ u.posPut \in Nat /\ Len(u.file) \in Nat
      /\ u.buf \in [0..(BufSize - 1) -> Bytes \union {Junk, Hole}] /\ BufSize \in Nat
      /\ u.most <= BufSize
  <2>1. u \in Stream
    BY DEF Good
  <2>2. /\ u.buf \in [0..(BufSize - 1) -> Bytes \union {Junk, Hole}] /\ u.p \in 0..BufSize
        /\ u.posPut \in Nat /\ u.most \in 0..BufSize /\ Len(u.file) \in Nat
    BY <2>1, StreamFields
  <2>3. QED BY <2>2, Sizes
<1>2. PICK f : f = u.file
  OBVIOUS
<1>3. PICK n \in Nat : n = Len(f)
  BY <1>1, <1>2
<1>4. PICK a \in Nat : a = u.posPut
  BY <1>1
<1>5. PICK p \in 0..(BufSize - 1) : p = u.p
  BY <1>1
<1>6. PICK w \in Nat : w = IF u.most > p THEN u.most ELSE p
  BY <1>1
<1>7. PICK v \in Nat : v = IF u.most > p + 1 THEN u.most ELSE p + 1
  BY <1>1
<1>8. /\ OutWaiting(u) = p /\ OutWaiting(t) = p + 1
  BY <1>1, <1>5 DEF OutWaiting
<1>9. Waiting(u) = w /\ Waiting(t) = v
  BY <1>1, <1>5, <1>6, <1>7, <1>8 DEF Waiting
<1>10. WritePos(u) = a + p /\ WritePos(t) = a + p + 1
  <2>1. WritePos(u) = a + p /\ WritePos(t) = a + (p + 1)
    BY <1>4, <1>8 DEF WritePos
  <2>2. QED BY <2>1
<1>11. v # 0 /\ v <= BufSize /\ w <= v /\ p < v /\ (w = v \/ (w = p /\ v = p + 1))
  BY <1>1, <1>5, <1>6, <1>7
<1>12. PICK k \in Nat : k = IF w # 0 /\ a + w > n THEN a + w ELSE n
  OBVIOUS
<1>13. PICK l \in Nat : l = IF a + v > n THEN a + v ELSE n
  OBVIOUS
<1>14. l = (IF a + p + 1 > k THEN a + p + 1 ELSE k) /\ n <= k
  <2>1. CASE w = v
    BY <1>1, <1>11, <1>12, <1>13, <2>1
  <2>2. CASE w = p /\ v = p + 1
    BY <1>1, <1>11, <1>12, <1>13, <2>2
  <2>3. QED BY <1>11, <2>1, <2>2
<1>15. Len(Content(u)) = k /\ Content(u) = [i \in 1..k |-> ByteAt(u, w, i)]
  BY <1>2, <1>3, <1>4, <1>9, <1>12, Bytewise
<1>16. Content(t) = [i \in 1..l |-> ByteAt(t, v, i)]
  <2>1. t.posPut = a /\ Len(t.file) = n /\ v = Waiting(t)
    BY <1>2, <1>3, <1>4, <1>9
  <2>2. l = IF v # 0 /\ t.posPut + v > Len(t.file) THEN t.posPut + v ELSE Len(t.file)
    BY <1>11, <1>13, <2>1
  <2>3. Good(t)
    OBVIOUS
  <2>4. Content(t) = [i \in 1..l |-> ByteAt(t, v, i)]
    BY <2>1, <2>2, <2>3, Bytewise
  <2>5. QED BY <2>4
<1>17. PICK x : x = Content(u)
  OBVIOUS
<1>18. Placed(x, a + p, c) = [i \in 1..l |-> IF i = a + p + 1 THEN c ELSE IF i <= k THEN x[i] ELSE Hole]
  <2>1. Len(x) = k /\ a + p + 1 \in Nat
    BY <1>15, <1>17
  <2>2. QED BY <1>14, <2>1 DEF Placed
<1>19. ASSUME NEW i \in 1..l
       PROVE  ByteAt(t, v, i) = (IF i = a + p + 1 THEN c ELSE IF i <= k THEN x[i] ELSE Hole)
  <2>0. /\ ByteAt(t, v, i) = IF a < i /\ i <= a + v THEN t.buf[i - a - 1] ELSE IF i <= n THEN f[i] ELSE Hole
        /\ ByteAt(u, w, i) = IF a < i /\ i <= a + w THEN u.buf[i - a - 1] ELSE IF i <= n THEN f[i] ELSE Hole
    BY <1>2, <1>3, <1>4 DEF ByteAt
  <2>1. i \in Nat /\ i >= 1 /\ BufSize \in Nat
    BY <1>1
  <2>2. CASE i = a + p + 1
    <3>1. a < i /\ i <= a + v /\ i - a - 1 = p
      BY <1>11, <2>2
    <3>2. t.buf[p] = c
      BY <1>1, <1>5
    <3>3. QED BY <2>0, <2>2, <3>1, <3>2
  <2>3. CASE i # a + p + 1 /\ a < i /\ i <= a + v
    <3>1. i <= a + w
      BY <1>11, <2>1, <2>3
    <3>2. PICK j \in 0..(BufSize - 1) : j = i - a - 1 /\ j # p
      <4>1. i - a - 1 \in 0..(BufSize - 1) /\ i - a - 1 # p
        BY <1>11, <2>1, <2>3
      <4>2. QED BY <4>1
    <3>3. t.buf[j] = u.buf[j]
      BY <1>1, <1>5, <3>2
    <3>4. i <= k /\ i \in 1..k
      BY <1>12, <2>1, <2>3, <3>1
    <3>5. x[i] = u.buf[j]
      BY <1>15, <1>17, <2>0, <2>3, <3>1, <3>2, <3>4
    <3>6. QED BY <2>0, <2>3, <3>2, <3>3, <3>4, <3>5
  <2>4. CASE i # a + p + 1 /\ ~(a < i /\ i <= a + v)
    <3>1. ~(a < i /\ i <= a + w)
      BY <1>11, <2>1, <2>4
    <3>2. CASE i <= k
      <4>1. i \in 1..k
        BY <2>1, <3>2
      <4>2. x[i] = IF i <= n THEN f[i] ELSE Hole
        BY <1>15, <1>17, <2>0, <3>1, <4>1
      <4>3. QED BY <2>0, <2>4, <3>2, <4>2
    <3>3. CASE ~(i <= k)
      <4>1. ~(i <= n)
        BY <1>14, <2>1, <3>3
      <4>2. QED BY <2>0, <2>4, <3>3, <4>1
    <3>4. QED BY <3>2, <3>3
  <2>5. QED BY <2>2, <2>3, <2>4
<1>20. Content(t) = Placed(x, a + p, c)
  BY <1>16, <1>18, <1>19, Zenon
<1>21. QED BY <1>10, <1>17, <1>20

\* One byte more.
LEMMA PutcAs ==
  ASSUME NEW s, Good(s), ~NullWrite(s), NEW c \in Bytes
  PROVE  LET t == Putc(s, c)
         IN  /\ Good(t) /\ Content(t) = Placed(Content(s), WritePos(s), c)
             /\ WritePos(t) = WritePos(s) + 1 /\ ReadPos(t) = ReadPos(s)
<1>1. PICK u : u = IF s.p < BufSize THEN s ELSE Overflow(s)
  OBVIOUS
<1>2. /\ Good(u) /\ u.pb = 0 /\ u.p < BufSize /\ u \in Stream
      /\ Content(u) = Content(s) /\ WritePos(u) = WritePos(s) /\ ReadPos(u) = ReadPos(s)
  <2>1. s \in Stream /\ s.p \in 0..BufSize /\ s.pb \in {0, BufSize} /\ BufSize \in Nat /\ s.pb <= s.p
    BY StreamFields, Sizes DEF Good
  <2>2. CASE s.p < BufSize
    <3>1. s.pb = 0
      BY <2>1, <2>2
    <3>2. QED BY <1>1, <2>1, <2>2, <3>1
  <2>3. CASE ~(s.p < BufSize)
    <3>1. s.p = BufSize
      BY <2>1, <2>3
    <3>2. u = Overflow(s)
      BY <1>1, <2>3
    <3>3. Good(u) /\ u.pb = 0 /\ u.p < BufSize
      BY <3>2, OverflowGood
    <3>4. Content(u) = Content(s) /\ WritePos(u) = WritePos(s) /\ ReadPos(u) = ReadPos(s)
      BY <3>1, <3>2, OverflowAs
    <3>5. QED BY <3>3, <3>4 DEF Good
  <2>4. QED BY <2>2, <2>3
<1>3. PICK b, p : b = [u.buf EXCEPT ![u.p] = c] /\ p = u.p + 1
  OBVIOUS
<1>4. PICK t : t = [u EXCEPT !.buf = b, !.p = p]
  OBVIOUS
<1>5. Putc(s, c) = t
  <2>1. Putc(s, c) = Store(u, c)
    BY <1>1, Zenon DEF Putc
  <2>2. Store(u, c) = t
    BY <1>2, <1>3, <1>4 DEF Store, Stream
  <2>3. QED BY <2>1, <2>2
<1>6. Good(t)
  BY <1>5, PutcGood
<1>7. /\ t.buf = b /\ t.g = u.g /\ t.eg = u.eg /\ t.pb = u.pb /\ t.p = p /\ t.posGet = u.posGet
      /\ t.posPut = u.posPut /\ t.most = u.most /\ t.file = u.file
  BY <1>2, <1>4 DEF Stream
<1>8. Content(t) = Placed(Content(u), WritePos(u), c) /\ WritePos(t) = WritePos(u) + 1
  BY <1>2, <1>3, <1>6, <1>7, StoreAs
<1>9. ReadPos(t) = ReadPos(u)
  BY <1>7 DEF ReadPos, InAvail
<1>10. QED BY <1>2, <1>5, <1>6, <1>8, <1>9

\* The first i bytes of str written over f at pos.
Over(f, pos, str, i) ==
  IF i = 0 THEN f
  ELSE [k \in 1..(IF pos + i > Len(f) THEN pos + i ELSE Len(f)) |->
          IF pos < k /\ k <= pos + i THEN str[k - pos] ELSE IF k <= Len(f) THEN f[k] ELSE Hole]

\* One byte more of str.
LEMMA OverStep ==
  ASSUME NEW f \in Seq(Stored), NEW pos \in Nat, NEW str, NEW i \in Nat
  PROVE  Placed(Over(f, pos, str, i), pos + i, str[i + 1]) = Over(f, pos, str, i + 1)
<1>1. PICK n \in Nat : n = Len(f)
  BY LenProperties
<1>2. f \in [1..n -> Stored]
  BY <1>1, LenProperties
<1>3. PICK k \in Nat : k = IF i # 0 /\ pos + i > n THEN pos + i ELSE n
  OBVIOUS
<1>4. PICK l \in Nat : l = IF pos + i + 1 > n THEN pos + i + 1 ELSE n
  OBVIOUS
<1>5. PICK x : x = Over(f, pos, str, i)
  OBVIOUS
<1>6. Len(x) = k /\ \A j \in 1..k : x[j] = IF pos < j /\ j <= pos + i THEN str[j - pos]
                                           ELSE IF j <= n THEN f[j] ELSE Hole
  <2>1. CASE i = 0
    BY <1>1, <1>3, <1>5, <2>1 DEF Over
  <2>2. CASE i # 0
    <3>1. x = [j \in 1..k |-> IF pos < j /\ j <= pos + i THEN str[j - pos] ELSE IF j <= n THEN f[j] ELSE Hole]
      BY <1>1, <1>3, <1>5, <2>2 DEF Over
    <3>2. QED BY <3>1
  <2>3. QED BY <2>1, <2>2
<1>7. Over(f, pos, str, i + 1)
        = [j \in 1..l |-> IF pos < j /\ j <= pos + i + 1 THEN str[j - pos] ELSE IF j <= n THEN f[j] ELSE Hole]
  <2>1. i + 1 # 0 /\ pos + (i + 1) = pos + i + 1
    OBVIOUS
  <2>2. QED BY <1>1, <1>4, <2>1 DEF Over
<1>8. l = (IF pos + i + 1 > k THEN pos + i + 1 ELSE k) /\ n <= k
  BY <1>3, <1>4
<1>9. Placed(x, pos + i, str[i + 1])
        = [j \in 1..l |-> IF j = pos + i + 1 THEN str[i + 1] ELSE IF j <= k THEN x[j] ELSE Hole]
  BY <1>6, <1>8 DEF Placed
<1>10. ASSUME NEW j \in 1..l
       PROVE  (IF j = pos + i + 1 THEN str[i + 1] ELSE IF j <= k THEN x[j] ELSE Hole)
                = (IF pos < j /\ j <= pos + i + 1 THEN str[j - pos] ELSE IF j <= n THEN f[j] ELSE Hole)
  <2>1. CASE j = pos + i + 1
    <3>1. j - pos = i + 1 /\ pos < j /\ j <= pos + i + 1
      BY <2>1
    <3>2. QED BY <2>1, <3>1
  <2>2. CASE j # pos + i + 1 /\ j <= k
    <3>1. j \in 1..k
      BY <2>2
    <3>2. (pos < j /\ j <= pos + i) <=> (pos < j /\ j <= pos + i + 1)
      BY <2>2
    <3>3. QED BY <1>6, <2>2, <3>1, <3>2
  <2>3. CASE j # pos + i + 1 /\ ~(j <= k)
    <3>1. ~(j <= n)
      BY <1>8, <2>3
    <3>2. ~(pos < j /\ j <= pos + i + 1)
      BY <1>3, <1>4, <1>8, <2>3
    <3>3. QED BY <2>3, <3>1, <3>2
  <2>4. QED BY <2>1, <2>2, <2>3
<1>11. QED BY <1>5, <1>7, <1>9, <1>10, Zenon

\* Writing str over the content, at the write position.
LEMMA PutAllAs ==
  ASSUME NEW s, Good(s), ~NullWrite(s), NEW str \in Seq(Bytes)
  PROVE  LET t == PutAll(s, str)
         IN  /\ Good(t) /\ Content(t) = Over(Content(s), WritePos(s), str, Len(str))
             /\ WritePos(t) = WritePos(s) + Len(str) /\ ReadPos(t) = ReadPos(s)
<1>1. PICK n \in Nat : n = Len(str)
  BY LenProperties
<1>2. PICK put : /\ put[0] = s /\ PutAll(s, str) = put[n]
                 /\ \A i \in 1..n : put[i] = Putc(put[i - 1], str[i])
                 /\ \A i \in 0..n : Good(put[i]) /\ ~NullWrite(put[i])
  <2>1. PICK put : PutRun(put, s, str, n)
    BY <1>1, PutAllSteps
  <2>2. QED BY <2>1 DEF PutRun
<1>3. PICK f \in Seq(Stored) : f = Content(s)
  BY ContentGood
<1>4. PICK pos \in Nat : pos = WritePos(s)
  BY Waits
<1> DEFINE T == {i \in 0..n : /\ Content(put[i]) = Over(f, pos, str, i) /\ WritePos(put[i]) = pos + i
                              /\ ReadPos(put[i]) = ReadPos(s)}
<1>5. 0 \in T
  BY <1>2, <1>3, <1>4 DEF Over
<1>6. ASSUME NEW i \in 1..n, i - 1 \in T PROVE i \in T
  <2>1. PICK j \in Nat : j = i - 1 /\ i = j + 1 /\ j \in 0..n /\ i \in 0..n
    <3>1. i - 1 \in Nat /\ i = (i - 1) + 1 /\ i - 1 \in 0..n /\ i \in 0..n
      OBVIOUS
    <3>2. QED BY <3>1
  <2>2. str[i] \in Bytes
    BY <1>1, ElementOfSeq
  <2>3. Content(put[j]) = Over(f, pos, str, j) /\ WritePos(put[j]) = pos + j /\ ReadPos(put[j]) = ReadPos(s)
    BY <1>6, <2>1
  <2>4. Good(put[j]) /\ ~NullWrite(put[j]) /\ put[i] = Putc(put[j], str[i])
    BY <1>2, <2>1
  <2>5. /\ Content(put[i]) = Placed(Content(put[j]), WritePos(put[j]), str[i])
        /\ WritePos(put[i]) = WritePos(put[j]) + 1 /\ ReadPos(put[i]) = ReadPos(put[j])
    BY <2>2, <2>4, PutcAs
  <2>6. Placed(Over(f, pos, str, j), pos + j, str[j + 1]) = Over(f, pos, str, j + 1)
    BY OverStep
  <2>7. Content(put[i]) = Over(f, pos, str, i)
    BY <2>1, <2>3, <2>5, <2>6
  <2>8. WritePos(put[i]) = pos + i
    BY <2>1, <2>3, <2>5
  <2>9. QED BY <2>1, <2>3, <2>5, <2>7, <2>8
<1> HIDE DEF T
<1>7. \A i \in 0..n : i \in T
  BY <1>5, <1>6, UpTo
<1>8. n \in T
  BY <1>7
<1>9. Good(put[n])
  BY <1>2
<1>10. QED BY <1>1, <1>2, <1>3, <1>4, <1>8, <1>9 DEF T

-----------------------------------------------------------------------------
(***************************************************************************)
(* Reading.                                                                *)
(***************************************************************************)
\* What a read has taken of f after i bytes were asked for.
Took(s, f, r, stop, i) ==
  /\ r \in Read /\ Settled(s, r.s)
  /\ ReadPos(r.s) = ReadPos(s) + Len(r.val) /\ Len(r.val) <= i
  /\ Len(r.val) # 0 => ReadPos(s) + Len(r.val) <= Len(f)
  /\ \A k \in 1..Len(r.val) : r.val[k] = f[ReadPos(s) + k] /\ (k # Len(r.val) => r.val[k] # stop)
  /\ r.eof => ReadPos(s) + Len(r.val) >= Len(f) /\ (Len(r.val) # 0 => r.val[Len(r.val)] # stop)
  /\ ~r.eof /\ (Len(r.val) = 0 \/ r.val[Len(r.val)] # stop) => Len(r.val) = i

\* One step of the loop of a read.
LEMMA TookStep ==
  ASSUME NEW s, Good(s), NEW f, f = Content(s), NEW stop, NEW i \in Nat, NEW r, Took(s, f, r, stop, i)
  PROVE  Took(s, f, ReadStep(r, stop), stop, i + 1)
<1>1. r \in Read /\ Good(r.s) /\ r.val \in Seq(Stored) /\ r.eof \in BOOLEAN
  BY DEF Took, Read, Goods
<1>2. PICK n \in Nat : n = Len(r.val)
  BY <1>1, LenProperties
<1>3. PICK pos \in Nat : pos = ReadPos(s)
  BY Pointers
<1>4. f \in Seq(Stored) /\ Len(f) \in Nat
  BY ContentGood
<1>5. /\ Settled(s, r.s) /\ ReadPos(r.s) = pos + n /\ n <= i /\ (n # 0 => pos + n <= Len(f))
      /\ \A k \in 1..n : r.val[k] = f[pos + k] /\ (k # n => r.val[k] # stop)
      /\ r.eof => pos + n >= Len(f) /\ (n # 0 => r.val[n] # stop)
      /\ ~r.eof /\ (n = 0 \/ r.val[n] # stop) => n = i
  BY <1>2, <1>3 DEF Took
<1>6. r.val # << >> <=> n # 0
  BY <1>1, <1>2, EmptySeq
<1>7. CASE r.eof \/ (n # 0 /\ r.val[n] = stop)
  <2>1. ReadStep(r, stop) = r
    BY <1>2, <1>6, <1>7 DEF ReadStep, Last
  <2>2. ~(~r.eof /\ (n = 0 \/ r.val[n] # stop))
    BY <1>7
  <2>3. n <= i + 1
    BY <1>5
  <2>4. QED BY <1>2, <2>1, <2>2, <2>3 DEF Took
<1>8. CASE ~r.eof /\ ~(n # 0 /\ r.val[n] = stop)
  <2>1. PICK q : q = Getc(r.s)
    OBVIOUS
  <2>2. PICK t : t = ReadStep(r, stop)
    OBVIOUS
  <2>3. ~(r.eof \/ (r.val # << >> /\ Last(r.val) = stop)) /\ n = i
    BY <1>2, <1>5, <1>6, <1>8 DEF Last
  <2>4. t = [s |-> q.s, eof |-> q.c = EOF, val |-> IF q.c = EOF THEN r.val ELSE Append(r.val, q.c)]
    BY <2>1, <2>2, <2>3, Zenon DEF ReadStep, Taken
  <2>5. t.s = q.s /\ (t.eof <=> q.c = EOF) /\ t.val = IF q.c = EOF THEN r.val ELSE Append(r.val, q.c)
    BY <2>4
  <2>6. t \in Read
    BY <1>1, <2>2, ReadStepTyped
  <2>7. PICK k : k = IF q.c = EOF THEN 0 ELSE 1
    OBVIOUS
  <2>8. ReadAs(r.s, q, k)
    BY <1>1, <2>1, <2>7, GetcAs
  <2>9. Content(r.s) = f
    BY <1>5 DEF Settled
  <2>10. /\ Settled(r.s, q.s) /\ ReadPos(q.s) = pos + n + k /\ q.c \in Stored \union {EOF}
         /\ q.c = EOF <=> pos + n >= Len(f)
         /\ q.c # EOF => pos + n + 1 \in 1..Len(f) /\ q.c = f[pos + n + 1]
    BY <1>5, <2>8, <2>9 DEF ReadAs
  <2>11. Settled(s, t.s)
    BY <1>5, <2>5, <2>10, SettledTwice
  <2>12. CASE q.c = EOF
    <3>1. t.eof /\ t.val = r.val /\ ReadPos(t.s) = pos + n /\ pos + n >= Len(f)
      BY <2>5, <2>7, <2>10, <2>12
    <3>2. n <= i + 1
      BY <1>5
    <3>3. QED BY <1>2, <1>3, <1>5, <1>8, <2>2, <2>6, <2>11, <3>1, <3>2 DEF Took
  <2>13. CASE q.c # EOF
    <3>1. PICK v : v = Append(r.val, q.c)
      OBVIOUS
    <3>2. /\ Len(v) = n + 1 /\ v[n + 1] = q.c /\ \A j \in 1..n : v[j] = r.val[j]
      BY <1>1, <1>2, <2>10, <2>13, <3>1, AppendProperties
    <3>3. ~t.eof /\ t.val = v /\ ReadPos(t.s) = pos + (n + 1) /\ pos + (n + 1) <= Len(f) /\ v[n + 1] = f[pos + (n + 1)]
      <4>1. ~t.eof /\ t.val = v
        BY <2>5, <2>13, <3>1
      <4>2. ReadPos(t.s) = pos + (n + 1)
        BY <2>5, <2>7, <2>10, <2>13
      <4>3. pos + n + 1 = pos + (n + 1) /\ pos + (n + 1) <= Len(f)
        BY <1>4, <2>10, <2>13
      <4>4. QED BY <2>10, <2>13, <3>2, <4>1, <4>2, <4>3
    <3>4. ASSUME NEW j \in 1..(n + 1)
          PROVE  v[j] = f[pos + j] /\ (j # n + 1 => v[j] # stop)
      <4>1. CASE j = n + 1
        BY <3>3, <4>1
      <4>2. CASE j # n + 1
        <5>1. j \in 1..n
          BY <4>2
        <5>2. r.val[j] # stop
          BY <1>5, <1>8, <5>1
        <5>3. QED BY <1>5, <3>2, <5>1, <5>2
      <4>3. QED BY <4>1, <4>2
    <3>5. Len(t.val) = n + 1 /\ n + 1 = i + 1 /\ n + 1 <= i + 1
      BY <2>3, <3>2, <3>3
    <3>6. QED BY <1>3, <2>2, <2>6, <2>11, <3>3, <3>4, <3>5 DEF Took
  <2>14. QED BY <2>12, <2>13
<1>9. QED BY <1>1, <1>7, <1>8

\* The whole loop of a read.
LEMMA GetUntilTook ==
  ASSUME NEW s, Good(s), NEW f, f = Content(s), NEW n \in Nat, NEW stop
  PROVE  Took(s, f, GetUntil(s, n, stop), stop, n)
<1>1. PICK get : /\ get[0] = [s |-> s, val |-> << >>, eof |-> FALSE] /\ GetUntil(s, n, stop) = get[n]
                 /\ \A i \in 1..n : get[i] = ReadStep(get[i - 1], stop)
                 /\ \A i \in 0..n : get[i] \in Read
  <2>1. PICK get : GetRun(get, s, n, stop)
    BY GetUntilSteps
  <2>2. QED BY <2>1 DEF GetRun
<1> DEFINE T == {i \in 0..n : Took(s, f, get[i], stop, i)}
<1>2. 0 \in T
  <2>1. get[0].s = s /\ get[0].val = << >> /\ get[0].eof = FALSE /\ get[0] \in Read /\ Len(<< >>) = 0
    BY <1>1
  <2>2. ReadPos(s) \in Nat
    BY Pointers
  <2>3. QED BY <2>1, <2>2, SettledSame DEF Took
<1>3. ASSUME NEW i \in 1..n, i - 1 \in T PROVE i \in T
  <2>1. i - 1 \in Nat /\ (i - 1) + 1 = i /\ i \in 0..n /\ Took(s, f, get[i - 1], stop, i - 1)
    BY <1>3
  <2>2. Took(s, f, ReadStep(get[i - 1], stop), stop, (i - 1) + 1)
    BY <2>1, TookStep, Zenon
  <2>3. QED BY <1>1, <2>1, <2>2
<1> HIDE DEF T
<1>4. \A i \in 0..n : i \in T
  BY <1>2, <1>3, UpTo
<1>5. n \in T
  BY <1>4
<1>6. QED BY <1>1, <1>5 DEF T

\* The bytes taken from a to b are those RexxStreams calls a slice.
LEMMA SliceIs ==
  ASSUME NEW f \in Seq(Stored), NEW pos \in Nat, NEW n \in Nat, NEW v \in Seq(Stored),
         Len(v) = IF pos + n < Len(f) THEN n ELSE IF pos < Len(f) THEN Len(f) - pos ELSE 0,
         \A k \in 1..Len(v) : v[k] = f[pos + k]
  PROVE  RS!Slice(f, pos, n) = v
<1>1. Len(f) \in Nat /\ Len(v) \in Nat /\ v \in [1..Len(v) -> Stored]
  BY LenProperties
<1>2. PICK to \in Nat : to = IF pos + n < Len(f) THEN pos + n ELSE Len(f)
  BY <1>1
<1>3. to <= Len(f) /\ Len(v) = IF pos + 1 <= to THEN to - (pos + 1) + 1 ELSE 0
  BY <1>1, <1>2
<1>4. \A i \in (pos + 1)..to : f[i] \in Stored
  <2>1. \A i \in (pos + 1)..to : i \in 1..Len(f)
    BY <1>1, <1>3
  <2>2. QED BY <2>1, ElementOfSeq
<1>5. PICK u : u = SubSeq(f, pos + 1, to)
  OBVIOUS
<1>6. /\ u \in Seq(Stored) /\ Len(u) = Len(v)
      /\ \A i \in 1..(to - (pos + 1) + 1) : u[i] = f[pos + 1 + i - 1]
  BY <1>3, <1>4, <1>5, SubSeqProperties
<1>7. ASSUME NEW i \in 1..Len(v) PROVE u[i] = v[i]
  <2>1. i \in 1..(to - (pos + 1) + 1) /\ pos + 1 + i - 1 = pos + i
    BY <1>1, <1>3
  <2>2. QED BY <1>6, <2>1
<1>8. u \in [1..Len(v) -> Stored]
  BY <1>6, LenProperties
<1>9. u = v
  BY <1>1, <1>7, <1>8
<1>10. RS!Slice(f, pos, n) = u
  BY <1>2, <1>5 DEF RS!Slice
<1>11. QED BY <1>9, <1>10

\* What a read of n bytes gives.
LEMMA CharsTaken ==
  ASSUME NEW s, Good(s), NEW n \in Nat
  PROVE  LET r == GetUntil(s, n, EOF)
         IN  /\ Good(r.s) /\ Settled(s, r.s) /\ r.val = RS!Slice(Content(s), ReadPos(s), n)
             /\ ReadPos(r.s) = ReadPos(s) + Len(r.val)
<1>1. PICK f : f = Content(s)
  OBVIOUS
<1>2. f \in Seq(Stored) /\ Len(f) \in Nat
  BY <1>1, ContentGood
<1>3. PICK pos \in Nat : pos = ReadPos(s)
  BY Pointers
<1>4. PICK r : r = GetUntil(s, n, EOF)
  OBVIOUS
<1>5. Took(s, f, r, EOF, n)
  BY <1>1, <1>4, GetUntilTook
<1>6. r \in Read /\ Good(r.s) /\ r.val \in Seq(Stored) /\ r.eof \in BOOLEAN
  BY <1>5 DEF Took, Read, Goods
<1>7. PICK l \in Nat : l = Len(r.val)
  BY <1>6, LenProperties
<1>8. /\ Settled(s, r.s) /\ ReadPos(r.s) = pos + l /\ l <= n /\ (l # 0 => pos + l <= Len(f))
      /\ \A k \in 1..l : r.val[k] = f[pos + k]
      /\ r.eof => pos + l >= Len(f)
      /\ ~r.eof /\ (l = 0 \/ r.val[l] # EOF) => l = n
  BY <1>3, <1>5, <1>7 DEF Took
<1>9. l # 0 => r.val[l] # EOF
  <2>1. l # 0 => l \in 1..Len(r.val)
    BY <1>7
  <2>2. l # 0 => r.val[l] \in Stored
    BY <1>6, <2>1, ElementOfSeq
  <2>3. QED BY <2>2, MarksDiffer
<1>10. l = IF pos + n < Len(f) THEN n ELSE IF pos < Len(f) THEN Len(f) - pos ELSE 0
  <2>1. CASE r.eof
    BY <1>2, <1>8, <2>1
  <2>2. CASE ~r.eof
    <3>1. l = n
      BY <1>8, <1>9, <2>2
    <3>2. QED BY <1>2, <1>8, <3>1
  <2>3. QED BY <2>1, <2>2
<1>11. r.val = RS!Slice(f, pos, n)
  <2>1. \A k \in 1..Len(r.val) : r.val[k] = f[pos + k]
    BY <1>7, <1>8
  <2>2. Len(r.val) = IF pos + n < Len(f) THEN n ELSE IF pos < Len(f) THEN Len(f) - pos ELSE 0
    BY <1>7, <1>10
  <2>3. QED BY <1>2, <1>6, <2>1, <2>2, SliceIs
<1>12. QED BY <1>1, <1>3, <1>4, <1>6, <1>7, <1>8, <1>11

\* Where a line that starts at pos ends.
LEMMA LineEnds ==
  ASSUME NEW f \in Seq(Stored), NEW pos \in Nat, NEW l \in Nat,
         \A k \in 1..(l - 1) : f[pos + k] # Newline,
         l = 0 => pos >= Len(f),
         l # 0 => pos + l <= Len(f) /\ (f[pos + l] = Newline \/ pos + l = Len(f))
  PROVE  RS!LineLength(f, pos) = l
<1>1. PICK n \in Nat : n = Len(f)
  BY LenProperties
<1>2. PICK ends : ends = {i \in (pos + 1)..n : f[i] = Newline}
  OBVIOUS
<1>3. RS!LineLength(f, pos) = IF pos >= n THEN 0
                              ELSE IF ends = {} THEN n - pos
                              ELSE (CHOOSE i \in ends : \A j \in ends : i <= j) - pos
  BY <1>1, <1>2 DEF RS!LineLength
<1>4. CASE l = 0
  BY <1>1, <1>3, <1>4
<1>5. CASE l # 0
  <2>1. ~(pos >= n) /\ pos + l <= n /\ (f[pos + l] = Newline \/ pos + l = n)
    BY <1>1, <1>5
  <2>2. ASSUME NEW i \in ends PROVE pos + l <= i
    <3>1. i \in Nat /\ i > pos /\ f[i] = Newline
      BY <1>2
    <3>2. CASE i < pos + l
      <4>1. i - pos \in 1..(l - 1) /\ pos + (i - pos) = i
        BY <3>1, <3>2
      <4>2. QED BY <3>1, <4>1
    <3>3. QED BY <3>1, <3>2
  <2>3. CASE f[pos + l] = Newline
    <3>1. pos + l \in ends
      BY <1>2, <1>5, <2>1, <2>3
    <3>2. ends \subseteq Nat
      BY <1>2
    <3>3. PICK x : x = CHOOSE i \in ends : \A j \in ends : i <= j
      OBVIOUS
    <3>4. x \in ends /\ \A j \in ends : x <= j
      BY <2>2, <3>1, <3>3
    <3>5. x <= pos + l /\ pos + l <= x
      BY <2>2, <3>1, <3>4
    <3>6. x = pos + l
      BY <3>2, <3>4, <3>5
    <3>7. ~(pos >= n) /\ ends # {}
      BY <2>1, <3>1
    <3>8. RS!LineLength(f, pos) = x - pos
      BY <1>3, <3>3, <3>7
    <3>9. QED BY <3>6, <3>8
  <2>4. CASE f[pos + l] # Newline
    <3>1. pos + l = n
      BY <2>1, <2>4
    <3>2. ends = {}
      <4>1. ASSUME NEW i \in ends PROVE FALSE
        <5>1. i \in (pos + 1)..n /\ f[i] = Newline /\ pos + l <= i
          BY <1>2, <2>2
        <5>2. i = pos + l
          BY <3>1, <5>1
        <5>3. QED BY <2>4, <5>1, <5>2
      <4>2. QED BY <4>1
    <3>3. QED BY <1>3, <2>1, <3>1, <3>2
  <2>5. QED BY <2>3, <2>4
<1>6. QED BY <1>4, <1>5

\* What a read of a line gives.
LEMMA LineTaken ==
  ASSUME NEW s, Good(s)
  PROVE  LET r    == readLine(s)
             line == RS!Slice(Content(s), ReadPos(s), RS!LineLength(Content(s), ReadPos(s)))
         IN  /\ Good(r.s) /\ Settled(s, r.s) /\ r.val = RS!ChompLine(line)
             /\ ReadPos(r.s) = ReadPos(s) + Len(line)
<1>1. PICK f : f = Content(s)
  OBVIOUS
<1>2. f \in Seq(Stored)
  BY <1>1, ContentGood
<1>3. PICK n \in Nat : n = Len(f)
  BY <1>2, LenProperties
<1>4. PICK pos \in Nat : pos = ReadPos(s)
  BY Pointers
<1>5. PICK q : q = GetUntil(s, n + 1, Newline)
  OBVIOUS
<1>6. Took(s, f, q, Newline, n + 1)
  BY <1>1, <1>5, GetUntilTook
<1>7. q \in Read /\ Good(q.s) /\ q.val \in Seq(Stored) /\ q.eof \in BOOLEAN
  BY <1>6 DEF Took, Read, Goods
<1>8. PICK l \in Nat : l = Len(q.val)
  BY <1>7, LenProperties
<1>9. /\ Settled(s, q.s) /\ ReadPos(q.s) = pos + l /\ (l # 0 => pos + l <= n)
      /\ \A k \in 1..l : q.val[k] = f[pos + k] /\ (k # l => q.val[k] # Newline)
      /\ q.eof => pos + l >= n /\ (l # 0 => q.val[l] # Newline)
      /\ ~q.eof /\ (l = 0 \/ q.val[l] # Newline) => l = n + 1
  BY <1>3, <1>4, <1>6, <1>8 DEF Took
<1>10. ~q.eof => l # 0 /\ q.val[l] = Newline
  BY <1>9
<1>11. RS!LineLength(f, pos) = l
  <2>1. \A k \in 1..(l - 1) : f[pos + k] # Newline
    <3>1. \A k \in 1..(l - 1) : k \in 1..l /\ k # l
      OBVIOUS
    <3>2. QED BY <1>9, <3>1
  <2>2. l = 0 => pos >= Len(f)
    BY <1>3, <1>9, <1>10
  <2>3. l # 0 => pos + l <= Len(f) /\ (f[pos + l] = Newline \/ pos + l = Len(f))
    <3>1. l # 0 => l \in 1..l
      OBVIOUS
    <3>2. l # 0 => q.val[l] = f[pos + l]
      BY <1>9, <3>1
    <3>3. QED BY <1>3, <1>9, <1>10, <3>2
  <2>4. QED BY <1>2, <2>1, <2>2, <2>3, LineEnds
<1>12. RS!Slice(f, pos, l) = q.val
  <2>1. l = IF pos + l < Len(f) THEN l ELSE IF pos < Len(f) THEN Len(f) - pos ELSE 0
    BY <1>3, <1>9
  <2>2. QED BY <1>2, <1>7, <1>8, <1>9, <2>1, SliceIs
<1>13. PICK r : r = Chomped(q)
  OBVIOUS
<1>14. readLine(s) = r
  BY <1>1, <1>3, <1>5, <1>13 DEF readLine
<1>15. r.s = q.s /\ r.val = IF q.eof THEN q.val ELSE SubSeq(q.val, 1, Len(q.val) - 1)
  BY <1>7, <1>13 DEF Chomped, Read
<1>16. r.val = RS!ChompLine(q.val)
  <2>1. q.val # << >> <=> l # 0
    BY <1>7, <1>8, EmptySeq
  <2>2. (q.val # << >> /\ q.val[Len(q.val)] = Newline) <=> ~q.eof
    BY <1>8, <1>9, <1>10, <2>1
  <2>3. QED BY <1>15, <2>2 DEF RS!ChompLine
<1>17. QED BY <1>1, <1>4, <1>7, <1>8, <1>9, <1>11, <1>12, <1>14, <1>15, <1>16

-----------------------------------------------------------------------------
(***************************************************************************)
(* Going to a line.                                                        *)
(***************************************************************************)
\* The positions a search for a line passes through.
Went(s, r) ==
  /\ r \in Going /\ Settled(s, r.sb)
  /\ ReadPos(r.sb) \in {ReadPos(s)} \union 0..Len(Content(s))

\* One step of the search for a line.
LEMMA WentStep ==
  ASSUME NEW s, Good(s), NEW to \in Nat, NEW r, Went(s, r)
  PROVE  Went(s, GoStep(r, to))
<1>1. r \in Going /\ Good(r.sb) /\ Content(r.sb) = Content(s) /\ Len(Content(s)) \in Nat /\ ReadPos(r.sb) \in Nat
  BY ContentGood, Pointers DEF Went, Going, Goods, Settled
<1>2. CASE r.eof \/ r.line >= to
  BY <1>2 DEF GoStep
<1>3. CASE ~(r.eof \/ r.line >= to)
  <2>1. PICK q : q = Getc(r.sb)
    OBVIOUS
  <2>2. PICK t : t = GoStep(r, to)
    OBVIOUS
  <2>3. t \in Going
    BY <1>1, <2>2, GoStepTyped
  <2>4. t.sb = q.s
    BY <1>3, <2>1, <2>2 DEF GoStep, Counted
  <2>5. PICK k : k = IF q.c = EOF THEN 0 ELSE 1
    OBVIOUS
  <2>6. ReadAs(r.sb, q, k)
    BY <1>1, <2>1, <2>5, GetcAs
  <2>7. Settled(s, t.sb)
    BY <2>4, <2>6, SettledTwice DEF ReadAs, Went
  <2>8. CASE q.c = EOF
    <3>1. ReadPos(t.sb) = ReadPos(r.sb)
      BY <1>1, <2>4, <2>5, <2>6, <2>8 DEF ReadAs
    <3>2. QED BY <2>2, <2>3, <2>7, <3>1 DEF Went
  <2>9. CASE q.c # EOF
    <3>1. ReadPos(t.sb) = ReadPos(r.sb) + 1 /\ ReadPos(r.sb) + 1 \in 1..Len(Content(s))
      BY <1>1, <2>4, <2>5, <2>6, <2>9 DEF ReadAs
    <3>2. ReadPos(t.sb) \in 0..Len(Content(s))
      BY <3>1
    <3>3. QED BY <2>2, <2>3, <2>7, <3>2 DEF Went
  <2>10. QED BY <2>8, <2>9
<1>4. QED BY <1>2, <1>3

\* The whole search.
LEMMA GotoWent ==
  ASSUME NEW sb, Good(sb), NEW from \in Nat, NEW to \in Nat, NEW out \in BOOLEAN,
         NEW s, s = Rewound(sb, from, to, out), Good(s)
  PROVE  Went(s, gotoLine(sb, from, to, out))
<1>1. PICK n \in Nat : n = Len(Content(sb)) + 1
  BY ContentGood
<1>2. PICK go : /\ go[0] = [sb |-> s, line |-> IF from > to THEN 1 ELSE from, atStart |-> TRUE, eof |-> FALSE]
                /\ gotoLine(sb, from, to, out) = go[n]
                /\ \A i \in 1..n : go[i] = GoStep(go[i - 1], to)
                /\ \A i \in 0..n : go[i] \in Going
  <2>1. PICK go : SearchRun(go, sb, s, from, to, out, n)
    BY <1>1, GotoSteps
  <2>2. QED BY <2>1 DEF SearchRun
<1> DEFINE T == {i \in 0..n : Went(s, go[i])}
<1>3. 0 \in T
  <2>1. go[0].sb = s /\ go[0] \in Going
    BY <1>2
  <2>2. QED BY <2>1, SettledSame DEF Went
<1>4. ASSUME NEW i \in 1..n, i - 1 \in T PROVE i \in T
  <2>1. Went(s, go[i - 1]) /\ i \in 0..n
    BY <1>4
  <2>2. Went(s, GoStep(go[i - 1], to))
    BY <2>1, WentStep
  <2>3. QED BY <1>2, <2>1, <2>2
<1> HIDE DEF T
<1>5. \A i \in 0..n : i \in T
  BY <1>3, <1>4, UpTo
<1>6. n \in T
  BY <1>5
<1>7. QED BY <1>2, <1>6 DEF T

\* To read: the stream settles, and its read position moves where it may.
LEMMA GotoIn ==
  ASSUME NEW sb, Good(sb), NEW from \in Nat, NEW to \in Nat
  PROVE  LET r == gotoLine(sb, from, to, FALSE)
         IN  /\ Good(r.sb) /\ Settled(sb, r.sb)
             /\ ReadPos(r.sb) \in {ReadPos(sb)} \union 0..Len(Content(sb))
<1>1. PICK s : s = Rewound(sb, from, to, FALSE)
  OBVIOUS
<1>2. Good(s) /\ Settled(sb, s) /\ (s = sb \/ ReadPos(s) = 0)
  <2>1. CASE from <= to
    BY <1>1, <2>1, SettledSame DEF Rewound
  <2>2. CASE ~(from <= to)
    <3>1. s = SeekIn(sb, 0) /\ 0 \in Nat /\ 0 # End
      BY <1>1, <2>2 DEF Rewound, End
    <3>2. QED BY <3>1, SeekInAs
  <2>3. QED BY <2>1, <2>2
<1>3. PICK r : r = gotoLine(sb, from, to, FALSE)
  OBVIOUS
<1>4. Went(s, r)
  BY <1>1, <1>2, <1>3, GotoWent
<1>5. Good(r.sb)
  BY <1>4 DEF Went, Going, Goods
<1>6. Settled(sb, r.sb) /\ Content(s) = Content(sb) /\ Len(Content(sb)) \in Nat
  BY <1>2, <1>4, SettledTwice, ContentGood DEF Went, Settled
<1>7. ReadPos(r.sb) \in {ReadPos(sb)} \union 0..Len(Content(sb))
  BY <1>2, <1>4, <1>6 DEF Went
<1>8. QED BY <1>3, <1>5, <1>6, <1>7

\* To write: the write position goes to the start, or stays, or goes forward.
LEMMA GotoOut ==
  ASSUME NEW sb, Good(sb), NEW from \in Nat, NEW to \in Nat
  PROVE  LET r == gotoLine(sb, from, to, TRUE)
         IN  /\ Good(r.sb) /\ Content(r.sb) = Content(sb)
             /\ WritePos(r.sb) \in {0} \union WritePos(sb)..(WritePos(sb) + Len(Content(sb)))
<1>1. PICK s : s = Rewound(sb, from, to, TRUE)
  OBVIOUS
<1>2. Good(s) /\ Content(s) = Content(sb) /\ WritePos(s) \in {0, WritePos(sb)} /\ Top(s) \in {0, Top(sb)}
  <2>1. CASE from <= to
    BY <1>1, <2>1 DEF Rewound
  <2>2. CASE ~(from <= to)
    <3>1. s = SeekOut(sb, 0) /\ 0 \in Nat /\ 0 # End
      BY <1>1, <2>2 DEF Rewound, End
    <3>2. QED BY <3>1, SeekOutAs
  <2>3. QED BY <2>1, <2>2
<1>3. PICK r : r = gotoLine(sb, from, to, TRUE)
  OBVIOUS
<1>4. Went(s, r)
  BY <1>1, <1>2, <1>3, GotoWent
<1>5. Good(r.sb) /\ Content(r.sb) = Content(sb) /\ WritePos(r.sb) \in {0, WritePos(sb), Top(sb)}
  BY <1>2, <1>4 DEF Went, Going, Goods, Settled
<1>6. /\ WritePos(sb) \in Nat /\ Top(sb) \in Nat /\ WritePos(sb) <= Top(sb) /\ Len(Content(sb)) \in Nat
      /\ Top(sb) = WritePos(sb) \/ Top(sb) <= Len(Content(sb))
  BY Waits, TopInFile, ContentGood
<1>7. Top(sb) \in WritePos(sb)..(WritePos(sb) + Len(Content(sb)))
  BY <1>6
<1>8. WritePos(r.sb) \in {0} \union WritePos(sb)..(WritePos(sb) + Len(Content(sb)))
  <2>1. WritePos(sb) \in WritePos(sb)..(WritePos(sb) + Len(Content(sb)))
    BY <1>6
  <2>2. QED BY <1>5, <1>7, <2>1
<1>9. QED BY <1>3, <1>5, <1>8

\* A stream that the program moves to where it writes, and that is written through null,
\* already was one: reading makes a buffer, and a seek that moves the descriptor leaves
\* the stream to be written.
LEMMA SeekOutNull ==
  ASSUME NEW s, Good(s), NEW to \in Nat \union {End}
  PROVE  /\ NullWrite(SeekOut(s, to)) => NullWrite(s)
         /\ ~NullWrite(SeekOut(s, End))
<1>1. s \in Stream
  BY DEF Good
<1>2. ASSUME NEW x \in Nat \union {End} PROVE ~NullWrite(HardSeek(s, x, "PUT"))
  BY HardSeekGood DEF NullWrite
<1>3. SeekOut(s, End) = HardSeek(s, End, "PUT")
  BY DEF SeekOut
<1>4. PICK most, p : most = Waiting(s) /\ p = s.pb + to - s.posPut
  OBVIOUS
<1>5. CASE SeekOut(s, to) = HardSeek(s, to, "PUT")
  BY <1>2, <1>3, <1>5
<1>6. CASE \E q : SeekOut(s, to) = [s EXCEPT !.most = Waiting(s), !.p = q]
  <2>1. PICK q : SeekOut(s, to) = [s EXCEPT !.most = Waiting(s), !.p = q]
    BY <1>6
  <2>2. SeekOut(s, to).io = s.io /\ SeekOut(s, to).has = s.has
    BY <1>1, <2>1 DEF Stream
  <2>3. QED BY <1>2, <1>3, <2>2 DEF NullWrite
<1>7. QED BY <1>5, <1>6, Zenon DEF SeekOut

LEMMA GoStepNull ==
  ASSUME NEW r \in Going, NEW to \in Nat, NullWrite(GoStep(r, to).sb)
  PROVE  NullWrite(r.sb)
<1>1. CASE r.eof \/ r.line >= to
  BY <1>1 DEF GoStep
<1>2. CASE ~(r.eof \/ r.line >= to)
  <2>1. PICK q : q = Getc(r.sb)
    OBVIOUS
  <2>2. GoStep(r, to).sb = q.s
    BY <1>2, <2>1 DEF GoStep, Counted
  <2>3. Good(r.sb)
    BY DEF Going, Goods
  <2>4. q.s.has
    BY <2>1, <2>3, GetcGood DEF Reads
  <2>5. QED BY <2>2, <2>4 DEF NullWrite
<1>3. QED BY <1>1, <1>2

LEMMA GotoOutNull ==
  ASSUME NEW sb, Good(sb), NEW from \in Nat, NEW to \in Nat, NullWrite(gotoLine(sb, from, to, TRUE).sb)
  PROVE  NullWrite(sb)
<1>1. PICK s : s = Rewound(sb, from, to, TRUE)
  OBVIOUS
<1>2. Good(s) /\ (NullWrite(s) => NullWrite(sb))
  <2>1. CASE from <= to
    BY <1>1, <2>1 DEF Rewound
  <2>2. CASE ~(from <= to)
    <3>1. s = SeekOut(sb, 0) /\ 0 \in Nat
      BY <1>1, <2>2 DEF Rewound
    <3>2. QED BY <3>1, SeekOutGood, SeekOutNull
  <2>3. QED BY <2>1, <2>2
<1>3. PICK n \in Nat : n = Len(Content(sb)) + 1
  BY ContentGood
<1>4. PICK go : SearchRun(go, sb, s, from, to, TRUE, n)
  <2>1. PICK out \in BOOLEAN : out = TRUE
    OBVIOUS
  <2>2. QED BY <1>1, <1>2, <1>3, <2>1, GotoSteps
<1> DEFINE T == {i \in 0..n : NullWrite(go[i].sb) => NullWrite(s)}
<1>5. 0 \in T
  <2>1. go[0].sb = s
    BY <1>4 DEF SearchRun
  <2>2. QED BY <2>1
<1>6. ASSUME NEW i \in 1..n, i - 1 \in T PROVE i \in T
  <2>1. go[i] = GoStep(go[i - 1], to) /\ go[i - 1] \in Going /\ i \in 0..n
    <3>1. i - 1 \in 0..n /\ i \in 0..n
      OBVIOUS
    <3>2. QED BY <1>4, <3>1 DEF SearchRun
  <2>2. NullWrite(go[i - 1].sb) => NullWrite(s)
    BY <1>6
  <2>3. QED BY <2>1, <2>2, GoStepNull
<1> HIDE DEF T
<1>7. \A i \in 0..n : i \in T
  BY <1>5, <1>6, UpTo
<1>8. n \in T
  BY <1>7
<1>9. NullWrite(go[n].sb) => NullWrite(s)
  BY <1>8 DEF T
<1>10. gotoLine(sb, from, to, TRUE) = go[n]
  BY <1>4 DEF SearchRun
<1>11. QED BY <1>2, <1>9, <1>10

-----------------------------------------------------------------------------
\* Counting the lines that are left.
Between(f, a, b) == Cardinality({i \in (a + 1)..b : f[i] = Newline})

\* No newline where there are no bytes.
LEMMA BetweenNone == ASSUME NEW f, NEW a \in Int, NEW b \in Int, b <= a PROVE Between(f, a, b) = 0
<1>1. {i \in (a + 1)..b : f[i] = Newline} = {}
  OBVIOUS
<1>2. QED BY <1>1, FS_EmptySet DEF Between

\* The byte after a is a newline, or not.
LEMMA BetweenNext ==
  ASSUME NEW f, NEW a \in Nat, NEW b \in Nat, a <= b
  PROVE  /\ Between(f, a, b) \in Nat
         /\ Between(f, a, b + 1) = Between(f, a, b) + IF f[b + 1] = Newline THEN 1 ELSE 0
<1>1. PICK S : S = {i \in (a + 1)..b : f[i] = Newline}
  OBVIOUS
<1>2. IsFiniteSet(S)
  <2>1. S \in SUBSET ((a + 1)..b)
    BY <1>1
  <2>2. IsFiniteSet((a + 1)..b)
    BY FS_Interval
  <2>3. QED BY <2>1, <2>2, FS_Subset
<1>3. Cardinality(S) \in Nat
  BY <1>2, FS_CardinalityType
<1>4. PICK U : U = {i \in (a + 1)..(b + 1) : f[i] = Newline}
  OBVIOUS
<1>5. CASE f[b + 1] = Newline
  <2>1. U = S \union {b + 1} /\ b + 1 \notin S
    BY <1>1, <1>4, <1>5
  <2>2. Cardinality(U) = Cardinality(S) + 1
    BY <1>2, <2>1, FS_AddElement
  <2>3. QED BY <1>1, <1>3, <1>4, <1>5, <2>2 DEF Between
<1>6. CASE f[b + 1] # Newline
  <2>1. U = S
    BY <1>1, <1>4, <1>6
  <2>2. QED BY <1>1, <1>3, <1>4, <1>6, <2>1 DEF Between
<1>7. QED BY <1>5, <1>6

\* What counting the lines of f from pos has found after i bytes.
Counting(s, f, pos, r, i) ==
  /\ r \in Going /\ Settled(s, r.sb)
  /\ ~r.eof => /\ ReadPos(r.sb) = pos + i /\ (i # 0 => pos + i <= Len(f))
               /\ r.line = Between(f, pos, pos + i) /\ r.line <= i
               /\ r.atStart <=> i = 0 \/ f[pos + i] = Newline
  /\ r.eof => r.line = RS!LinesAfter(f, pos)

\* One step of the loop of LINES.
LEMMA CountingStep ==
  ASSUME NEW s, Good(s), NEW f, f = Content(s), NEW pos \in Nat, NEW to, to = Len(f) + 2,
         NEW i \in 0..Len(f), NEW r, Counting(s, f, pos, r, i)
  PROVE  Counting(s, f, pos, GoStep(r, to), i + 1)
<1>1. /\ r \in Going /\ Good(r.sb) /\ Settled(s, r.sb) /\ Content(r.sb) = f /\ r.line \in Nat /\ r.atStart \in BOOLEAN
  BY DEF Counting, Going, Goods, Settled
<1>2. PICK n \in Nat : n = Len(f)
  BY ContentGood
<1>3. i \in Nat /\ i <= n
  BY <1>2
<1>4. CASE r.eof
  BY <1>4 DEF GoStep, Counting
<1>5. CASE ~r.eof
  <2>1. /\ ReadPos(r.sb) = pos + i /\ (i # 0 => pos + i <= n)
        /\ r.line = Between(f, pos, pos + i) /\ r.line <= i
        /\ r.atStart <=> i = 0 \/ f[pos + i] = Newline
    BY <1>2, <1>5 DEF Counting
  <2>2. ~(r.eof \/ r.line >= to)
    BY <1>1, <1>2, <1>3, <1>5, <2>1
  <2>3. PICK q : q = Getc(r.sb)
    OBVIOUS
  <2>4. PICK t : t = GoStep(r, to)
    OBVIOUS
  <2>5. t \in Going
    BY <1>1, <1>2, <2>4, GoStepTyped
  <2>6. t = [sb |-> q.s, atStart |-> q.c = Newline, eof |-> q.c = EOF,
             line |-> IF q.c = Newline \/ (q.c = EOF /\ ~r.atStart) THEN r.line + 1 ELSE r.line]
    BY <2>2, <2>3, <2>4, Zenon DEF GoStep, Counted
  <2>7. /\ t.sb = q.s /\ (t.atStart <=> q.c = Newline) /\ (t.eof <=> q.c = EOF)
        /\ t.line = IF q.c = Newline \/ (q.c = EOF /\ ~r.atStart) THEN r.line + 1 ELSE r.line
    BY <2>6
  <2>8. PICK k : k = IF q.c = EOF THEN 0 ELSE 1
    OBVIOUS
  <2>9. ReadAs(r.sb, q, k)
    BY <1>1, <2>3, <2>8, GetcAs
  <2>10. /\ Settled(r.sb, q.s) /\ ReadPos(q.s) = pos + i + k
         /\ q.c = EOF <=> pos + i >= n
         /\ q.c # EOF => pos + i + 1 \in 1..n /\ q.c = f[pos + i + 1]
    BY <1>1, <1>2, <2>1, <2>9 DEF ReadAs
  <2>11. Settled(s, t.sb)
    BY <1>1, <2>7, <2>10, SettledTwice
  <2>12. /\ Between(f, pos, pos + i) \in Nat
         /\ Between(f, pos, pos + i + 1) = Between(f, pos, pos + i) + IF f[pos + i + 1] = Newline THEN 1 ELSE 0
    <3>1. pos + i \in Nat /\ pos <= pos + i
      BY <1>3
    <3>2. QED BY <3>1, BetweenNext
  <2>13. CASE q.c = EOF
    <3>1. t.eof /\ t.line = IF r.atStart THEN r.line ELSE r.line + 1
      BY <1>1, <2>7, <2>13, MarksDiffer
    <3>2. RS!LinesAfter(f, pos) = Between(f, pos, n) + IF pos < n /\ f[n] # Newline THEN 1 ELSE 0
      <4>1. RS!LinesAfter(f, pos) = Between(f, pos, Len(f)) + IF pos < Len(f) /\ f[Len(f)] # Newline THEN 1 ELSE 0
        <5>1. \A S : RS!Cardinality(S) = Cardinality(S)
          BY Zenon DEF RS!Cardinality, Cardinality
        <5>2. QED BY <5>1, Zenon DEF RS!LinesAfter, Between
      <4>2. QED BY <1>2, <4>1
    <3>3. CASE i = 0
      <4>1. pos >= n /\ r.atStart /\ r.line = Between(f, pos, pos)
        BY <1>2, <2>1, <2>10, <2>13, <3>3
      <4>2. Between(f, pos, pos) = 0 /\ Between(f, pos, n) = 0
        BY <4>1, BetweenNone
      <4>3. t.line = RS!LinesAfter(f, pos)
        <5>1. ~(pos < n) /\ t.line = 0 /\ RS!LinesAfter(f, pos) = 0 + 0
          BY <1>2, <3>1, <3>2, <4>1, <4>2
        <5>2. QED BY <5>1
      <4>4. QED BY <2>4, <2>5, <2>11, <3>1, <4>3 DEF Counting
    <3>4. CASE i # 0
      <4>1. pos + i = n /\ pos < n
        BY <1>2, <1>3, <2>1, <2>10, <2>13, <3>4
      <4>2. r.line = Between(f, pos, n) /\ (r.atStart <=> f[n] = Newline)
        BY <2>1, <3>4, <4>1
      <4>3. t.line = RS!LinesAfter(f, pos)
        BY <1>1, <3>1, <3>2, <4>1, <4>2
      <4>4. QED BY <2>4, <2>5, <2>11, <3>1, <4>3 DEF Counting
    <3>5. QED BY <3>3, <3>4
  <2>14. CASE q.c # EOF
    <3>1. t.line = (IF f[pos + i + 1] = Newline THEN r.line + 1 ELSE r.line) /\ ~t.eof
      BY <2>7, <2>10, <2>14
    <3>2. t.line = Between(f, pos, pos + i + 1) /\ t.line <= i + 1
      BY <1>1, <1>3, <2>1, <2>12, <3>1
    <3>3. ReadPos(t.sb) = pos + (i + 1) /\ pos + (i + 1) <= n /\ pos + (i + 1) = pos + i + 1
      BY <1>2, <1>3, <2>7, <2>8, <2>10, <2>14
    <3>4. t.atStart <=> f[pos + (i + 1)] = Newline
      BY <2>7, <2>10, <2>14, <3>3
    <3>5. i + 1 # 0
      BY <1>3
    <3>6. QED BY <1>2, <2>4, <2>5, <2>11, <3>1, <3>2, <3>3, <3>4, <3>5 DEF Counting
  <2>15. QED BY <2>13, <2>14
<1>6. QED BY <1>1, <1>4, <1>5 DEF Going

\* LINES counts those that are left.
LEMMA LinesCounted ==
  ASSUME NEW sb, Good(sb), NEW f, f = Content(sb)
  PROVE  LET r == gotoLine(sb, 0, Len(f) + 2, FALSE)
         IN  Good(r.sb) /\ Settled(sb, r.sb) /\ r.line = RS!LinesAfter(f, ReadPos(sb))
<1>1. PICK l \in Nat : l = Len(f)
  BY ContentGood
<1>2. PICK n \in Nat : n = l + 1
  OBVIOUS
<1>3. PICK pos \in Nat : pos = ReadPos(sb)
  BY Pointers
<1>4. PICK to \in Nat : to = Len(f) + 2
  BY <1>1
<1>5. PICK s : s = sb
  OBVIOUS
<1>6. PICK go : /\ go[0] = [sb |-> s, line |-> IF 0 > to THEN 1 ELSE 0, atStart |-> TRUE, eof |-> FALSE]
                /\ gotoLine(sb, 0, to, FALSE) = go[n]
                /\ \A i \in 1..n : go[i] = GoStep(go[i - 1], to)
                /\ \A i \in 0..n : go[i] \in Going
  <2>1. PICK out \in BOOLEAN : out = FALSE
    OBVIOUS
  <2>2. s = Rewound(sb, 0, to, out) /\ Good(s)
    BY <1>5 DEF Rewound
  <2>3. n = Len(Content(sb)) + 1 /\ 0 \in Nat
    BY <1>1, <1>2
  <2>4. PICK from \in Nat : from = 0
    OBVIOUS
  <2>5. PICK go : SearchRun(go, sb, s, from, to, out, n)
    BY <2>2, <2>3, <2>4, GotoSteps
  <2>6. QED BY <2>1, <2>4, <2>5 DEF SearchRun
<1> DEFINE T == {i \in 0..n : Counting(sb, f, pos, go[i], i)}
<1>7. 0 \in T
  <2>1. go[0].sb = sb /\ go[0].line = 0 /\ go[0].atStart = TRUE /\ go[0].eof = FALSE /\ go[0] \in Going
    BY <1>4, <1>5, <1>6
  <2>2. Between(f, pos, pos + 0) = 0
    BY BetweenNone
  <2>3. Counting(sb, f, pos, go[0], 0)
    BY <1>3, <2>1, <2>2, SettledSame DEF Counting
  <2>4. QED BY <2>3
<1>8. ASSUME NEW i \in 1..n, i - 1 \in T PROVE i \in T
  <2>1. i - 1 \in 0..Len(f) /\ (i - 1) + 1 = i /\ i \in 0..n /\ Counting(sb, f, pos, go[i - 1], i - 1)
    BY <1>1, <1>2, <1>8
  <2>2. Counting(sb, f, pos, GoStep(go[i - 1], to), (i - 1) + 1)
    BY <1>4, <2>1, CountingStep, Zenon
  <2>3. QED BY <1>6, <2>1, <2>2
<1> HIDE DEF T
<1>9. \A i \in 0..n : i \in T
  BY <1>7, <1>8, UpTo
<1>10. PICK r : r = go[n]
  OBVIOUS
<1>11. Counting(sb, f, pos, r, n)
  <2>1. n \in T
    BY <1>9
  <2>2. QED BY <1>10, <2>1 DEF T
<1>12. r.eof
  <2>1. CASE ~r.eof
    <3>1. n # 0 /\ pos + n <= l
      BY <1>1, <1>2, <1>11, <2>1 DEF Counting
    <3>2. QED BY <1>2, <3>1
  <2>2. QED BY <2>1
<1>13. Good(r.sb) /\ Settled(sb, r.sb) /\ r.line = RS!LinesAfter(f, pos)
  BY <1>11, <1>12 DEF Counting, Going, Goods
<1>14. QED BY <1>3, <1>4, <1>6, <1>10, <1>13

-----------------------------------------------------------------------------
(***************************************************************************)
(* The manager: the file of a name, its modes and its positions.           *)
(***************************************************************************)
\* The file of n, as RexxStreams sees it in the manager s.
FileIn(s, n) == IF s.ent[n].mode = {} THEN s.disk[n] ELSE Content(s.ent[n].sb)

\* The modes of an entry: a stream is written after it was granted only, and that is
\* denied for the files of ro only.
ModeOK(mode, denied) ==
  /\ "READ" \in mode <=> "WRITE" \notin mode
  /\ "READ_DENIED" \notin mode
  /\ "WRITE" \in mode => "WRITE_GRANTED" \in mode
  /\ "WRITE_DENIED" \in mode => denied
  /\ "WRITE_GRANTED" \in mode => ~denied

ModeIn(s, n) == IF n \in Files(s) THEN ModeOK(s.ent[n].mode, n \in s.ro) ELSE s.ent[n].mode = {}

\* The console's streams stay.
Standing(s) == Range(Std) \subseteq Range(s.entries)

Modal(s) == Standing(s) /\ \A n \in Names : ModeIn(s, n)

\* t is s but for the file of name.
Only(s, t, name) ==
  /\ t.ro = s.ro
  /\ \A n \in Names : n # name => /\ t.ent[n] = s.ent[n] /\ t.disk[n] = s.disk[n]
                                  /\ n \in Files(t) <=> n \in Files(s)
  /\ Standing(s) => Standing(t)

\* Nothing changed: nothing but the file of name changed.
LEMMA OnlyNone == ASSUME NEW s, NEW name PROVE Only(s, s, name)
BY DEF Only

\* Two steps that change the file of name only.
LEMMA OnlyTwice ==
  ASSUME NEW s, NEW t, NEW u, NEW name, Only(s, t, name), Only(t, u, name)
  PROVE  Only(s, u, name)
BY DEF Only

\* The modes are right when that of name is.
LEMMA OnlyModal ==
  ASSUME NEW s, NEW t, NEW name, Only(s, t, name), Modal(s), name \in Names => ModeIn(t, name)
  PROVE  Modal(t)
<1>1. ASSUME NEW n \in Names PROVE ModeIn(t, n)
  <2>1. CASE n = name
    BY <2>1
  <2>2. CASE n # name
    BY <2>2 DEF Only, Modal, ModeIn
  <2>3. QED BY <2>1, <2>2
<1>2. Standing(t)
  BY DEF Only, Modal
<1>3. QED BY <1>1, <1>2 DEF Modal

\* What RexxStreams sees of the files that are open, and of those that are not.
LEMMA OpenSeen ==
  ASSUME NEW s, Sound(s), Modal(s), NEW n \in Names, n \in Files(s)
  PROVE  LET e == s.ent[n]
         IN  /\ EntryTyped(e) /\ Good(e.sb) /\ e.mode # {} /\ ModeOK(e.mode, n \in s.ro)
             /\ FileIn(s, n) = Content(e.sb) /\ FileIn(s, n) # Absent /\ FileIn(s, n) \in Seq(Stored)
             /\ ReadAt(e) \in Nat /\ ReadAt(e) = IF "READ" \in e.mode THEN ReadPos(e.sb) ELSE e.posSave
             /\ "WRITE_GRANTED" \in e.mode => WriteAt(e) \in Nat
<1>1. PICK e : e = s.ent[n]
  OBVIOUS
<1>2. EntryTyped(e) /\ ModeOK(e.mode, n \in s.ro)
  BY <1>1 DEF Sound, Modal, ModeIn
<1>3. Good(e.sb) /\ e.posSave \in Nat /\ ReadPos(e.sb) \in Nat /\ WritePos(e.sb) \in Nat
  BY <1>2, EntryFields
<1>4. e.mode # {}
  BY <1>2 DEF ModeOK
<1>5. Content(e.sb) \in Seq(Stored)
  BY <1>3, ContentGood
<1>6. Absent \notin Seq(Stored)
  <2>1. SUFFICES ASSUME Absent \in Seq(Stored) PROVE FALSE
    OBVIOUS
  <2>2. Len(Absent) = 1 /\ Absent[1] = "absent"
    BY DEF Absent
  <2>3. Absent[1] \in Stored
    BY <2>1, <2>2, ElementOfSeq
  <2>4. "absent" # Hole
    BY DEF Hole
  <2>5. QED BY <2>2, <2>3, <2>4, AbsentIsNoFile DEF Stored
<1>7. FileIn(s, n) = Content(e.sb)
  BY <1>1, <1>4 DEF FileIn
<1>8. ReadAt(e) = IF "READ" \in e.mode THEN ReadPos(e.sb) ELSE e.posSave
  BY <1>2 DEF ReadAt, ModeOK
<1>9. "WRITE_GRANTED" \in e.mode => WriteAt(e) \in Nat
  BY <1>3 DEF WriteAt
<1>10. QED BY <1>1, <1>2, <1>3, <1>4, <1>5, <1>6, <1>7, <1>8, <1>9

\* A file that is not open is what is on the disk, at no position.
LEMMA ClosedSeen ==
  ASSUME NEW s, Modal(s), NEW n \in Names, n \notin Files(s)
  PROVE  s.ent[n].mode = {} /\ FileIn(s, n) = s.disk[n] /\ ReadAt(s.ent[n]) = -1 /\ WriteAt(s.ent[n]) = -2
BY DEF Modal, ModeIn, FileIn, ReadAt, WriteAt

\* The positions an access finds.
RdIn(s, n) == IF n \in Files(s) THEN ReadAt(s.ent[n]) ELSE 0
WrIn(s, n) == IF n \in Files(s) /\ WriteAt(s.ent[n]) # -2 THEN WriteAt(s.ent[n])
              ELSE IF FileIn(s, n) = Absent THEN 0 ELSE Len(FileIn(s, n))
TextIn(s, n) == IF FileIn(s, n) = Absent THEN << >> ELSE FileIn(s, n)


-----------------------------------------------------------------------------
\* Finding an entry changes what is cached.
LEMMA FindSeen ==
  ASSUME NEW s, Sound(s), Modal(s), NEW name \in Known
  PROVE  LET t == Find(s, name).m
         IN  /\ t.ent = s.ent /\ t.disk = s.disk /\ t.ro = s.ro /\ t.entries = s.entries /\ Files(t) = Files(s)
             /\ Modal(t) /\ \A n : Only(s, t, n)
<1> DEFINE hits == {ix \in 1..Len(s.entries) : s.entries[ix] = name}
<1>1. PICK t : t = Find(s, name).m
  OBVIOUS
<1>2. DOMAIN s = Fields
  BY DEF Sound, Frame, Table
<1>3. t.ent = s.ent /\ t.disk = s.disk /\ t.ro = s.ro /\ t.entries = s.entries
  <2>1. CASE ~(s.iCache >= 0 /\ s.cache = name) /\ hits # {}
    <3>1. PICK k : k = Min(hits) - 1
      OBVIOUS
    <3>2. t = [s EXCEPT !.cache = name, !.iCache = k]
      BY <1>1, <2>1, <3>1 DEF Find
    <3>3. QED BY <1>2, <3>2 DEF Fields
  <2>2. CASE (s.iCache >= 0 /\ s.cache = name) \/ hits = {}
    <3>1. t = s
      BY <1>1, <2>2 DEF Find
    <3>2. QED BY <3>1
  <2>3. QED BY <2>1, <2>2
<1>4. Files(t) = Files(s)
  BY <1>3 DEF Files
<1>5. Modal(t) /\ \A n : Only(s, t, n)
  BY <1>3, <1>4 DEF Modal, ModeIn, Only, Standing
<1>6. QED BY <1>1, <1>3, <1>4, <1>5

\* A file just opened has its content, and is read from its start.
LEMMA OpenedAs ==
  ASSUME NEW text \in Seq(Stored), NEW sb, sb = Opened(text)
  PROVE  Good(sb) /\ ReadPos(sb) = 0 /\ Content(sb) = text
<1>1. Good(sb)
  BY OpenedGood
<1>2. sb.posGet = 0 /\ sb.g = 0 /\ sb.eg = 0 /\ sb.pb = BufSize /\ sb.file = text
  BY DEF Opened
<1>3. ReadPos(sb) = 0
  BY <1>2 DEF ReadPos, InAvail
<1>4. Waiting(sb) = 0
  BY <1>1, <1>2, Waits
<1>5. QED BY <1>1, <1>2, <1>3, <1>4, Written

\* Opening again a file that is open leaves its content.
LEMMA ReopenedAs ==
  ASSUME NEW s, Good(s)
  PROVE  Good(Reopened(s)) /\ Content(Reopened(s)) = Content(s)
BY ClosedContent, ContentGood, OpenedAs DEF Reopened

\* r is what making an entry for name leaves: opened at the beginning to be read, at the
\* end to be written.
Made(s, r, name, out, text) ==
  LET e == r.m.ent[name]
  IN  \/ /\ r.id = NoEntry /\ r.m = s
         /\ IF out THEN name \in s.ro ELSE s.disk[name] = Absent
      \/ /\ r.id = name /\ Only(s, r.m, name) /\ name \in Files(r.m)
         /\ e.posSave = 0 /\ ReadPos(e.sb) = 0 /\ Content(e.sb) = text
         /\ IF out THEN name \notin s.ro /\ e.mode = {"WRITE", "WRITE_GRANTED"} /\ WritePos(e.sb) = Len(text)
                        /\ ~NullWrite(e.sb)
                   ELSE s.disk[name] # Absent /\ e.mode = {"READ"}

\* Making an entry leaves what Made says.
LEMMA MakeSeen ==
  ASSUME NEW s, Sound(s), Modal(s), NEW name \in Names, name \notin Range(s.entries), NEW out \in BOOLEAN,
         NEW text, text = IF s.disk[name] = Absent THEN << >> ELSE s.disk[name]
  PROVE  Made(s, Make(s, name, out), name, out, text)
<1>1. /\ Frame(s) /\ DOMAIN s = Fields /\ s.entries \in Seq(Known) /\ DOMAIN s.entries = 1..Len(s.entries)
      /\ Len(s.entries) \in Nat /\ name \in Known
  BY LenProperties, NamesKnown DEF Sound, Frame, Table
<1>2. PICK good : good = (IF out THEN name \notin s.ro ELSE s.disk[name] # Absent)
  OBVIOUS
<1>3. PICK sb : sb = Opened(text)
  OBVIOUS
<1>4. PICK mode : mode = IF out THEN {"WRITE", "WRITE_GRANTED"} ELSE {"READ"}
  OBVIOUS
<1>5. PICK e0 : e0 = FileEntry(mode, text)
  OBVIOUS
<1>6. PICK e : e = IF out THEN [e0 EXCEPT !.sb = SeekOut(@, End)] ELSE e0
  OBVIOUS
<1>7. CASE ~good
  <2>1. Make(s, name, out) = [m |-> s, id |-> NoEntry]
    BY <1>2, <1>7 DEF Make
  <2>2. Make(s, name, out).m = s /\ Make(s, name, out).id = NoEntry
    BY <2>1
  <2>3. IF out THEN name \in s.ro ELSE s.disk[name] = Absent
    BY <1>2, <1>7
  <2>4. QED BY <2>2, <2>3 DEF Made
<1>8. CASE good
  <2>1. PICK t : t = [s EXCEPT !.entries = Append(@, name), !.cache = name,
                               !.iCache = Len(s.entries), !.disk[name] = InUse, !.ent[name] = e]
    OBVIOUS
  <2>2. Make(s, name, out) = [m |-> t, id |-> name]
    BY <1>2, <1>4, <1>5, <1>6, <1>8, <2>1, Zenon DEF Make
  <2>3. Make(s, name, out).m = t /\ Make(s, name, out).id = name
    BY <2>2
  <2>4. /\ t.entries = Append(s.entries, name) /\ t.ro = s.ro
        /\ t.disk = [s.disk EXCEPT ![name] = InUse] /\ t.ent = [s.ent EXCEPT ![name] = e]
    BY <1>1, <2>1 DEF Fields
  <2>5. /\ t.ent[name] = e
        /\ \A k \in Names : k # name => t.ent[k] = s.ent[k] /\ t.disk[k] = s.disk[k]
    BY <1>1, <2>4, NamesKnown DEF Frame
  <2>6. Range(t.entries) = Range(s.entries) \union {name}
    <3>1. PICK n \in Nat : n = Len(s.entries)
      BY <1>1
    <3>2. /\ t.entries \in Seq(Known) /\ Len(t.entries) = n + 1 /\ t.entries[n + 1] = name
          /\ \A i \in 1..n : t.entries[i] = s.entries[i]
      BY <1>1, <2>4, <3>1, AppendProperties
    <3>3. DOMAIN t.entries = 1..(n + 1)
      BY <3>2, LenProperties
    <3>4. \A i \in 1..(n + 1) : i \in 1..n \/ i = n + 1
      OBVIOUS
    <3>5. n + 1 \in 1..(n + 1) /\ \A i \in 1..n : i \in 1..(n + 1)
      OBVIOUS
    <3>6. QED BY <1>1, <3>1, <3>2, <3>3, <3>4, <3>5 DEF Range
  <2>7. Only(s, t, name) /\ name \in Files(t)
    BY <2>4, <2>5, <2>6 DEF Only, Files, Standing
  <2>8. text \in Seq(Stored)
    <3>1. s.disk[name] \in Seq(Stored) \union {Absent}
      BY <1>1 DEF Frame
    <3>2. QED BY <3>1, EmptySeq
  <2>9. Good(sb) /\ ReadPos(sb) = 0 /\ Content(sb) = text
    BY <1>3, <2>8, OpenedAs
  <2>10. PICK sc : sc = SeekOut(sb, End)
    OBVIOUS
  <2>11. ReadPos(sc) = 0 /\ Content(sc) = text /\ WritePos(sc) = Len(text)
    BY <2>9, <2>10, SeekOutAs
  <2>12. e0 = [line |-> 1, posSave |-> 0, mode |-> mode, byLine |-> TRUE, sb |-> sb]
    BY <1>3, <1>5 DEF FileEntry
  <2>13. e.posSave = 0 /\ e.mode = mode /\ e.sb = IF out THEN sc ELSE sb
    BY <1>6, <2>10, <2>12
  <2>14. CASE out
    <3>1. name \notin s.ro /\ e.mode = {"WRITE", "WRITE_GRANTED"}
      BY <1>2, <1>4, <1>8, <2>13, <2>14
    <3>2. ReadPos(e.sb) = 0 /\ Content(e.sb) = text /\ WritePos(e.sb) = Len(text)
      BY <2>11, <2>13, <2>14
    <3>4. ~NullWrite(e.sb)
      BY <2>9, <2>10, <2>13, <2>14, SeekOutNull
    <3>3. QED BY <2>3, <2>5, <2>7, <2>13, <2>14, <3>1, <3>2, <3>4 DEF Made
  <2>15. CASE ~out
    <3>1. s.disk[name] # Absent /\ e.mode = {"READ"}
      BY <1>2, <1>4, <1>8, <2>13, <2>15
    <3>2. ReadPos(e.sb) = 0 /\ Content(e.sb) = text
      BY <2>9, <2>13, <2>15
    <3>3. QED BY <2>3, <2>5, <2>7, <2>13, <2>15, <3>1, <3>2 DEF Made
  <2>16. QED BY <2>14, <2>15
<1>9. good \in BOOLEAN
  BY <1>2
<1>10. QED BY <1>7, <1>8, <1>9

-----------------------------------------------------------------------------
(***************************************************************************)
(* An entry to read, an entry to write.                                    *)
(***************************************************************************)
\* In t the file of name is open to be read, at pos, as s has it but for that.
Readable(s, t, name, pos) ==
  LET e == t.ent[name]
  IN  /\ Only(s, t, name) /\ name \in Files(t) /\ ModeOK(e.mode, name \in t.ro) /\ "READ" \in e.mode
      /\ name \in Files(s) \/ FileIn(s, name) # Absent
      /\ Content(e.sb) = FileIn(s, name) /\ ReadPos(e.sb) = pos
      /\ WriteAt(e) = WriteAt(s.ent[name])

\* In t the file of name is open to be written, and holds text; it is read where s has it.
Writable(s, t, name, text, pos) ==
  LET e == t.ent[name]
  IN  /\ Only(s, t, name) /\ name \in Files(t) /\ ModeOK(e.mode, name \in t.ro) /\ "WRITE" \in e.mode
      /\ name \notin s.ro
      /\ Content(e.sb) = text /\ WritePos(e.sb) = pos /\ e.posSave = RdIn(s, name)

\* t differs from s in how the file of name is held only.
Same(s, t, name) ==
  /\ Only(s, t, name) /\ ModeIn(t, name)
  /\ FileIn(t, name) = FileIn(s, name) /\ ReadAt(t.ent[name]) = ReadAt(s.ent[name])
  /\ WriteAt(t.ent[name]) = WriteAt(s.ent[name])

\* What an EXCEPT of one entry leaves.
LEMMA EntrySet ==
  ASSUME NEW s, Frame(s), NEW name \in Files(s), NEW e, NEW t, t = [s EXCEPT !.ent[name] = e]
  PROVE  t.ent[name] = e /\ Only(s, t, name) /\ Files(t) = Files(s) /\ name \in Files(t)
<1>1. DOMAIN s = Fields /\ name \in Known /\ DOMAIN s.ent = Known
  BY FilesKnown DEF Frame, Table
<1>2. t.ent = [s.ent EXCEPT ![name] = e] /\ t.disk = s.disk /\ t.ro = s.ro /\ t.entries = s.entries
  BY <1>1 DEF Fields
<1>3. t.ent[name] = e /\ \A n \in Names : n # name => t.ent[n] = s.ent[n]
  BY <1>1, <1>2, NamesKnown
<1>4. Files(t) = Files(s)
  BY <1>2 DEF Files
<1>5. QED BY <1>2, <1>3, <1>4 DEF Only, Standing

\* Switching an open entry to reading.
LEMMA ToReadSeen ==
  ASSUME NEW s, Sound(s), Modal(s), NEW name \in Files(s)
  PROVE  LET r == EntryToRead(s, name) IN r.id = name /\ Readable(s, r.m, name, RdIn(s, name))
<1>1. PICK e : e = s.ent[name]
  OBVIOUS
<1>2. name \in Names
  BY DEF Files
<1>3. /\ EntryTyped(e) /\ Good(e.sb) /\ ModeOK(e.mode, name \in s.ro)
      /\ FileIn(s, name) = Content(e.sb)
      /\ ReadAt(e) = IF "READ" \in e.mode THEN ReadPos(e.sb) ELSE e.posSave
      /\ RdIn(s, name) = ReadAt(e)
  BY <1>1, <1>2, OpenSeen DEF RdIn
<1>4. e.posSave \in Nat /\ WritePos(e.sb) \in Nat
  BY <1>3, EntryFields
<1>5. CASE "READ" \in e.mode
  <2>1. EntryToRead(s, name) = [m |-> s, id |-> name]
    BY <1>1, <1>5 DEF EntryToRead
  <2>2. Readable(s, s, name, RdIn(s, name))
    BY <1>1, <1>3, <1>5, OnlyNone DEF Readable
  <2>3. QED BY <2>1, <2>2
<1>6. CASE "READ" \notin e.mode
  <2>1. PICK sb : sb = SeekIn(e.sb, e.posSave)
    OBVIOUS
  <2>2. PICK mode : mode = (e.mode \ {"WRITE"}) \union {"READ"}
    OBVIOUS
  <2>3. PICK w : w = WritePos(e.sb)
    OBVIOUS
  <2>4. PICK f : f = [e EXCEPT !.posSave = w, !.sb = sb, !.mode = mode]
    OBVIOUS
  <2>5. f.posSave = w /\ f.sb = sb /\ f.mode = mode
    BY <1>3, <2>4 DEF EntryTyped
  <2>6. PICK t : t = [s EXCEPT !.ent[name] = f]
    OBVIOUS
  <2>7. f = [e EXCEPT !.posSave = WritePos(e.sb), !.sb = SeekIn(@, e.posSave),
                      !.mode = (@ \ {"WRITE"}) \union {"READ"}]
    BY <1>3, <2>1, <2>2, <2>3, <2>4 DEF EntryTyped
  <2>8. "READ_DENIED" \notin e.mode /\ "WRITE" \in e.mode /\ "WRITE_GRANTED" \in e.mode
    BY <1>3, <1>6 DEF ModeOK
  <2>9. EntryToRead(s, name) = [m |-> t, id |-> name]
    BY <1>1, <1>6, <2>6, <2>7, <2>8, Zenon DEF EntryToRead
  <2>10. t.ent[name] = f /\ Only(s, t, name) /\ name \in Files(t)
    BY <2>6, EntrySet DEF Sound
  <2>11. Content(sb) = Content(e.sb) /\ ReadPos(sb) = e.posSave
    <3>1. e.posSave # End
      BY <1>4 DEF End
    <3>2. QED BY <1>3, <1>4, <2>1, <3>1, SeekInAs
  <2>12. "READ" \in mode /\ "WRITE" \notin mode /\ "WRITE_GRANTED" \in mode
    BY <2>2, <2>8
  <2>13. ModeOK(mode, name \in t.ro)
    BY <1>3, <2>2, <2>10, <2>12 DEF ModeOK, Only
  <2>14. WriteAt(f) = w /\ WriteAt(e) = w
    BY <2>3, <2>5, <2>8, <2>12 DEF WriteAt
  <2>15. ReadAt(e) = e.posSave
    BY <1>3, <1>6
  <2>16. Readable(s, t, name, RdIn(s, name))
    BY <1>1, <1>3, <2>5, <2>10, <2>11, <2>12, <2>13, <2>14, <2>15 DEF Readable
  <2>17. QED BY <2>9, <2>16
<1>7. QED BY <1>5, <1>6

\* EnsureRead leaves the file readable, or says there is none.
LEMMA EnsureReadSeen ==
  ASSUME NEW s, Sound(s), Modal(s), NEW name \in Names
  PROVE  LET r == ensureRead(s, name)
         IN  /\ IsFile(r)  => r.id = name /\ Readable(s, r.m, name, RdIn(s, name))
             /\ ~IsFile(r) => r.id = NoEntry /\ r.m = s /\ name \notin Files(s) /\ FileIn(s, name) = Absent
<1>1. name \in Known
  BY NamesKnown
<1>2. PICK q : q = Find(s, name)
  OBVIOUS
<1>3. /\ Sound(q.m) /\ q.m.ent = s.ent /\ q.m.disk = s.disk /\ q.m.ro = s.ro /\ Files(q.m) = Files(s)
      /\ q.m.entries = s.entries /\ Modal(q.m) /\ Only(s, q.m, name)
      /\ \/ q.id = name /\ name \in Range(s.entries)
         \/ q.id = NoEntry /\ q.m = s /\ name \notin Range(s.entries)
  BY <1>1, <1>2, FindSound, FindSeen
<1>4. NoEntry # name
  BY NoNameIsNoEntry
<1>5. PICK r : r = ensureRead(s, name)
  OBVIOUS
<1>6. CASE name \notin Range(s.entries)
  <2>1. name \notin Files(s)
    BY <1>6 DEF Files
  <2>2. FileIn(s, name) = s.disk[name] /\ WriteAt(s.ent[name]) = -2 /\ RdIn(s, name) = 0
    BY <2>1, ClosedSeen DEF RdIn
  <2>3. r = Make(s, name, FALSE)
    BY <1>2, <1>3, <1>5, <1>6 DEF ensureRead
  <2>4. PICK text : text = IF s.disk[name] = Absent THEN << >> ELSE s.disk[name]
    OBVIOUS
  <2>5. PICK out \in BOOLEAN : out = FALSE
    OBVIOUS
  <2>6. PICK e : e = r.m.ent[name]
    OBVIOUS
  <2>7. \/ r.id = NoEntry /\ r.m = s /\ s.disk[name] = Absent
        \/ /\ r.id = name /\ Only(s, r.m, name) /\ name \in Files(r.m)
           /\ s.disk[name] # Absent /\ e.mode = {"READ"}
           /\ e.posSave = 0 /\ ReadPos(e.sb) = 0 /\ Content(e.sb) = text
    <3>1. Made(s, r, name, out, text)
      BY <1>6, <2>3, <2>4, <2>5, MakeSeen
    <3>2. QED BY <2>5, <2>6, <3>1 DEF Made
  <2>8. ASSUME r.id \in Names PROVE Readable(s, r.m, name, RdIn(s, name))
    <3>1. ModeOK(e.mode, name \in r.m.ro) /\ WriteAt(e) = -2
      BY <1>4, <2>7, <2>8, NoNameIsNoEntry DEF ModeOK, WriteAt
    <3>2. QED BY <2>2, <2>4, <2>6, <2>7, <2>8, <3>1, NoNameIsNoEntry DEF Readable
  <2>9. QED BY <1>5, <2>1, <2>2, <2>7, <2>8, NoNameIsNoEntry DEF IsFile
<1>7. CASE name \in Range(s.entries)
  <2>1. name \in Files(s) /\ name \in Files(q.m)
    BY <1>3, <1>7 DEF Files
  <2>2. r = EntryToRead(q.m, name)
    BY <1>2, <1>3, <1>4, <1>5, <1>7 DEF ensureRead
  <2>3. r.id = name /\ Readable(q.m, r.m, name, RdIn(q.m, name))
    BY <1>3, <2>1, <2>2, ToReadSeen
  <2>4. FileIn(q.m, name) = FileIn(s, name) /\ RdIn(q.m, name) = RdIn(s, name)
    BY <1>3 DEF FileIn, RdIn
  <2>5. Readable(s, r.m, name, RdIn(s, name))
    BY <1>3, <2>1, <2>3, <2>4, OnlyTwice DEF Readable
  <2>6. QED BY <1>5, <2>3, <2>5 DEF IsFile
<1>8. QED BY <1>6, <1>7

\* Switching an open entry to writing.
LEMMA ToWriteSeen ==
  ASSUME NEW s, Sound(s), Modal(s), NEW name \in Files(s)
  PROVE  LET r == EntryToWrite(s, name)
         IN  \/ r.id = name /\ Writable(s, r.m, name, TextIn(s, name), WrIn(s, name))
             \/ r.id = NoEntry /\ Same(s, r.m, name) /\ name \in s.ro
<1>1. PICK e : e = s.ent[name]
  OBVIOUS
<1>2. name \in Names
  BY DEF Files
<1>3. /\ EntryTyped(e) /\ Good(e.sb) /\ e.mode # {} /\ ModeOK(e.mode, name \in s.ro)
      /\ FileIn(s, name) = Content(e.sb) /\ FileIn(s, name) # Absent
      /\ ReadAt(e) = IF "READ" \in e.mode THEN ReadPos(e.sb) ELSE e.posSave
      /\ RdIn(s, name) = ReadAt(e) /\ TextIn(s, name) = Content(e.sb)
  BY <1>1, <1>2, OpenSeen DEF RdIn, TextIn
<1>4. e.posSave \in Nat /\ WritePos(e.sb) \in Nat /\ ReadPos(e.sb) \in Nat /\ e.mode \in SUBSET Modes
  BY <1>3, EntryFields
<1>5. /\ WriteAt(e) = IF "WRITE_GRANTED" \notin e.mode THEN -2
                      ELSE IF "WRITE" \in e.mode THEN WritePos(e.sb) ELSE e.posSave
      /\ WrIn(s, name) = IF WriteAt(e) # -2 THEN WriteAt(e) ELSE Len(Content(e.sb))
  BY <1>1, <1>3 DEF WriteAt, WrIn
<1>6. PICK saved : saved = ReadPos(e.sb)
  OBVIOUS
<1>14. Frame(s)
  BY DEF Sound
<1>7. CASE "WRITE" \in e.mode
  <2>1. EntryToWrite(s, name) = [m |-> s, id |-> name]
    BY <1>1, <1>7 DEF EntryToWrite
  <2>2. "WRITE_GRANTED" \in e.mode /\ name \notin s.ro /\ "READ" \notin e.mode
    BY <1>3, <1>7 DEF ModeOK
  <2>3. WritePos(e.sb) = WrIn(s, name) /\ e.posSave = RdIn(s, name)
    BY <1>3, <1>4, <1>5, <1>7, <2>2
  <2>4. Writable(s, s, name, TextIn(s, name), WrIn(s, name))
    BY <1>1, <1>3, <1>7, <2>2, <2>3, OnlyNone DEF Writable
  <2>5. QED BY <2>1, <2>4
<1>8. CASE "WRITE" \notin e.mode /\ "WRITE_DENIED" \in e.mode
  <2>1. EntryToWrite(s, name) = [m |-> s, id |-> NoEntry]
    BY <1>1, <1>8 DEF EntryToWrite
  <2>2. name \in s.ro
    BY <1>3, <1>8 DEF ModeOK
  <2>3. Same(s, s, name)
    BY <1>2, OnlyNone DEF Same, Modal
  <2>4. QED BY <2>1, <2>2, <2>3
<1>9. ASSUME "WRITE" \notin e.mode, name \notin s.ro, NEW sb, Good(sb), NEW mode,
             mode = (e.mode \ {"READ"}) \union {"WRITE", "WRITE_GRANTED"}, "WRITE_DENIED" \notin e.mode,
             NEW f, f = [e EXCEPT !.posSave = saved, !.mode = mode, !.sb = sb],
             NEW t, t = [s EXCEPT !.ent[name] = f], Content(sb) = Content(e.sb), WritePos(sb) = WrIn(s, name)
      PROVE  Writable(s, t, name, TextIn(s, name), WrIn(s, name))
  <2>1. f.posSave = saved /\ f.mode = mode /\ f.sb = sb
    BY <1>3, <1>9 DEF EntryTyped
  <2>2. t.ent[name] = f /\ Only(s, t, name) /\ name \in Files(t)
    <3>1. Only(s, t, name) /\ name \in Files(t)
      BY <1>9, <1>14, EntrySet
    <3>2. t.ent[name] = f
      BY <1>9, <1>14, EntrySet
    <3>3. QED BY <3>1, <3>2
  <2>3. "READ" \notin mode /\ "WRITE" \in mode /\ "WRITE_GRANTED" \in mode /\ "READ_DENIED" \notin mode
        /\ "WRITE_DENIED" \notin mode
    BY <1>3, <1>9 DEF ModeOK
  <2>4. ModeOK(mode, name \in t.ro)
    BY <1>9, <2>2, <2>3 DEF ModeOK, Only
  <2>5. saved = RdIn(s, name)
    BY <1>3, <1>6, <1>9 DEF ModeOK
  <2>6. QED BY <1>3, <1>9, <2>1, <2>2, <2>3, <2>4, <2>5 DEF Writable
<1>10. CASE "WRITE" \notin e.mode /\ "WRITE_DENIED" \notin e.mode /\ "WRITE_GRANTED" \in e.mode
  <2>1. PICK sb : sb = SeekOut(e.sb, e.posSave)
    OBVIOUS
  <2>2. Good(sb) /\ Content(sb) = Content(e.sb) /\ WritePos(sb) = WrIn(s, name)
    <3>1. e.posSave # End /\ e.posSave # -2
      BY <1>4 DEF End
    <3>2. Good(sb) /\ Content(sb) = Content(e.sb) /\ WritePos(sb) = e.posSave
      BY <1>3, <1>4, <2>1, <3>1, SeekOutAs
    <3>3. QED BY <1>5, <1>10, <3>1, <3>2
  <2>3. PICK mode : mode = (e.mode \ {"READ"}) \union {"WRITE", "WRITE_GRANTED"}
    OBVIOUS
  <2>4. mode = (e.mode \ {"READ"}) \union {"WRITE"}
    BY <1>10, <2>3
  <2>5. PICK f : f = [e EXCEPT !.posSave = saved, !.mode = mode, !.sb = sb]
    OBVIOUS
  <2>6. f = [[e EXCEPT !.posSave = ReadPos(e.sb), !.mode = (@ \ {"READ"}) \union {"WRITE"}]
               EXCEPT !.sb = SeekOut(@, e.posSave)]
    BY <1>3, <1>6, <2>1, <2>4, <2>5 DEF EntryTyped
  <2>7. PICK t : t = [s EXCEPT !.ent[name] = f]
    OBVIOUS
  <2>8. EntryToWrite(s, name) = [m |-> t, id |-> name]
    BY <1>1, <1>10, <2>6, <2>7, Zenon DEF EntryToWrite
  <2>9. name \notin s.ro
    BY <1>3, <1>10 DEF ModeOK
  <2>10. Writable(s, t, name, TextIn(s, name), WrIn(s, name))
    BY <1>9, <1>10, <2>2, <2>3, <2>5, <2>7, <2>9
  <2>11. QED BY <2>8, <2>10
<1>11. CASE /\ "WRITE" \notin e.mode /\ "WRITE_DENIED" \notin e.mode /\ "WRITE_GRANTED" \notin e.mode
            /\ name \notin s.ro
  <2>1. PICK sb : sb = SeekOut(Reopened(e.sb), End)
    OBVIOUS
  <2>2. Good(sb) /\ Content(sb) = Content(e.sb) /\ WritePos(sb) = WrIn(s, name)
    <3>1. PICK o : o = Reopened(e.sb)
      OBVIOUS
    <3>2. Good(o) /\ Content(o) = Content(e.sb)
      BY <1>3, <3>1, ReopenedAs
    <3>3. Good(sb) /\ Content(sb) = Content(o) /\ WritePos(sb) = Len(Content(o))
      BY <2>1, <3>1, <3>2, SeekOutAs
    <3>4. QED BY <1>5, <1>11, <3>2, <3>3
  <2>3. PICK mode : mode = (e.mode \ {"READ"}) \union {"WRITE", "WRITE_GRANTED"}
    OBVIOUS
  <2>4. mode = ((e.mode \ {"READ"}) \union {"WRITE"}) \union {"WRITE_GRANTED"}
    BY <2>3
  <2>5. PICK f : f = [e EXCEPT !.posSave = saved, !.mode = mode, !.sb = sb]
    OBVIOUS
  <2>6. f = [[e EXCEPT !.posSave = ReadPos(e.sb), !.mode = (@ \ {"READ"}) \union {"WRITE"}]
               EXCEPT !.sb = SeekOut(Reopened(@), End), !.mode = @ \union {"WRITE_GRANTED"}]
    BY <1>3, <1>6, <2>1, <2>4, <2>5 DEF EntryTyped
  <2>7. PICK t : t = [s EXCEPT !.ent[name] = f]
    OBVIOUS
  <2>8. EntryToWrite(s, name) = [m |-> t, id |-> name]
    BY <1>1, <1>11, <2>6, <2>7, Zenon DEF EntryToWrite
  <2>9. Writable(s, t, name, TextIn(s, name), WrIn(s, name))
    BY <1>9, <1>11, <2>2, <2>3, <2>5, <2>7
  <2>10. QED BY <2>8, <2>9
<1>12. CASE /\ "WRITE" \notin e.mode /\ "WRITE_DENIED" \notin e.mode /\ "WRITE_GRANTED" \notin e.mode
            /\ name \in s.ro
  <2>1. PICK sb : sb = SeekIn(Reopened(e.sb), saved)
    OBVIOUS
  <2>2. PICK mode : mode = e.mode \union {"WRITE_DENIED"}
    OBVIOUS
  <2>3. PICK f : f = [e EXCEPT !.sb = sb, !.mode = mode]
    OBVIOUS
  <2>4. PICK t : t = [s EXCEPT !.ent[name] = f]
    OBVIOUS
  <2>5. EntryToWrite(s, name) = [m |-> t, id |-> NoEntry]
    <3>1. EntryToWrite(s, name) = [m |-> [s EXCEPT !.ent[name].sb = SeekIn(Reopened(@), saved),
                                                   !.ent[name].mode = @ \union {"WRITE_DENIED"}],
                                   id |-> NoEntry]
      BY <1>1, <1>6, <1>12, Zenon DEF EntryToWrite
    <3>2. DOMAIN s = Fields /\ DOMAIN s.ent = Known /\ name \in Known
      BY <1>2, NamesKnown DEF Sound, Frame, Table
    <3>3. [s EXCEPT !.ent[name].sb = SeekIn(Reopened(@), saved), !.ent[name].mode = @ \union {"WRITE_DENIED"}] = t
      BY <1>1, <2>1, <2>2, <2>3, <2>4, <3>2 DEF Fields
    <3>4. QED BY <3>1, <3>3
  <2>6. t.ent[name] = f /\ Only(s, t, name) /\ name \in Files(t)
    BY <2>4, <1>14, EntrySet
  <2>7. f.sb = sb /\ f.mode = mode
    BY <1>3, <2>3 DEF EntryTyped
  <2>8. Content(sb) = Content(e.sb) /\ ReadPos(sb) = saved
    <3>1. PICK o : o = Reopened(e.sb)
      OBVIOUS
    <3>2. Good(o) /\ Content(o) = Content(e.sb) /\ saved \in Nat /\ saved # End
      BY <1>3, <1>4, <1>6, <3>1, ReopenedAs DEF End
    <3>3. QED BY <2>1, <3>1, <3>2, SeekInAs
  <2>9. /\ "READ" \in mode <=> "WRITE" \notin mode
        /\ "READ_DENIED" \notin mode /\ "WRITE" \notin mode /\ "WRITE_GRANTED" \notin mode
        /\ "READ" \in e.mode
    BY <1>3, <1>12, <2>2 DEF ModeOK
  <2>10. ModeOK(mode, name \in t.ro) /\ mode # {}
    BY <1>12, <2>6, <2>9 DEF ModeOK, Only
  <2>11. ReadAt(f) = saved /\ ReadAt(e) = saved /\ WriteAt(f) = -2 /\ WriteAt(e) = -2
    BY <1>3, <1>5, <1>6, <1>12, <2>7, <2>8, <2>9 DEF ReadAt, WriteAt
  <2>12. FileIn(t, name) = Content(e.sb)
    BY <2>6, <2>7, <2>8, <2>10 DEF FileIn
  <2>13. Same(s, t, name)
    BY <1>1, <1>3, <2>6, <2>7, <2>10, <2>11, <2>12 DEF Same, ModeIn
  <2>14. QED BY <1>12, <2>5, <2>13
<1>13. QED BY <1>7, <1>8, <1>10, <1>11, <1>12

\* EnsureWrite leaves the file writable, or says it is read-only.
LEMMA EnsureWriteSeen ==
  ASSUME NEW s, Sound(s), Modal(s), NEW name \in Names
  PROVE  LET r == ensureWrite(s, name)
         IN  /\ IsFile(r)  => r.id = name /\ Writable(s, r.m, name, TextIn(s, name), WrIn(s, name))
             /\ ~IsFile(r) => r.id = NoEntry /\ Same(s, r.m, name) /\ name \in s.ro
<1>1. name \in Known
  BY NamesKnown
<1>2. PICK q : q = Find(s, name)
  OBVIOUS
<1>3. /\ Sound(q.m) /\ q.m.ent = s.ent /\ q.m.disk = s.disk /\ q.m.ro = s.ro /\ Files(q.m) = Files(s)
      /\ q.m.entries = s.entries /\ Modal(q.m) /\ Only(s, q.m, name)
      /\ \/ q.id = name /\ name \in Range(s.entries)
         \/ q.id = NoEntry /\ q.m = s /\ name \notin Range(s.entries)
  BY <1>1, <1>2, FindSound, FindSeen
<1>4. NoEntry # name /\ NoEntry \notin Names
  BY NoNameIsNoEntry
<1>5. PICK r : r = ensureWrite(s, name)
  OBVIOUS
<1>6. CASE name \notin Range(s.entries)
  <2>1. name \notin Files(s)
    BY <1>6 DEF Files
  <2>2. PICK text : text = IF s.disk[name] = Absent THEN << >> ELSE s.disk[name]
    OBVIOUS
  <2>3. RdIn(s, name) = 0 /\ TextIn(s, name) = text /\ WrIn(s, name) = Len(text)
    <3>1. FileIn(s, name) = s.disk[name]
      BY <2>1, ClosedSeen
    <3>2. Len(<< >>) = 0
      OBVIOUS
    <3>3. QED BY <2>1, <2>2, <3>1, <3>2 DEF RdIn, WrIn, TextIn
  <2>4. r = Make(s, name, TRUE)
    BY <1>2, <1>3, <1>5, <1>6 DEF ensureWrite
  <2>5. PICK out \in BOOLEAN : out = TRUE
    OBVIOUS
  <2>6. PICK e : e = r.m.ent[name]
    OBVIOUS
  <2>7. \/ r.id = NoEntry /\ r.m = s /\ name \in s.ro
        \/ /\ r.id = name /\ Only(s, r.m, name) /\ name \in Files(r.m)
           /\ name \notin s.ro /\ e.mode = {"WRITE", "WRITE_GRANTED"}
           /\ e.posSave = 0 /\ Content(e.sb) = text /\ WritePos(e.sb) = Len(text)
    <3>1. Made(s, r, name, out, text)
      BY <1>6, <2>2, <2>4, <2>5, MakeSeen
    <3>2. QED BY <2>5, <2>6, <3>1 DEF Made
  <2>8. ASSUME r.id \in Names PROVE Writable(s, r.m, name, TextIn(s, name), WrIn(s, name))
    <3>1. ModeOK(e.mode, name \in r.m.ro) /\ "WRITE" \in e.mode
      BY <1>4, <2>7, <2>8 DEF ModeOK, Only
    <3>2. QED BY <1>4, <2>3, <2>6, <2>7, <2>8, <3>1 DEF Writable
  <2>9. Same(s, s, name)
    BY OnlyNone DEF Same, Modal
  <2>10. QED BY <1>4, <1>5, <2>7, <2>8, <2>9 DEF IsFile
<1>7. CASE name \in Range(s.entries)
  <2>1. name \in Files(s) /\ name \in Files(q.m)
    BY <1>3, <1>7 DEF Files
  <2>2. r = EntryToWrite(q.m, name)
    BY <1>2, <1>3, <1>4, <1>5, <1>7 DEF ensureWrite
  <2>3. FileIn(q.m, name) = FileIn(s, name) /\ RdIn(q.m, name) = RdIn(s, name)
        /\ TextIn(q.m, name) = TextIn(s, name) /\ WrIn(q.m, name) = WrIn(s, name)
    BY <1>3 DEF FileIn, RdIn, TextIn, WrIn
  <2>4. \/ r.id = name /\ Writable(q.m, r.m, name, TextIn(q.m, name), WrIn(q.m, name))
        \/ r.id = NoEntry /\ Same(q.m, r.m, name) /\ name \in q.m.ro
    BY <1>3, <2>1, <2>2, ToWriteSeen
  <2>5. Writable(q.m, r.m, name, TextIn(q.m, name), WrIn(q.m, name)) => Writable(s, r.m, name, TextIn(s, name), WrIn(s, name))
    BY <1>3, <2>3, OnlyTwice DEF Writable
  <2>6. Same(q.m, r.m, name) => Same(s, r.m, name)
    BY <1>3, <2>3, OnlyTwice DEF Same
  <2>7. QED BY <1>3, <1>4, <1>5, <2>4, <2>5, <2>6 DEF IsFile
<1>8. QED BY <1>6, <1>7

\* An entry that is switched to writing, and is then written through null, was granted to be
\* written before: one that is opened, or opened again, to be written has its descriptor
\* moved to the end of the file.
LEMMA ToWriteGranted ==
  ASSUME NEW s, Sound(s), Modal(s), NEW name \in Files(s), NEW r, r = EntryToWrite(s, name), r.id # NoEntry,
         NullWrite(r.m.ent[name].sb)
  PROVE  "WRITE_GRANTED" \in s.ent[name].mode
<1>1. PICK e : e = s.ent[name]
  OBVIOUS
<1>2. EntryTyped(e) /\ Good(e.sb) /\ ModeOK(e.mode, name \in s.ro)
  BY <1>1, OpenSeen DEF Files
<1>3. SUFFICES ASSUME "WRITE_GRANTED" \notin e.mode PROVE FALSE
  BY <1>1
<1>4. "WRITE" \notin e.mode
  BY <1>2, <1>3 DEF ModeOK
<1>5. PICK sb : sb = SeekOut(Reopened(e.sb), End)
  OBVIOUS
<1>6. PICK f : f = [[e EXCEPT !.posSave = ReadPos(e.sb), !.mode = (@ \ {"READ"}) \union {"WRITE"}]
                      EXCEPT !.sb = SeekOut(Reopened(@), End), !.mode = @ \union {"WRITE_GRANTED"}]
  OBVIOUS
<1>13. PICK t : t = [s EXCEPT !.ent[name] = f]
  OBVIOUS
<1>7. r.m = t
  <2>2. "WRITE_DENIED" \notin e.mode /\ name \notin s.ro
    <3>1. CASE "WRITE_DENIED" \in e.mode
      BY <1>1, <1>4, <3>1, Zenon DEF EntryToWrite
    <3>2. CASE name \in s.ro /\ "WRITE_DENIED" \notin e.mode
      BY <1>1, <1>3, <1>4, <3>2, Zenon DEF EntryToWrite
    <3>3. QED BY <3>1, <3>2
  <2>3. EntryToWrite(s, name) = [m |-> t, id |-> name]
    BY <1>1, <1>3, <1>4, <1>6, <1>13, <2>2, Zenon DEF EntryToWrite
  <2>4. QED BY <2>3
<1>8. Frame(s)
  BY DEF Sound
<1>9. r.m.ent[name] = f
  BY <1>7, <1>8, <1>13, EntrySet
<1>10. f.sb = sb
  BY <1>2, <1>5, <1>6 DEF EntryTyped
<1>11. ~NullWrite(sb)
  BY <1>2, <1>5, ReopenedAs, SeekOutNull
<1>12. QED BY <1>9, <1>10, <1>11

LEMMA EnsureWriteGranted ==
  ASSUME NEW s, Sound(s), Modal(s), NEW name \in Names, NEW r, r = ensureWrite(s, name), IsFile(r),
         NullWrite(r.m.ent[name].sb)
  PROVE  name \in Files(s) /\ "WRITE_GRANTED" \in s.ent[name].mode
<1>1. name \in Known /\ NoEntry \notin Names
  BY NamesKnown, NoNameIsNoEntry
<1>2. PICK q : q = Find(s, name)
  OBVIOUS
<1>3. /\ Sound(q.m) /\ q.m.ent = s.ent /\ Files(q.m) = Files(s) /\ Modal(q.m)
      /\ \/ q.id = name /\ name \in Range(s.entries)
         \/ q.id = NoEntry /\ q.m = s /\ name \notin Range(s.entries)
  BY <1>1, <1>2, FindSound, FindSeen
<1>4. CASE name \notin Range(s.entries)
  <2>1. r = Make(s, name, TRUE)
    BY <1>1, <1>2, <1>3, <1>4 DEF ensureWrite
  <2>2. r.id # NoEntry
    BY <1>1 DEF IsFile
  <2>3. PICK text : text = IF s.disk[name] = Absent THEN << >> ELSE s.disk[name]
    OBVIOUS
  <2>4. PICK out \in BOOLEAN : out = TRUE
    OBVIOUS
  <2>5. Made(s, r, name, out, text)
    BY <1>4, <2>1, <2>3, <2>4, MakeSeen
  <2>6. ~NullWrite(r.m.ent[name].sb)
    BY <2>2, <2>4, <2>5 DEF Made
  <2>7. QED BY <2>6
<1>5. CASE name \in Range(s.entries)
  <2>1. name \in Files(s) /\ name \in Files(q.m)
    BY <1>3, <1>5 DEF Files
  <2>2. r = EntryToWrite(q.m, name)
    BY <1>1, <1>2, <1>3, <1>5 DEF ensureWrite
  <2>3. r.id # NoEntry
    BY <1>1 DEF IsFile
  <2>4. "WRITE_GRANTED" \in q.m.ent[name].mode
    BY <1>3, <2>1, <2>2, <2>3, ToWriteGranted
  <2>5. QED BY <1>3, <2>1, <2>4
<1>6. QED BY <1>4, <1>5

-----------------------------------------------------------------------------
(***************************************************************************)
(* The steps of the manager, as steps of RexxStreams.                      *)
(***************************************************************************)
\* t is s with the stream of name replaced.
Moved(s, t, name, sb) ==
  /\ Only(s, t, name) /\ name \in Files(t)
  /\ t.ent[name].sb = sb /\ t.ent[name].mode = s.ent[name].mode /\ t.ent[name].posSave = s.ent[name].posSave

\* What is seen of a manager with one stream replaced.
LEMMA StreamMoved ==
  ASSUME NEW s, Frame(s), NEW name \in Files(s), NEW e, e = s.ent[name], EntryTyped(e), NEW sb, NEW l
  PROVE  /\ Moved(s, WithStream(s, name, sb), name, sb)
         /\ Moved(s, [s EXCEPT !.ent[name].sb = sb, !.ent[name].line = l], name, sb)
         /\ Moved(s, [s EXCEPT !.ent[name].sb = sb, !.ent[name].byLine = FALSE], name, sb)
         /\ Moved(s, [s EXCEPT !.ent[name].sb = sb, !.ent[name].line = l, !.ent[name].byLine = FALSE], name, sb)
<1>1. DOMAIN s = Fields /\ DOMAIN s.ent = Known /\ name \in Known
  BY FilesKnown DEF Frame, Table
<1>2. e = s.ent[name]
  OBVIOUS
<1>3. EntryTyped(e)
  OBVIOUS
<1>4. ASSUME NEW f, f.sb = sb, f.mode = e.mode, f.posSave = e.posSave PROVE Moved(s, [s EXCEPT !.ent[name] = f], name, sb)
  <2>1. PICK t : t = [s EXCEPT !.ent[name] = f]
    OBVIOUS
  <2>2. t.ent[name] = f /\ Only(s, t, name) /\ name \in Files(t)
    <3>1. Only(s, t, name) /\ name \in Files(t)
      BY <2>1, EntrySet
    <3>2. t.ent[name] = f
      BY <2>1, EntrySet
    <3>3. QED BY <3>1, <3>2
  <2>3. QED BY <1>2, <1>4, <2>1, <2>2 DEF Moved
<1>5. Moved(s, WithStream(s, name, sb), name, sb)
  <2>1. PICK f : f = [e EXCEPT !.sb = sb]
    OBVIOUS
  <2>2. f.sb = sb /\ f.mode = e.mode /\ f.posSave = e.posSave
    BY <1>3, <2>1 DEF EntryTyped
  <2>3. WithStream(s, name, sb) = [s EXCEPT !.ent[name] = f]
    BY <1>1, <1>2, <2>1 DEF WithStream, Fields
  <2>4. QED BY <1>4, <2>2, <2>3
<1>6. Moved(s, [s EXCEPT !.ent[name].sb = sb, !.ent[name].line = l], name, sb)
  <2>1. PICK f : f = [e EXCEPT !.sb = sb, !.line = l]
    OBVIOUS
  <2>2. f.sb = sb /\ f.mode = e.mode /\ f.posSave = e.posSave
    BY <1>3, <2>1 DEF EntryTyped
  <2>3. [s EXCEPT !.ent[name].sb = sb, !.ent[name].line = l] = [s EXCEPT !.ent[name] = f]
    BY <1>1, <1>2, <2>1 DEF Fields
  <2>4. QED BY <1>4, <2>2, <2>3
<1>7. Moved(s, [s EXCEPT !.ent[name].sb = sb, !.ent[name].byLine = FALSE], name, sb)
  <2>1. PICK f : f = [e EXCEPT !.sb = sb, !.byLine = FALSE]
    OBVIOUS
  <2>2. f.sb = sb /\ f.mode = e.mode /\ f.posSave = e.posSave
    BY <1>3, <2>1 DEF EntryTyped
  <2>3. [s EXCEPT !.ent[name].sb = sb, !.ent[name].byLine = FALSE] = [s EXCEPT !.ent[name] = f]
    BY <1>1, <1>2, <2>1 DEF Fields
  <2>4. QED BY <1>4, <2>2, <2>3
<1>8. Moved(s, [s EXCEPT !.ent[name].sb = sb, !.ent[name].line = l, !.ent[name].byLine = FALSE], name, sb)
  <2>1. PICK f : f = [e EXCEPT !.sb = sb, !.line = l, !.byLine = FALSE]
    OBVIOUS
  <2>2. f.sb = sb /\ f.mode = e.mode /\ f.posSave = e.posSave
    BY <1>3, <2>1 DEF EntryTyped
  <2>3. [s EXCEPT !.ent[name].sb = sb, !.ent[name].line = l, !.ent[name].byLine = FALSE]
          = [s EXCEPT !.ent[name] = f]
    BY <1>1, <1>2, <2>1 DEF Fields
  <2>4. QED BY <1>4, <2>2, <2>3
<1>9. QED BY <1>5, <1>6, <1>7, <1>8

\* An entry that is readable is so at the position its new stream is left at.
LEMMA ReadMoved ==
  ASSUME NEW s, NEW t, NEW u, NEW name, NEW sb, NEW pos, Readable(s, t, name, pos), Moved(t, u, name, sb),
         Content(sb) = FileIn(s, name)
  PROVE  Readable(s, u, name, ReadPos(sb))
<1>1. Only(s, u, name) /\ u.ro = t.ro
  BY OnlyTwice DEF Readable, Moved, Only
<1>2. PICK e : e = t.ent[name]
  OBVIOUS
<1>3. PICK f : f = u.ent[name]
  OBVIOUS
<1>4. f.sb = sb /\ f.mode = e.mode /\ f.posSave = e.posSave /\ name \in Files(u)
  BY <1>2, <1>3 DEF Moved
<1>5. "READ" \in e.mode /\ ModeOK(e.mode, name \in t.ro) /\ WriteAt(e) = WriteAt(s.ent[name])
  BY <1>2 DEF Readable
<1>6. WriteAt(f) = WriteAt(e)
  BY <1>4, <1>5 DEF WriteAt, ModeOK
<1>7. QED BY <1>1, <1>2, <1>3, <1>4, <1>5, <1>6 DEF Readable

\* An entry that is writable holds what its new stream holds, and is written on there.
LEMMA WriteMoved ==
  ASSUME NEW s, NEW t, NEW u, NEW name, NEW sb, NEW pos, NEW text, Writable(s, t, name, text, pos),
         Moved(t, u, name, sb)
  PROVE  Writable(s, u, name, Content(sb), WritePos(sb))
<1>1. Only(s, u, name) /\ u.ro = t.ro
  BY OnlyTwice DEF Writable, Moved, Only
<1>2. PICK e : e = t.ent[name]
  OBVIOUS
<1>3. PICK f : f = u.ent[name]
  OBVIOUS
<1>4. f.sb = sb /\ f.mode = e.mode /\ f.posSave = e.posSave /\ name \in Files(u)
  BY <1>2, <1>3 DEF Moved
<1>5. QED BY <1>1, <1>2, <1>3, <1>4 DEF Writable

-----------------------------------------------------------------------------
\* What RexxStreams says, in the manager's terms.
LEMMA SameResults ==
  /\ RS!None = None /\ RS!Absent = Absent /\ \A h : RS!Result(h) = Result(h)
  /\ \A b : RS!Got(b) = Got(b) /\ RS!Number(b) = Number(b)
BY Zenon DEF RS!None, None, RS!Absent, Absent, RS!Result, Result, RS!Got, Got, RS!Number, Number

\* What RexxStreams sees before a step.
LEMMA ViewNow ==
  ASSUME Sound(m), Modal(m), NEW name \in Names
  PROVE  /\ FileView[name] = FileIn(m, name) /\ ReadView[name] = ReadAt(m.ent[name])
         /\ WriteView[name] = WriteAt(m.ent[name])
         /\ RS!IsOpen(name) <=> name \in Files(m)
         /\ RS!CanRead(name) <=> name \in Files(m) \/ FileIn(m, name) # Absent
         /\ RS!CanWrite(name) <=> name \notin m.ro
         /\ RS!Rd(name) = RdIn(m, name) /\ RS!Wr(name) = WrIn(m, name)
<1>1. /\ FileView[name] = FileIn(m, name) /\ ReadView[name] = ReadAt(m.ent[name])
      /\ WriteView[name] = WriteAt(m.ent[name])
  BY DEF FileView, ReadView, WriteView, FileOf, FileIn
<1>2. RS!IsOpen(name) <=> name \in Files(m)
  <2>1. CASE name \in Files(m)
    <3>1. ReadAt(m.ent[name]) \in Nat
      BY <2>1, OpenSeen
    <3>2. QED BY <1>1, <2>1, <3>1 DEF RS!IsOpen, RS!Shut
  <2>2. CASE name \notin Files(m)
    <3>1. ReadAt(m.ent[name]) = -1
      BY <2>2, ClosedSeen
    <3>2. QED BY <1>1, <2>2, <3>1 DEF RS!IsOpen, RS!Shut
  <2>3. QED BY <2>1, <2>2
<1>3. RS!CanRead(name) <=> name \in Files(m) \/ FileIn(m, name) # Absent
  BY <1>1, <1>2, SameResults DEF RS!CanRead
<1>4. RS!Rd(name) = RdIn(m, name)
  BY <1>1, <1>2 DEF RS!Rd, RdIn
<1>5. RS!Wr(name) = WrIn(m, name)
  BY <1>1, <1>2, SameResults DEF RS!Wr, WrIn, RS!Unset
<1>6. RS!CanWrite(name) <=> name \notin m.ro
  BY DEF RS!CanWrite
<1>7. QED BY <1>1, <1>2, <1>3, <1>4, <1>5, <1>6

\* What it sees after a step that concerns the file of name only.
LEMMA ViewStep ==
  ASSUME NEW name \in Names, NEW t, t = m', Only(m, t, name)
  PROVE  /\ (m.ro)' = m.ro
         /\ FileView' = [FileView EXCEPT ![name] = FileIn(t, name)]
         /\ ReadView' = [ReadView EXCEPT ![name] = ReadAt(t.ent[name])]
         /\ WriteView' = [WriteView EXCEPT ![name] = WriteAt(t.ent[name])]
<1>1. (m.ro)' = m.ro
  BY DEF Only
<1>2. \A n \in Names : n # name => t.ent[n] = m.ent[n] /\ t.disk[n] = m.disk[n]
  BY DEF Only
<1>3. FileView' = [n \in Names |-> FileIn(t, n)] /\ FileView = [n \in Names |-> FileIn(m, n)]
  BY DEF FileView, FileOf, FileIn
<1>4. \A n \in Names : n # name => FileIn(t, n) = FileIn(m, n)
  BY <1>2 DEF FileIn
<1>5. FileView' = [FileView EXCEPT ![name] = FileIn(t, name)]
  BY <1>3, <1>4
<1>6. ReadView' = [n \in Names |-> ReadAt(t.ent[n])] /\ ReadView = [n \in Names |-> ReadAt(m.ent[n])]
  BY DEF ReadView
<1>7. ReadView' = [ReadView EXCEPT ![name] = ReadAt(t.ent[name])]
  BY <1>2, <1>6
<1>8. WriteView' = [n \in Names |-> WriteAt(t.ent[n])] /\ WriteView = [n \in Names |-> WriteAt(m.ent[n])]
  BY DEF WriteView
<1>9. WriteView' = [WriteView EXCEPT ![name] = WriteAt(t.ent[name])]
  BY <1>2, <1>8
<1>10. QED BY <1>1, <1>5, <1>7, <1>9

\* Replacing what is there by itself.
LEMMA SameExcept == ASSUME NEW S, NEW f, f = [n \in S |-> f[n]], NEW x \in S PROVE [f EXCEPT ![x] = f[x]] = f
OBVIOUS

\* The three views are functions on the names.
LEMMA ViewsAre ==
  /\ FileView = [n \in Names |-> FileView[n]] /\ ReadView = [n \in Names |-> ReadView[n]]
  /\ WriteView = [n \in Names |-> WriteView[n]]
BY DEF FileView, ReadView, WriteView

\* A step that reads, one that writes, and one that does neither.
LEMMA StepReads ==
  ASSUME Sound(m), Modal(m), NEW name \in Names, NEW t, t = m', NEW pos, Readable(m, t, name, pos)
  PROVE  RS!ReadAt(name, pos) /\ FileView' = FileView /\ (m.ro)' = m.ro /\ Modal(t)
<1>1. Only(m, t, name)
  BY DEF Readable
<1>2. PICK e : e = t.ent[name]
  OBVIOUS
<1>3. /\ ModeOK(e.mode, name \in t.ro) /\ "READ" \in e.mode /\ name \in Files(t)
      /\ name \in Files(m) \/ FileIn(m, name) # Absent
      /\ Content(e.sb) = FileIn(m, name) /\ ReadPos(e.sb) = pos /\ WriteAt(e) = WriteAt(m.ent[name])
  BY <1>2 DEF Readable
<1>4. FileIn(t, name) = FileIn(m, name) /\ ReadAt(e) = pos
  BY <1>2, <1>3 DEF FileIn, ReadAt
<1>5. Modal(t)
  BY <1>1, <1>2, <1>3, OnlyModal DEF ModeIn
<1>6. FileView' = FileView
  <2>1. FileView' = [FileView EXCEPT ![name] = FileView[name]]
    BY <1>1, <1>4, ViewNow, ViewStep
  <2>2. QED BY <2>1, SameExcept, ViewsAre
<1>7. WriteView' = WriteView
  <2>1. WriteView' = [WriteView EXCEPT ![name] = WriteView[name]]
    BY <1>1, <1>2, <1>3, ViewNow, ViewStep
  <2>2. QED BY <2>1, SameExcept, ViewsAre
<1>8. ReadView' = [ReadView EXCEPT ![name] = pos] /\ (m.ro)' = m.ro
  BY <1>1, <1>2, <1>4, ViewStep
<1>9. RS!CanRead(name)
  BY <1>3, ViewNow
<1>10. QED BY <1>5, <1>6, <1>7, <1>8, <1>9 DEF RS!ReadAt

\* A step that writes the file of name.
LEMMA StepWrites ==
  ASSUME Sound(m), Modal(m), NEW name \in Names, NEW t, t = m', NEW pos, NEW str, NEW new, NEW to,
         Writable(m, t, name, new, to),
         new = IF str = << >> THEN TextIn(m, name) ELSE RS!Patch(TextIn(m, name), pos, str),
         to = pos + Len(str) \/ (str # << >> /\ to \in (pos + Len(str))..Len(new)),
         ret' = None
  PROVE  RS!WriteAt(name, pos, str) /\ (m.ro)' = m.ro /\ Modal(t)
<1>1. Only(m, t, name)
  BY DEF Writable
<1>2. PICK e : e = t.ent[name]
  OBVIOUS
<1>3. /\ ModeOK(e.mode, name \in t.ro) /\ "WRITE" \in e.mode /\ name \in Files(t) /\ name \notin m.ro
      /\ Content(e.sb) = new /\ WritePos(e.sb) = to /\ e.posSave = RdIn(m, name)
  BY <1>2 DEF Writable
<1>4. FileIn(t, name) = new /\ ReadAt(e) = RdIn(m, name) /\ WriteAt(e) = to
  BY <1>2, <1>3 DEF FileIn, ReadAt, WriteAt, ModeOK
<1>5. Modal(t)
  BY <1>1, <1>2, <1>3, OnlyModal DEF ModeIn
<1>6. /\ FileView' = [FileView EXCEPT ![name] = new] /\ ReadView' = [ReadView EXCEPT ![name] = RS!Rd(name)]
      /\ WriteView' = [WriteView EXCEPT ![name] = to] /\ (m.ro)' = m.ro
  BY <1>1, <1>2, <1>4, ViewNow, ViewStep
<1>7. RS!CanWrite(name) /\ ret' = RS!None
  BY <1>3, ViewNow, SameResults
<1>8. PICK old : old = TextIn(m, name)
  OBVIOUS
<1>9. old = IF FileView[name] = RS!Absent THEN << >> ELSE FileView[name]
  BY <1>8, ViewNow, SameResults DEF TextIn
<1>10. new = IF str = << >> THEN old ELSE RS!Patch(old, pos, str)
  BY <1>8
<1>11. to \in {pos + Len(str)} \union IF str = << >> THEN {} ELSE (pos + Len(str))..Len(new)
  OBVIOUS
<1>12. QED BY <1>5, <1>6, <1>7, <1>9, <1>10, <1>11, Zenon DEF RS!WriteAt

\* A step that changes nothing RexxStreams sees.
LEMMA StepSame ==
  ASSUME Sound(m), Modal(m), NEW name \in Names, NEW t, t = m', Same(m, t, name)
  PROVE  UNCHANGED <<FileView, ReadView, WriteView>> /\ (m.ro)' = m.ro /\ Modal(t)
<1>1. Only(m, t, name)
  BY DEF Same
<1>2. Modal(t)
  BY <1>1, OnlyModal DEF Same
<1>3. /\ FileView' = [FileView EXCEPT ![name] = FileView[name]] /\ (m.ro)' = m.ro
      /\ ReadView' = [ReadView EXCEPT ![name] = ReadView[name]]
      /\ WriteView' = [WriteView EXCEPT ![name] = WriteView[name]]
  BY <1>1, ViewNow, ViewStep DEF Same
<1>4. QED BY <1>2, <1>3, SameExcept, ViewsAre

-----------------------------------------------------------------------------
(***************************************************************************)
(* The actions, one by one: those that read.                               *)
(***************************************************************************)
\* A step of one file.
StepOf(name) ==
  RS!Reading(name) \/ RS!Writing(name) \/ RS!Managing(name) \/ RS!Refused(name) \/ RS!Crash(name)

\* It is a step of RexxStreams.
LEMMA NextOf ==
  ASSUME NEW name \in Names, (m.ro)' = m.ro, call'[2] = name, StepOf(name)
  PROVE  RS!Step
BY DEF StepOf, RS!Step

\* A step that returns an error, and leaves the file as it was.
LEMMA Refuses ==
  ASSUME Sound(m), Modal(m), NEW name \in Names, call'[2] = name, NEW s, Same(m, s, name),
         NEW r, r.m = s, r.id = NoEntry, NotFile(r),
         \/ ~RS!CanRead(name) /\ call'[1] \in {"open", "state", "chars", "lines", "charin", "linein"}
         \/ ~RS!CanWrite(name) /\ call'[1] \in {"charout", "lineout"}
         \/ ~RS!IsOpen(name) /\ call'[1] \in {"flush", "reset"}
  PROVE  RS!Step /\ Modal(m)'
<1>1. s = m' /\ ret' = Result("refused")
  BY Zenon DEF NotFile, Done
<1>2. UNCHANGED <<FileView, ReadView, WriteView>> /\ (m.ro)' = m.ro /\ Modal(s)
  BY <1>1, StepSame
<1>3. ret' = RS!Result("refused")
  BY <1>1, SameResults
<1>4. RS!Refused(name)
  BY <1>2, <1>3, Zenon DEF RS!Refused
<1>5. RS!Step
  BY <1>2, <1>4, NextOf DEF StepOf
<1>6. QED BY <1>1, <1>2, <1>5

\* The manager itself differs in nothing.
LEMMA NothingSame == ASSUME NEW s, Modal(s), NEW name \in Names PROVE Same(s, s, name)
BY OnlyNone DEF Same, Modal

\* There is no file to read.
LEMMA RefusesRead ==
  ASSUME Sound(m), Modal(m), NEW name \in Names, call'[2] = name, NEW r, r = ensureRead(m, name), NotFile(r),
         call'[1] \in {"state", "chars", "lines", "charin", "linein"}
  PROVE  RS!Step /\ Modal(m)'
<1>1. r.id = NoEntry /\ r.m = m /\ name \notin Files(m) /\ FileIn(m, name) = Absent
  BY EnsureReadSeen DEF NotFile
<1>2. ~RS!CanRead(name)
  BY <1>1, ViewNow
<1>3. QED BY <1>1, <1>2, NothingSame, Refuses

\* The file is read-only.
LEMMA RefusesWrite ==
  ASSUME Sound(m), Modal(m), NEW name \in Names, call'[2] = name, NEW r, r = ensureWrite(m, name), NotFile(r),
         call'[1] \in {"charout", "lineout"}
  PROVE  RS!Step /\ Modal(m)'
<1>1. r.id = NoEntry /\ Same(m, r.m, name) /\ name \in m.ro
  BY EnsureWriteSeen DEF NotFile
<1>2. ~RS!CanWrite(name)
  BY <1>1, ViewNow
<1>3. QED BY <1>1, <1>2, Refuses

\* The entry that is read.
LEMMA ReadFrom ==
  ASSUME Sound(m), Modal(m), NEW name \in Names, NEW r, r = ensureRead(m, name), IsFile(r),
         NEW e, e = r.m.ent[r.id]
  PROVE  /\ r.id = name /\ Readable(m, r.m, name, RdIn(m, name)) /\ Frame(r.m) /\ name \in Files(r.m)
         /\ EntryTyped(e) /\ Good(e.sb) /\ e.line \in Nat /\ e = r.m.ent[name]
         /\ Content(e.sb) = FileIn(m, name) /\ ReadPos(e.sb) = RdIn(m, name) /\ RdIn(m, name) \in Nat
         /\ FileView[name] = FileIn(m, name) /\ RS!Rd(name) = RdIn(m, name)
<1>1. r.id = name /\ Readable(m, r.m, name, RdIn(m, name))
  BY EnsureReadSeen
<1>2. Sound(r.m) /\ EntryTyped(e) /\ name \in Files(r.m)
  <2>1. Sound(r.m) /\ name \in Files(r.m)
    BY <1>1, NamesKnown, EnsureReadSound
  <2>2. QED BY <1>1, <2>1 DEF Sound
<1>3. Frame(r.m) /\ Good(e.sb) /\ e.line \in Nat /\ ReadPos(e.sb) \in Nat
  BY <1>2, EntryFields DEF Sound
<1>4. Content(e.sb) = FileIn(m, name) /\ ReadPos(e.sb) = RdIn(m, name)
  BY <1>1 DEF Readable
<1>5. FileView[name] = FileIn(m, name) /\ RS!Rd(name) = RdIn(m, name)
  BY ViewNow
<1>6. QED BY <1>1, <1>2, <1>3, <1>4, <1>5

\* It is read to where sb is left.
LEMMA ReadTo ==
  ASSUME Sound(m), Modal(m), NEW name \in Names, NEW s, NEW pos, Readable(m, s, name, pos),
         NEW t, NEW sb, Moved(s, t, name, sb), Content(sb) = FileIn(m, name), NEW res, Done(t, res)
  PROVE  /\ RS!ReadAt(name, ReadPos(sb)) /\ FileView' = FileView /\ (m.ro)' = m.ro /\ Modal(m)'
         /\ ret' = res
<1>1. t = m' /\ ret' = res
  BY Zenon DEF Done
<1>2. Readable(m, t, name, ReadPos(sb))
  BY ReadMoved
<1>3. RS!ReadAt(name, ReadPos(sb)) /\ FileView' = FileView /\ (m.ro)' = m.ro /\ Modal(t)
  BY <1>1, <1>2, StepReads
<1>4. QED BY <1>1, <1>3

\* STREAM STATE opens the file, and says nothing more.
LEMMA StateImplements ==
  ASSUME Sound(m), Modal(m), NEW name \in Names, call' = <<"state", name>>, State(name)
  PROVE  RS!Step /\ Modal(m)'
<1>1. PICK r : r = ensureRead(m, name)
  OBVIOUS
<1>2. call'[1] = "state" /\ call'[2] = name
  OBVIOUS
<1>3. CASE NotFile(r)
  BY <1>1, <1>2, <1>3, RefusesRead
<1>4. CASE IsFile(r) /\ Done(r.m, None)
  <2>1. Readable(m, r.m, name, RdIn(m, name)) /\ RS!Rd(name) = RdIn(m, name)
    BY <1>1, <1>4, ReadFrom
  <2>2. r.m = m' /\ ret' = None
    BY <1>4, Zenon DEF Done
  <2>3. RS!ReadAt(name, RdIn(m, name)) /\ FileView' = FileView /\ (m.ro)' = m.ro /\ Modal(r.m)
    BY <2>1, <2>2, StepReads
  <2>4. RS!Open(name)
    BY <2>1, <2>2, <2>3, SameResults DEF RS!Open, RS!Look
  <2>5. StepOf(name)
    BY <2>4 DEF StepOf, RS!Reading
  <2>6. QED BY <1>2, <2>2, <2>3, <2>5, NextOf
<1>5. QED BY <1>1, <1>3, <1>4 DEF State

\* STREAM OPEN does, too; and of a file that is open, it opens it again.
LEMMA OpenImplements ==
  ASSUME Sound(m), Modal(m), NEW name \in Names, call' = <<"open", name>>, Open(name)
  PROVE  RS!Step /\ Modal(m)'
<1>1. PICK f : f = Find(m, name)
  OBVIOUS
<1>2. call'[1] = "open" /\ call'[2] = name /\ name \in Known
  BY NamesKnown
<1>3. /\ f.m.ent = m.ent /\ f.m.disk = m.disk /\ Modal(f.m) /\ Only(m, f.m, name) /\ Files(f.m) = Files(m)
      /\ \/ f.id = name /\ name \in Range(m.entries)
         \/ f.id = NoEntry /\ f.m = m /\ name \notin Range(m.entries)
  <2>1. f.m.entries = m.entries
    BY <1>1, <1>2, FindSeen
  <2>2. QED BY <1>1, <1>2, <2>1, FindSound, FindSeen
<1>4. PICK r : /\ r = IF f.id = NoEntry THEN Make(m, name, FALSE) ELSE f
               /\ NotFile(r) \/ (IsFile(r) /\ Done(r.m, None))
  BY <1>1 DEF Open, Opening
<1>5. CASE f.id = NoEntry
  <2>1. r = ensureRead(m, name)
    <3>1. f.m = m
      BY <1>2, <1>3, <1>5, NamesKnown
    <3>2. r = Make(f.m, name, FALSE)
      BY <1>4, <1>5, <3>1
    <3>3. QED BY <1>1, <1>5, <3>2 DEF ensureRead
  <2>2. CASE NotFile(r)
    <3>1. r.id = NoEntry /\ r.m = m /\ name \notin Files(m) /\ FileIn(m, name) = Absent
      BY <2>1, <2>2, EnsureReadSeen DEF NotFile
    <3>2. ~RS!CanRead(name)
      BY <3>1, ViewNow
    <3>3. QED BY <1>2, <2>2, <3>1, <3>2, NothingSame, Refuses
  <2>3. CASE IsFile(r) /\ Done(r.m, None)
    <3>1. Readable(m, r.m, name, RdIn(m, name)) /\ RS!Rd(name) = RdIn(m, name)
      BY <2>1, <2>3, ReadFrom
    <3>2. r.m = m' /\ ret' = None
      BY <2>3, Zenon DEF Done
    <3>3. RS!ReadAt(name, RdIn(m, name)) /\ FileView' = FileView /\ (m.ro)' = m.ro /\ Modal(r.m)
      BY <3>1, <3>2, StepReads
    <3>4. RS!Open(name)
      BY <3>1, <3>2, <3>3, SameResults DEF RS!Open, RS!Look
    <3>5. StepOf(name)
      BY <3>4 DEF StepOf, RS!Reading
    <3>6. QED BY <1>2, <3>2, <3>3, <3>5, NextOf
  <2>4. QED BY <1>4, <2>2, <2>3
<1>6. CASE f.id # NoEntry
  <2>1. r = f /\ name \in Files(m) /\ f.id \in Names
    BY <1>3, <1>4, <1>6 DEF Files
  <2>2. f.m = m' /\ ret' = None
    BY <1>4, <2>1, Zenon DEF NotFile, IsFile, Done
  <2>3. Same(m, f.m, name)
    BY <1>3 DEF Same, FileIn, Modal
  <2>4. UNCHANGED <<FileView, ReadView, WriteView>> /\ (m.ro)' = m.ro /\ Modal(f.m)
    BY <2>2, <2>3, StepSame
  <2>5. RS!CanRead(name) /\ RS!Rd(name) = ReadView[name]
    BY <2>1, ViewNow DEF RdIn
  <2>6. ReadView' = [ReadView EXCEPT ![name] = RS!Rd(name)]
    BY <2>4, <2>5, SameExcept, ViewsAre
  <2>7. RS!Open(name)
    BY <2>2, <2>4, <2>5, <2>6, SameResults DEF RS!Open, RS!Look, RS!ReadAt
  <2>8. StepOf(name)
    BY <2>7 DEF StepOf, RS!Reading
  <2>9. QED BY <1>2, <2>2, <2>4, <2>8, NextOf
<1>7. QED BY <1>5, <1>6

\* CHARS is the bytes that are left.
LEMMA CharsImplements ==
  ASSUME Sound(m), Modal(m), NEW name \in Names, call' = <<"chars", name>>, Chars(name)
  PROVE  RS!Step /\ Modal(m)'
<1>1. PICK r : r = ensureRead(m, name)
  OBVIOUS
<1>2. call'[1] = "chars" /\ call'[2] = name
  OBVIOUS
<1>3. CASE NotFile(r)
  BY <1>1, <1>2, <1>3, RefusesRead
<1>4. CASE IsFile(r) /\ \E end \in {SeekIn(r.m.ent[r.id].sb, End)}, at \in {ReadPos(r.m.ent[r.id].sb)} :
                          Done(WithStream(r.m, r.id, SeekIn(end, at)), Number(ReadPos(end) - at))
  <2>1. PICK e : e = r.m.ent[r.id]
    OBVIOUS
  <2>2. /\ r.id = name /\ Readable(m, r.m, name, RdIn(m, name)) /\ Frame(r.m) /\ name \in Files(r.m)
        /\ EntryTyped(e) /\ Good(e.sb) /\ e = r.m.ent[name]
        /\ Content(e.sb) = FileIn(m, name) /\ ReadPos(e.sb) = RdIn(m, name) /\ RdIn(m, name) \in Nat
        /\ FileView[name] = FileIn(m, name) /\ RS!Rd(name) = RdIn(m, name)
    <3>1. IsFile(r)
      BY <1>4, Zenon
    <3>2. QED BY <1>1, <2>1, <3>1, ReadFrom
  <2>3. PICK end, at : /\ end = SeekIn(e.sb, End) /\ at = ReadPos(e.sb)
                       /\ Done(WithStream(r.m, name, SeekIn(end, at)), Number(ReadPos(end) - at))
    <3>1. PICK end \in {SeekIn(e.sb, End)}, at \in {ReadPos(e.sb)} :
            Done(WithStream(r.m, r.id, SeekIn(end, at)), Number(ReadPos(end) - at))
      BY <1>4, <2>1, Zenon
    <3>2. end = SeekIn(e.sb, End) /\ at = ReadPos(e.sb)
      BY <3>1, Zenon
    <3>3. QED BY <2>2, <3>1, <3>2, Zenon
  <2>4. Good(end) /\ Content(end) = Content(e.sb) /\ ReadPos(end) = Len(Content(e.sb))
    BY <2>2, <2>3, SeekInAs
  <2>5. PICK sb : sb = SeekIn(end, at)
    OBVIOUS
  <2>6. Content(sb) = FileIn(m, name) /\ ReadPos(sb) = RdIn(m, name)
    <3>1. at \in Nat /\ at # End
      BY <2>2, <2>3 DEF End
    <3>2. Content(sb) = Content(end) /\ ReadPos(sb) = at
      BY <2>4, <2>5, <3>1, SeekInAs
    <3>3. QED BY <2>2, <2>3, <2>4, <3>2
  <2>7. PICK t : t = WithStream(r.m, name, sb)
    OBVIOUS
  <2>8. Moved(r.m, t, name, sb)
    BY <2>2, <2>7, StreamMoved
  <2>9. PICK n : n = Len(FileView[name]) - RS!Rd(name)
    OBVIOUS
  <2>10. Done(t, Number(n))
    BY <2>2, <2>3, <2>4, <2>5, <2>7, <2>9, Zenon
  <2>11. /\ RS!ReadAt(name, RdIn(m, name)) /\ FileView' = FileView /\ (m.ro)' = m.ro /\ Modal(m)'
         /\ ret' = Number(n)
    <3>1. PICK res : res = Number(n)
      OBVIOUS
    <3>2. Done(t, res)
      BY <2>10, <3>1
    <3>3. RS!ReadAt(name, ReadPos(sb)) /\ FileView' = FileView /\ (m.ro)' = m.ro /\ Modal(m)' /\ ret' = res
      BY <2>2, <2>6, <2>8, <3>2, ReadTo
    <3>4. QED BY <2>6, <3>1, <3>3
  <2>12. RS!Chars(name)
    BY <2>2, <2>9, <2>11, SameResults DEF RS!Chars, RS!Look
  <2>13. StepOf(name)
    BY <2>12 DEF StepOf, RS!Reading
  <2>14. QED BY <1>2, <2>11, <2>13, NextOf
<1>5. QED BY <1>1, <1>3, <1>4 DEF Chars

\* LINES is the lines that are left.
LEMMA LinesImplements ==
  ASSUME Sound(m), Modal(m), NEW name \in Names, call' = <<"lines", name>>, Lines(name)
  PROVE  RS!Step /\ Modal(m)'
<1>1. PICK r : r = ensureRead(m, name)
  OBVIOUS
<1>2. call'[1] = "lines" /\ call'[2] = name
  OBVIOUS
<1>3. CASE NotFile(r)
  BY <1>1, <1>2, <1>3, RefusesRead
<1>4. CASE /\ IsFile(r)
           /\ \E sb \in {r.m.ent[r.id].sb} :
                \E last \in {gotoLine(sb, 0, Len(Content(sb)) + 2, FALSE)} :
                  Done(WithStream(r.m, r.id, SeekIn(last.sb, ReadPos(sb))), Number(last.line))
  <2>1. PICK e : e = r.m.ent[r.id]
    OBVIOUS
  <2>2. /\ r.id = name /\ Readable(m, r.m, name, RdIn(m, name)) /\ Frame(r.m) /\ name \in Files(r.m)
        /\ EntryTyped(e) /\ Good(e.sb) /\ e = r.m.ent[name]
        /\ Content(e.sb) = FileIn(m, name) /\ ReadPos(e.sb) = RdIn(m, name) /\ RdIn(m, name) \in Nat
        /\ FileView[name] = FileIn(m, name) /\ RS!Rd(name) = RdIn(m, name)
    <3>1. IsFile(r)
      BY <1>4, Zenon
    <3>2. QED BY <1>1, <2>1, <3>1, ReadFrom
  <2>3. PICK last : /\ last = gotoLine(e.sb, 0, Len(Content(e.sb)) + 2, FALSE)
                    /\ Done(WithStream(r.m, name, SeekIn(last.sb, ReadPos(e.sb))), Number(last.line))
    <3>1. PICK s \in {e.sb} :
            \E last \in {gotoLine(s, 0, Len(Content(s)) + 2, FALSE)} :
              Done(WithStream(r.m, r.id, SeekIn(last.sb, ReadPos(s))), Number(last.line))
      BY <1>4, <2>1, Zenon
    <3>2. s = e.sb
      BY <3>1, Zenon
    <3>3. PICK last \in {gotoLine(s, 0, Len(Content(s)) + 2, FALSE)} :
            Done(WithStream(r.m, r.id, SeekIn(last.sb, ReadPos(s))), Number(last.line))
      BY <3>1, Zenon
    <3>4. last = gotoLine(s, 0, Len(Content(s)) + 2, FALSE)
      BY <3>3, Zenon
    <3>5. QED BY <2>2, <3>2, <3>3, <3>4, Zenon
  <2>4. PICK f : f = Content(e.sb)
    OBVIOUS
  <2>5. /\ Good(last.sb) /\ Content(last.sb) = f /\ last.line = RS!LinesAfter(f, ReadPos(e.sb))
    <3>1. last = gotoLine(e.sb, 0, Len(f) + 2, FALSE)
      BY <2>3, <2>4
    <3>2. Good(last.sb) /\ Settled(e.sb, last.sb) /\ last.line = RS!LinesAfter(f, ReadPos(e.sb))
      BY <2>2, <2>4, <3>1, LinesCounted
    <3>3. QED BY <2>4, <3>2 DEF Settled
  <2>6. PICK sb : sb = SeekIn(last.sb, ReadPos(e.sb))
    OBVIOUS
  <2>7. Content(sb) = FileIn(m, name) /\ ReadPos(sb) = RdIn(m, name)
    <3>1. ReadPos(e.sb) \in Nat /\ ReadPos(e.sb) # End
      BY <2>2 DEF End
    <3>2. Content(sb) = Content(last.sb) /\ ReadPos(sb) = ReadPos(e.sb)
      BY <2>5, <2>6, <3>1, SeekInAs
    <3>3. QED BY <2>2, <2>4, <2>5, <3>2
  <2>8. PICK t : t = WithStream(r.m, name, sb)
    OBVIOUS
  <2>9. Moved(r.m, t, name, sb)
    BY <2>2, <2>8, StreamMoved
  <2>10. PICK n : n = RS!LinesAfter(FileView[name], RS!Rd(name))
    OBVIOUS
  <2>11. PICK res : res = Number(n)
    OBVIOUS
  <2>12. Done(t, res)
    BY <2>2, <2>3, <2>4, <2>5, <2>6, <2>8, <2>10, <2>11, Zenon
  <2>13. /\ RS!ReadAt(name, ReadPos(sb)) /\ FileView' = FileView /\ (m.ro)' = m.ro /\ Modal(m)'
         /\ ret' = res
    BY <2>2, <2>7, <2>9, <2>12, ReadTo
  <2>14. RS!Lines(name)
    BY <2>2, <2>7, <2>10, <2>11, <2>13, SameResults DEF RS!Lines, RS!Look
  <2>15. StepOf(name)
    BY <2>14 DEF StepOf, RS!Reading
  <2>16. QED BY <1>2, <2>13, <2>15, NextOf
<1>5. QED BY <1>1, <1>3, <1>4 DEF Lines

\* CHARIN is a slice, from the position given or the one it was left at.
LEMMA CharInImplements ==
  ASSUME Sound(m), Modal(m), NEW name \in Names, NEW start \in Starts, NEW count \in Counts,
         call' = <<"charin", name, start, count>>, CharIn(name, start, count)
  PROVE  RS!Step /\ Modal(m)'
<1>1. PICK r : r = ensureRead(m, name)
  OBVIOUS
<1>2. call'[1] = "charin" /\ call'[2] = name /\ start \in Nat /\ count \in Nat
  BY StartsAreNat
<1>3. CASE NotFile(r)
  BY <1>1, <1>2, <1>3, RefusesRead
<1>4. CASE /\ IsFile(r)
           /\ \E sb \in {r.m.ent[r.id].sb} :
                \E got \in {GetUntil(IF start > 0 THEN SeekIn(sb, start - 1) ELSE sb, count, EOF)} :
                  Done([r.m EXCEPT !.ent[r.id].sb = got.s, !.ent[r.id].byLine = FALSE], Got(got.val))
  <2>1. PICK e : e = r.m.ent[r.id]
    OBVIOUS
  <2>2. /\ r.id = name /\ Readable(m, r.m, name, RdIn(m, name)) /\ Frame(r.m) /\ name \in Files(r.m)
        /\ EntryTyped(e) /\ Good(e.sb) /\ e = r.m.ent[name]
        /\ Content(e.sb) = FileIn(m, name) /\ ReadPos(e.sb) = RdIn(m, name) /\ RdIn(m, name) \in Nat
        /\ FileView[name] = FileIn(m, name) /\ RS!Rd(name) = RdIn(m, name)
    <3>1. IsFile(r)
      BY <1>4, Zenon
    <3>2. QED BY <1>1, <2>1, <3>1, ReadFrom
  <2>3. PICK at, got : /\ at = IF start > 0 THEN SeekIn(e.sb, start - 1) ELSE e.sb
                       /\ got = GetUntil(at, count, EOF)
                       /\ Done([r.m EXCEPT !.ent[name].sb = got.s, !.ent[name].byLine = FALSE], Got(got.val))
    BY <1>4, <2>1, <2>2
  <2>4. PICK pos : pos = IF start > 0 THEN start - 1 ELSE RS!Rd(name)
    OBVIOUS
  <2>5. Good(at) /\ Content(at) = FileIn(m, name) /\ ReadPos(at) = pos
    <3>1. CASE start > 0
      <4>1. start - 1 \in Nat /\ start - 1 # End
        BY <1>2, <3>1 DEF End
      <4>2. at = SeekIn(e.sb, start - 1) /\ pos = start - 1
        BY <2>3, <2>4, <3>1
      <4>3. QED BY <2>2, <4>1, <4>2, SeekInAs
    <3>2. CASE ~(start > 0)
      BY <2>2, <2>3, <2>4, <3>2
    <3>3. QED BY <3>1, <3>2
  <2>6. PICK val : val = RS!Slice(FileView[name], pos, count)
    OBVIOUS
  <2>7. Content(got.s) = FileIn(m, name) /\ ReadPos(got.s) = pos + Len(val) /\ got.val = val
    <3>1. /\ Settled(at, got.s) /\ got.val = RS!Slice(Content(at), ReadPos(at), count)
          /\ ReadPos(got.s) = ReadPos(at) + Len(got.val)
      BY <1>2, <2>3, <2>5, CharsTaken
    <3>2. QED BY <2>2, <2>5, <2>6, <3>1 DEF Settled
  <2>8. PICK sb : sb = got.s
    OBVIOUS
  <2>9. PICK t : t = [r.m EXCEPT !.ent[name].sb = sb, !.ent[name].byLine = FALSE]
    OBVIOUS
  <2>10. Moved(r.m, t, name, sb)
    BY <2>2, <2>9, StreamMoved
  <2>11. PICK res : res = Got(val)
    OBVIOUS
  <2>12. Done(t, res)
    BY <2>3, <2>7, <2>8, <2>9, <2>11
  <2>13. /\ RS!ReadAt(name, ReadPos(sb)) /\ FileView' = FileView /\ (m.ro)' = m.ro /\ Modal(m)'
         /\ ret' = res
    BY <2>2, <2>7, <2>8, <2>10, <2>12, ReadTo
  <2>14. RS!CharIn(name, start, count)
    <3>1. RS!ReadAt(name, pos + Len(val)) /\ ret' = RS!Got(val)
      BY <2>7, <2>8, <2>11, <2>13, SameResults
    <3>2. QED BY <2>4, <2>6, <2>13, <3>1 DEF RS!CharIn
  <2>15. StepOf(name)
    BY <2>14 DEF StepOf, RS!Reading
  <2>16. QED BY <1>2, <2>13, <2>15, NextOf
<1>5. QED BY <1>1, <1>3, <1>4 DEF CharIn

\* No line is taken where there is none.
LEMMA NoLineLeft ==
  ASSUME NEW f \in Seq(Stored), NEW pos \in Nat, pos >= Len(f)
  PROVE  LET val == RS!Slice(f, pos, RS!LineLength(f, pos)) IN val = << >> /\ RS!ChompLine(val) = << >> /\ Len(val) = 0
<1>1. RS!LineLength(f, pos) = 0
  BY DEF RS!LineLength
<1>2. PICK v \in Seq(Stored) : v = << >> /\ Len(v) = 0
  BY EmptySeq
<1>3. RS!Slice(f, pos, 0) = v
  <2>1. Len(f) \in Nat
    BY LenProperties
  <2>2. Len(v) = IF pos + 0 < Len(f) THEN 0 ELSE IF pos < Len(f) THEN Len(f) - pos ELSE 0
    BY <1>2, <2>1
  <2>3. \A k \in 1..Len(v) : v[k] = f[pos + k]
    BY <1>2
  <2>4. 0 \in Nat
    OBVIOUS
  <2>5. QED BY <2>2, <2>3, <2>4, SliceIs
<1>4. RS!ChompLine(v) = << >>
  BY <1>2 DEF RS!ChompLine
<1>5. QED BY <1>1, <1>2, <1>3, <1>4

\* The entry after a line was taken.
LEMMA LineMoved ==
  ASSUME NEW s, Frame(s), NEW name \in Files(s), NEW e, e = s.ent[name], EntryTyped(e), NEW sb, NEW l,
         NEW t, t = [s EXCEPT !.ent[name].sb = sb, !.ent[name].line = l]
  PROVE  Moved(s, t, name, sb)
<1>1. Moved(s, [s EXCEPT !.ent[name].sb = sb, !.ent[name].line = l], name, sb)
  BY StreamMoved
<1>2. QED BY <1>1

\* Taking a line moves the read position past it.
LEMMA TakeLineReads ==
  ASSUME Sound(m), Modal(m), NEW name \in Names, NEW r, NEW s, s = r.m, r.id = name, NEW p, Readable(m, s, name, p),
         Frame(s), name \in Files(s), NEW e, e = s.ent[name], EntryTyped(e),
         NEW at, Good(at.sb), Content(at.sb) = FileIn(m, name), NEW count, TakeLine(r, at, count),
         NEW pos, pos = ReadPos(at.sb), NEW k \in {0, 1}, count = k \/ (count = 0 /\ pos >= Len(Content(at.sb)))
  PROVE  RS!LineFrom(name, pos, k) /\ (m.ro)' = m.ro /\ Modal(m)'
<1>1. PICK f \in Seq(Stored) : f = Content(at.sb)
  BY ContentGood
<1>2. PICK val : val = RS!Slice(f, pos, RS!LineLength(f, pos))
  OBVIOUS
<1>3. FileView[name] = f /\ pos \in Nat
  BY <1>1, ViewNow, Pointers
<1>4. PICK sb, l, res : /\ Done([s EXCEPT !.ent[name].sb = sb, !.ent[name].line = l], res)
                        /\ Content(sb) = f /\ ReadPos(sb) = (IF k = 0 THEN pos ELSE pos + Len(val))
                        /\ res = Got(IF k = 0 THEN << >> ELSE RS!ChompLine(val))
  <2>1. CASE count = 0
    <3>1. Done([s EXCEPT !.ent[name].sb = at.sb, !.ent[name].line = at.line], Got(<< >>))
      <4>1. count # 1
        BY <2>1
      <4>2. Done([r.m EXCEPT !.ent[r.id].sb = at.sb, !.ent[r.id].line = at.line], Got(<< >>))
        BY <4>1, Zenon DEF TakeLine
      <4>3. QED BY <4>2
    <3>2. k = 1 => RS!ChompLine(val) = << >> /\ Len(val) = 0
      <4>1. SUFFICES ASSUME k = 1 PROVE RS!ChompLine(val) = << >> /\ Len(val) = 0
        OBVIOUS
      <4>2. pos >= Len(f)
        BY <1>1, <2>1, <4>1
      <4>3. QED BY <1>2, <1>3, <4>2, NoLineLeft
    <3>3. ReadPos(at.sb) = (IF k = 0 THEN pos ELSE pos + Len(val))
      BY <1>3, <3>2
    <3>4. << >> = IF k = 0 THEN << >> ELSE RS!ChompLine(val)
      BY <3>2
    <3>5. Content(at.sb) = f
      BY <1>1
    <3>6. QED BY <3>1, <3>3, <3>4, <3>5
  <2>2. CASE count = 1
    <3>1. k = 1
      BY <2>2
    <3>2. PICK got, l : /\ got = readLine(at.sb)
                        /\ Done([s EXCEPT !.ent[name].sb = got.s, !.ent[name].line = l], Got(got.val))
      <4>1. count # 0
        BY <2>2
      <4>2. PICK got \in {readLine(at.sb)} :
              Done([r.m EXCEPT !.ent[r.id].sb = got.s,
                               !.ent[r.id].line = IF got.eof THEN at.line ELSE at.line + 1],
                   Got(got.val))
        BY <4>1, Zenon DEF TakeLine
      <4>3. PICK l : l = IF got.eof THEN at.line ELSE at.line + 1
        OBVIOUS
      <4>4. got = readLine(at.sb) /\ Done([s EXCEPT !.ent[name].sb = got.s, !.ent[name].line = l], Got(got.val))
        BY <4>2, <4>3
      <4>5. QED BY <4>4
    <3>3. /\ Settled(at.sb, got.s) /\ got.val = RS!ChompLine(val) /\ ReadPos(got.s) = pos + Len(val)
      BY <1>1, <1>2, <3>2, LineTaken
    <3>4. Content(got.s) = f
      BY <1>1, <3>3 DEF Settled
    <3>5. /\ ReadPos(got.s) = (IF k = 0 THEN pos ELSE pos + Len(val))
          /\ Got(got.val) = Got(IF k = 0 THEN << >> ELSE RS!ChompLine(val))
      BY <3>1, <3>3
    <3>6. QED BY <3>2, <3>4, <3>5, Zenon
  <2>3. QED BY <2>1, <2>2
<1>5. PICK t : t = [s EXCEPT !.ent[name].sb = sb, !.ent[name].line = l]
  OBVIOUS
<1>6. Moved(s, t, name, sb)
  BY <1>5, LineMoved
<1>7. Content(sb) = FileIn(m, name) /\ Done(t, res)
  BY <1>1, <1>4, <1>5
<1>8. /\ RS!ReadAt(name, ReadPos(sb)) /\ FileView' = FileView /\ (m.ro)' = m.ro /\ Modal(m)' /\ ret' = res
  BY <1>6, <1>7, ReadTo
<1>9. RS!ReadAt(name, IF k = 0 THEN pos ELSE pos + Len(val)) /\ ret' = RS!Got(IF k = 0 THEN << >> ELSE RS!ChompLine(val))
  BY <1>4, <1>8, SameResults
<1>10. val = RS!Slice(FileView[name], pos, RS!LineLength(FileView[name], pos))
  BY <1>2, <1>3
<1>11. QED BY <1>8, <1>9, <1>10, Zenon DEF RS!LineFrom

\* LINEIN is the line at the read position, or somewhere when a line number is given.
LEMMA LineInImplements ==
  ASSUME Sound(m), Modal(m), NEW name \in Names, NEW line \in Starts, NEW count \in {0, 1},
         call' = <<"linein", name, line, count>>, LineIn(name, line, count)
  PROVE  RS!Step /\ Modal(m)'
<1>1. PICK r : r = ensureRead(m, name)
  OBVIOUS
<1>2. call'[1] = "linein" /\ call'[2] = name /\ line \in Nat
  BY StartsAreNat
<1>3. PICK e : e = r.m.ent[r.id]
  OBVIOUS
<1>4. CASE NotFile(r)
  BY <1>1, <1>2, <1>4, RefusesRead
<1>5. PICK s : s = r.m
  OBVIOUS
<1>6. ASSUME IsFile(r)
      PROVE  /\ r.id = name /\ Readable(m, s, name, RdIn(m, name)) /\ Frame(s) /\ name \in Files(s)
             /\ EntryTyped(e) /\ Good(e.sb) /\ e.line \in Nat /\ e = s.ent[name]
             /\ Content(e.sb) = FileIn(m, name) /\ ReadPos(e.sb) = RdIn(m, name) /\ RdIn(m, name) \in Nat
             /\ FileView[name] = FileIn(m, name) /\ RS!Rd(name) = RdIn(m, name)
  BY <1>1, <1>3, <1>5, <1>6, ReadFrom
<1>7. CASE IsFile(r) /\ line = 0 /\ TakeLine(r, [sb |-> e.sb, line |-> e.line], count)
  <2>1. PICK at : at = [sb |-> e.sb, line |-> e.line]
    OBVIOUS
  <2>2. at.sb = e.sb /\ TakeLine(r, at, count)
    BY <1>7, <2>1
  <2>3. PICK pos : pos = ReadPos(at.sb)
    OBVIOUS
  <2>4. RS!LineFrom(name, pos, count) /\ (m.ro)' = m.ro /\ Modal(m)'
    <3>1. Good(at.sb) /\ Content(at.sb) = FileIn(m, name)
      BY <1>6, <1>7, <2>2
    <3>2. QED BY <1>5, <1>6, <1>7, <2>2, <2>3, <3>1, TakeLineReads
  <2>5. RS!LineIn(name, count)
    BY <1>6, <1>7, <2>2, <2>3, <2>4 DEF RS!LineIn
  <2>6. StepOf(name)
    BY <1>7, <2>5 DEF StepOf, RS!Reading
  <2>7. QED BY <1>2, <2>4, <2>6, NextOf
<1>8. CASE /\ IsFile(r) /\ line > 0
           /\ \E at \in {gotoLine(e.sb, e.line, line, FALSE)} :
                \E here \in {Peek(at.sb)} :
                  TakeLine(r, [sb |-> here.s, line |-> at.line], IF here.c = EOF THEN 0 ELSE count)
  <2>1. PICK to, here, n : /\ to = gotoLine(e.sb, e.line, line, FALSE) /\ here = Peek(to.sb)
                           /\ n = (IF here.c = EOF THEN 0 ELSE count)
                           /\ TakeLine(r, [sb |-> here.s, line |-> to.line], n)
    BY <1>8
  <2>2. PICK at : at = [sb |-> here.s, line |-> to.line]
    OBVIOUS
  <2>3. at.sb = here.s /\ TakeLine(r, at, n)
    BY <2>1, <2>2
  <2>4. /\ Good(to.sb) /\ Content(to.sb) = Content(e.sb)
        /\ ReadPos(to.sb) \in {ReadPos(e.sb)} \union 0..Len(Content(e.sb))
    BY <1>2, <1>6, <1>8, <2>1, GotoIn DEF Settled
  <2>5. ReadAs(to.sb, here, 0) /\ ReadPos(to.sb) \in Nat
    BY <2>1, <2>4, PeekAs, Pointers
  <2>6. /\ Good(at.sb) /\ Content(at.sb) = Content(to.sb) /\ ReadPos(at.sb) = ReadPos(to.sb)
        /\ here.c = EOF => ReadPos(to.sb) >= Len(Content(to.sb))
    BY <2>3, <2>5 DEF ReadAs, Settled
  <2>7. PICK pos : pos = ReadPos(at.sb)
    OBVIOUS
  <2>8. n = count \/ (n = 0 /\ pos >= Len(Content(at.sb)))
    BY <2>1, <2>6, <2>7
  <2>9. Content(at.sb) = FileIn(m, name)
    BY <1>6, <1>8, <2>4, <2>6
  <2>10. RS!LineFrom(name, pos, count) /\ (m.ro)' = m.ro /\ Modal(m)'
    BY <1>5, <1>6, <1>8, <2>3, <2>6, <2>7, <2>8, <2>9, TakeLineReads
  <2>11. pos \in {RS!Rd(name)} \union 0..Len(FileView[name])
    BY <1>6, <1>8, <2>4, <2>6, <2>7
  <2>12. RS!CanRead(name)
    BY <2>10 DEF RS!LineFrom, RS!ReadAt
  <2>13. RS!LineInAt(name, count)
    BY <2>10, <2>11, <2>12 DEF RS!LineInAt
  <2>14. StepOf(name)
    <3>1. line # 0
      BY <1>2, <1>8
    <3>2. QED BY <2>13, <3>1 DEF StepOf, RS!Reading
  <2>15. QED BY <1>2, <2>10, <2>14, NextOf
<1>9. QED BY <1>1, <1>3, <1>4, <1>7, <1>8, Zenon DEF LineIn

-----------------------------------------------------------------------------
(***************************************************************************)
(* Those that write.                                                       *)
(***************************************************************************)
\* The bytes put over the content are what RexxStreams calls a patch.
LEMMA PatchIs ==
  ASSUME NEW f, NEW pos, NEW str \in Seq(Bytes), Len(str) # 0
  PROVE  RS!Patch(f, pos, str) = Over(f, pos, str, Len(str))
<1>1. "hole" = Hole
  BY DEF Hole
<1>2. QED BY <1>1, Zenon DEF RS!Patch, Over

\* The entry that is written.
LEMMA WriteFrom ==
  ASSUME Sound(m), Modal(m), NEW name \in Names, NEW r, r = ensureWrite(m, name), IsFile(r),
         NEW e, e = r.m.ent[r.id]
  PROVE  /\ r.id = name /\ Writable(m, r.m, name, TextIn(m, name), WrIn(m, name)) /\ Frame(r.m)
         /\ name \in Files(r.m) /\ EntryTyped(e) /\ Good(e.sb) /\ e.line \in Nat /\ e = r.m.ent[name]
         /\ Content(e.sb) = TextIn(m, name) /\ WritePos(e.sb) = WrIn(m, name) /\ WrIn(m, name) \in Nat
         /\ RS!Wr(name) = WrIn(m, name)
<1>1. r.id = name /\ Writable(m, r.m, name, TextIn(m, name), WrIn(m, name))
  BY EnsureWriteSeen
<1>2. Nearly(r.m, r.id)
  BY <1>1, NamesKnown, EnsureWriteSound
<1>3. Frame(r.m) /\ name \in Files(r.m) /\ EntryTyped(e)
  BY <1>1, <1>2 DEF Nearly
<1>4. Good(e.sb) /\ e.line \in Nat /\ WritePos(e.sb) \in Nat
  BY <1>3, EntryFields
<1>5. Content(e.sb) = TextIn(m, name) /\ WritePos(e.sb) = WrIn(m, name)
  BY <1>1 DEF Writable
<1>6. RS!Wr(name) = WrIn(m, name)
  BY ViewNow
<1>7. QED BY <1>1, <1>3, <1>4, <1>5, <1>6

\* What is written over the file, and where that leaves the stream.
LEMMA PutAllOver ==
  ASSUME NEW s, Good(s), ~NullWrite(s), NEW str \in Seq(Bytes), str # << >>, NEW t, t = PutAll(s, str),
         NEW f, f = Content(s), NEW pos, pos = WritePos(s)
  PROVE  /\ Good(t) /\ Content(t) = RS!Patch(f, pos, str) /\ WritePos(t) = pos + Len(str)
         /\ Content(Sync(t)) = RS!Patch(f, pos, str)
         /\ WritePos(Sync(t)) \in {pos + Len(str)} \union (pos + Len(str))..Len(RS!Patch(f, pos, str))
<1>1. Len(str) # 0 /\ Len(str) \in Nat
  BY EmptySeq
<1>2. Good(t) /\ Content(t) = Over(f, pos, str, Len(str)) /\ WritePos(t) = pos + Len(str)
  BY PutAllAs
<1>3. Content(t) = RS!Patch(f, pos, str)
  BY <1>1, <1>2, PatchIs
<1>4. PICK u : u = Sync(t)
  OBVIOUS
<1>5. Content(u) = Content(t) /\ WritePos(u) = t.posPut + Waiting(t)
  BY <1>2, <1>4, SyncSettled DEF Settled
<1>6. WritePos(u) = Top(t)
  BY <1>5 DEF Top
<1>7. Top(t) \in Nat /\ WritePos(t) \in Nat /\ WritePos(t) <= Top(t) /\ Len(Content(t)) \in Nat
  BY <1>2, Waits, ContentGood
<1>8. Top(t) = WritePos(t) \/ Top(t) <= Len(Content(t))
  BY <1>2, TopInFile
<1>9. Top(t) \in {WritePos(t)} \union WritePos(t)..Len(Content(t))
  BY <1>7, <1>8
<1>10. QED BY <1>2, <1>3, <1>4, <1>5, <1>6, <1>9

\* The entry after a write.
LEMMA WriteTo ==
  ASSUME Sound(m), Modal(m), NEW name \in Names, NEW s, NEW p, NEW text, Writable(m, s, name, text, p),
         NEW t, NEW sb, Moved(s, t, name, sb), Done(t, None), NEW pos, NEW str, NEW new,
         new = IF str = << >> THEN TextIn(m, name) ELSE RS!Patch(TextIn(m, name), pos, str),
         Content(sb) = new,
         WritePos(sb) = pos + Len(str) \/ (str # << >> /\ WritePos(sb) \in (pos + Len(str))..Len(new))
  PROVE  RS!WriteAt(name, pos, str) /\ (m.ro)' = m.ro /\ Modal(m)'
<1>1. t = m' /\ ret' = None
  BY Zenon DEF Done
<1>2. PICK to : to = WritePos(sb)
  OBVIOUS
<1>3. Writable(m, t, name, new, to)
  BY <1>2, WriteMoved
<1>4. RS!WriteAt(name, pos, str) /\ (m.ro)' = m.ro /\ Modal(t)
  BY <1>1, <1>2, <1>3, StepWrites
<1>5. QED BY <1>1, <1>4

\* A write through null is a crash of a stream that was written before, and changes nothing
\* RexxStreams sees.
LEMMA CrashImplements ==
  ASSUME Sound(m), Modal(m), NEW name \in Names, NEW r, r = ensureWrite(m, name), IsFile(r),
         NullWrite(r.m.ent[name].sb), Crash, NEW start \in Starts, NEW str \in Strings,
         \/ call' = <<"charout", name, start, str>> /\ str # << >>
         \/ call' = <<"lineout", name, start, str>>
  PROVE  RS!Step /\ Modal(m)'
<1>1. name \in Files(m) /\ "WRITE_GRANTED" \in m.ent[name].mode
  BY EnsureWriteGranted
<1>2. ModeOK(m.ent[name].mode, name \in m.ro) /\ WriteAt(m.ent[name]) \in Nat
  BY <1>1, OpenSeen
<1>3. RS!IsOpen(name) /\ RS!CanWrite(name) /\ WriteView[name] # RS!Unset
  <2>1. name \notin m.ro
    BY <1>1, <1>2 DEF ModeOK
  <2>2. WriteView[name] = WriteAt(m.ent[name])
    BY ViewNow
  <2>3. WriteView[name] # RS!Unset
    BY <1>2, <2>2 DEF RS!Unset
  <2>4. QED BY <1>1, <2>1, <2>3, ViewNow
<1>4. PICK t : t = m'
  OBVIOUS
<1>5. t = m /\ ret' = RS!Result("crash")
  BY <1>4, SameResults DEF Crash
<1>6. UNCHANGED <<FileView, ReadView, WriteView>> /\ (m.ro)' = m.ro /\ Modal(t)
  BY <1>4, <1>5, NothingSame, StepSame
<1>7. RS!Crash(name)
  BY <1>3, <1>5, <1>6, Zenon DEF RS!Crash
<1>8. call'[2] = name
  OBVIOUS
<1>9. RS!Step
  BY <1>6, <1>7, <1>8, NextOf DEF StepOf
<1>10. QED BY <1>4, <1>6, <1>9

\* CHAROUT patches the file at the position given, or at the one it was left at.
LEMMA CharOutImplements ==
  ASSUME Sound(m), Modal(m), NEW name \in Names, NEW start \in Starts, NEW str \in Strings,
         call' = <<"charout", name, start, str>>, CharOut(name, str, start)
  PROVE  RS!Step /\ Modal(m)'
<1>1. PICK r : r = ensureWrite(m, name)
  OBVIOUS
<1>2. call'[1] = "charout" /\ call'[2] = name /\ start \in Nat /\ str \in Seq(Bytes)
  BY StartsAreNat, StringsGood
<1>3. CASE NotFile(r)
  BY <1>1, <1>2, <1>3, RefusesWrite
<1>4. CASE /\ IsFile(r)
           /\ \E sb \in {IF start > 0 THEN SeekOut(r.m.ent[r.id].sb, start - 1)
                        ELSE r.m.ent[r.id].sb} :
                IF str # << >> /\ NullWrite(sb) THEN Crash
                ELSE Done([r.m EXCEPT !.ent[r.id].sb = IF str = << >> THEN sb ELSE Sync(PutAll(sb, str)),
                                      !.ent[r.id].byLine = FALSE], None)
  <2>1. PICK e : e = r.m.ent[r.id]
    OBVIOUS
  <2>2. /\ r.id = name /\ Writable(m, r.m, name, TextIn(m, name), WrIn(m, name)) /\ Frame(r.m)
        /\ name \in Files(r.m) /\ EntryTyped(e) /\ Good(e.sb) /\ e = r.m.ent[name]
        /\ Content(e.sb) = TextIn(m, name) /\ WritePos(e.sb) = WrIn(m, name) /\ WrIn(m, name) \in Nat
        /\ RS!Wr(name) = WrIn(m, name)
    <3>1. IsFile(r)
      BY <1>4, Zenon
    <3>2. QED BY <1>1, <2>1, <3>1, WriteFrom
  <2>3. PICK at, sb : /\ at = IF start > 0 THEN SeekOut(e.sb, start - 1) ELSE e.sb
                      /\ sb = IF str = << >> THEN at ELSE Sync(PutAll(at, str))
                      /\ IF str # << >> /\ NullWrite(at) THEN Crash
                         ELSE Done([r.m EXCEPT !.ent[name].sb = sb, !.ent[name].byLine = FALSE], None)
    <3>1. PICK at \in {IF start > 0 THEN SeekOut(r.m.ent[r.id].sb, start - 1) ELSE r.m.ent[r.id].sb} :
            IF str # << >> /\ NullWrite(at) THEN Crash
            ELSE Done([r.m EXCEPT !.ent[r.id].sb = IF str = << >> THEN at ELSE Sync(PutAll(at, str)),
                                  !.ent[r.id].byLine = FALSE], None)
      BY <1>4, Zenon
    <3>2. PICK sb : sb = IF str = << >> THEN at ELSE Sync(PutAll(at, str))
      OBVIOUS
    <3>3. IF str # << >> /\ NullWrite(at) THEN Crash
          ELSE Done([r.m EXCEPT !.ent[name].sb = sb, !.ent[name].byLine = FALSE], None)
      BY <2>2, <3>1, <3>2, Zenon
    <3>4. at = IF start > 0 THEN SeekOut(e.sb, start - 1) ELSE e.sb
      BY <2>1, <3>1
    <3>5. QED BY <3>2, <3>3, <3>4, Zenon
  <2>4. PICK pos : pos = IF start > 0 THEN start - 1 ELSE RS!Wr(name)
    OBVIOUS
  <2>5. Good(at) /\ Content(at) = TextIn(m, name) /\ WritePos(at) = pos /\ pos \in Nat
    <3>1. CASE start > 0
      <4>1. start - 1 \in Nat /\ start - 1 # End
        BY <1>2, <3>1 DEF End
      <4>2. at = SeekOut(e.sb, start - 1) /\ pos = start - 1
        BY <2>3, <2>4, <3>1
      <4>3. QED BY <2>2, <4>1, <4>2, SeekOutAs
    <3>2. CASE ~(start > 0)
      BY <2>2, <2>3, <2>4, <3>2
    <3>3. QED BY <3>1, <3>2
  <2>6. CASE str # << >> /\ NullWrite(at)
    <3>1. Crash
      BY <2>3, <2>6, Zenon
    <3>2. NullWrite(e.sb)
      <4>1. start > 0 => start - 1 \in Nat \union {End}
        BY <1>2
      <4>2. QED BY <2>2, <2>3, <2>6, <4>1, SeekOutNull
    <3>3. QED BY <1>1, <1>4, <2>2, <2>6, <3>1, <3>2, CrashImplements
  <2>7. CASE ~(str # << >> /\ NullWrite(at))
    <3>0. Done([r.m EXCEPT !.ent[name].sb = sb, !.ent[name].byLine = FALSE], None)
      BY <2>3, <2>7, Zenon
    <3>6. PICK new : new = IF str = << >> THEN TextIn(m, name) ELSE RS!Patch(TextIn(m, name), pos, str)
      OBVIOUS
    <3>7. /\ Content(sb) = new
          /\ WritePos(sb) = pos + Len(str) \/ (str # << >> /\ WritePos(sb) \in (pos + Len(str))..Len(new))
      <4>1. CASE str = << >>
        <5>1. sb = at /\ new = TextIn(m, name) /\ Len(str) = 0
          BY <2>3, <3>6, <4>1
        <5>2. pos = pos + Len(str)
          BY <2>5, <5>1
        <5>3. QED BY <2>5, <5>1, <5>2
      <4>2. CASE str # << >>
        <5>1. PICK t : t = PutAll(at, str)
          OBVIOUS
        <5>2. sb = Sync(t) /\ new = RS!Patch(TextIn(m, name), pos, str)
          BY <2>3, <3>6, <4>2, <5>1
        <5>3. /\ Content(Sync(t)) = RS!Patch(TextIn(m, name), pos, str)
              /\ WritePos(Sync(t)) \in {pos + Len(str)} \union
                                         (pos + Len(str))..Len(RS!Patch(TextIn(m, name), pos, str))
          BY <1>2, <2>5, <2>7, <4>2, <5>1, PutAllOver
        <5>4. QED BY <4>2, <5>2, <5>3
      <4>3. QED BY <4>1, <4>2
    <3>8. PICK t : t = [r.m EXCEPT !.ent[name].sb = sb, !.ent[name].byLine = FALSE]
      OBVIOUS
    <3>9. Moved(r.m, t, name, sb) /\ Done(t, None)
      <4>1. Moved(r.m, t, name, sb)
        BY <2>2, <3>8, StreamMoved
      <4>2. QED BY <3>0, <3>8, <4>1
    <3>10. RS!WriteAt(name, pos, str) /\ (m.ro)' = m.ro /\ Modal(m)'
      BY <2>2, <3>6, <3>7, <3>9, WriteTo
    <3>11. RS!CharOut(name, str, start)
      BY <2>4, <3>10 DEF RS!CharOut
    <3>12. StepOf(name)
      BY <3>11 DEF StepOf, RS!Writing
    <3>13. QED BY <1>2, <3>10, <3>12, NextOf
  <2>8. QED BY <2>6, <2>7
<1>5. PICK q \in {ensureWrite(m, name)} :
        \/ NotFile(q)
        \/ /\ IsFile(q)
           /\ \E sb \in {IF start > 0 THEN SeekOut(q.m.ent[q.id].sb, start - 1)
                        ELSE q.m.ent[q.id].sb} :
                IF str # << >> /\ NullWrite(sb) THEN Crash
                ELSE Done([q.m EXCEPT !.ent[q.id].sb = IF str = << >> THEN sb ELSE Sync(PutAll(sb, str)),
                                      !.ent[q.id].byLine = FALSE], None)
  BY Zenon DEF CharOut
<1>6. q = r
  BY <1>1, <1>5
<1>7. QED BY <1>3, <1>4, <1>5, <1>6, Zenon

\* What LineOut does with the entry it found.
LineWritten(r, str, line) ==
  \E e \in {r.m.ent[r.id]} :
    \E at \in {IF line > 0 THEN gotoLine(e.sb, e.line, line, TRUE) ELSE [sb |-> e.sb, line |-> e.line]} :
      IF NullWrite(at.sb) THEN Crash
      ELSE Done([r.m EXCEPT !.ent[r.id].sb = PutAll(at.sb, Append(str, Newline)),
                            !.ent[r.id].line = at.line + 1, !.ent[r.id].byLine = FALSE], None)

\* LINEOUT patches it with a line.
LEMMA LineOutImplements ==
  ASSUME Sound(m), Modal(m), NEW name \in Names, NEW line \in Starts, NEW str \in Strings,
         call' = <<"lineout", name, line, str>>, LineOut(name, str, line)
  PROVE  RS!Step /\ Modal(m)'
<1>1. PICK r : r = ensureWrite(m, name)
  OBVIOUS
<1>2. call'[1] = "lineout" /\ call'[2] = name /\ line \in Nat /\ str \in Seq(Bytes)
  BY StartsAreNat, StringsGood
<1>3. CASE NotFile(r)
  BY <1>1, <1>2, <1>3, RefusesWrite
<1>4. CASE IsFile(r) /\ LineWritten(r, str, line)
  <2>1. PICK e : e = r.m.ent[r.id]
    OBVIOUS
  <2>2. /\ r.id = name /\ Writable(m, r.m, name, TextIn(m, name), WrIn(m, name)) /\ Frame(r.m)
        /\ name \in Files(r.m) /\ EntryTyped(e) /\ Good(e.sb) /\ e.line \in Nat /\ e = r.m.ent[name]
        /\ Content(e.sb) = TextIn(m, name) /\ WritePos(e.sb) = WrIn(m, name) /\ WrIn(m, name) \in Nat
        /\ RS!Wr(name) = WrIn(m, name)
    <3>1. IsFile(r)
      BY <1>4, Zenon
    <3>2. QED BY <1>1, <2>1, <3>1, WriteFrom
  <2>3. PICK at, l, sb : /\ at = IF line > 0 THEN gotoLine(e.sb, e.line, line, TRUE).sb ELSE e.sb
                         /\ sb = PutAll(at, Append(str, Newline))
                         /\ IF NullWrite(at) THEN Crash
                            ELSE Done([r.m EXCEPT !.ent[name].sb = sb, !.ent[name].line = l,
                                                  !.ent[name].byLine = FALSE], None)
    <3>1. PICK to : /\ to = IF line > 0 THEN gotoLine(e.sb, e.line, line, TRUE)
                            ELSE [sb |-> e.sb, line |-> e.line]
                    /\ IF NullWrite(to.sb) THEN Crash
                       ELSE Done([r.m EXCEPT !.ent[r.id].sb = PutAll(to.sb, Append(str, Newline)),
                                             !.ent[r.id].line = to.line + 1, !.ent[r.id].byLine = FALSE], None)
      BY <1>4, <2>1, Zenon DEF LineWritten
    <3>2. PICK l : l = to.line + 1
      OBVIOUS
    <3>3. to.sb = IF line > 0 THEN gotoLine(e.sb, e.line, line, TRUE).sb ELSE e.sb
      BY <3>1
    <3>4. IF NullWrite(to.sb) THEN Crash
          ELSE Done([r.m EXCEPT !.ent[name].sb = PutAll(to.sb, Append(str, Newline)), !.ent[name].line = l,
                                !.ent[name].byLine = FALSE], None)
      BY <2>2, <3>1, <3>2, Zenon
    <3>5. QED BY <3>3, <3>4, Zenon
  <2>4. PICK pos : pos = WritePos(at)
    OBVIOUS
  <2>5. /\ Good(at) /\ Content(at) = TextIn(m, name)
        /\ line > 0 => pos \in {0} \union RS!Wr(name)..(RS!Wr(name) + Len(TextIn(m, name)))
        /\ line = 0 => pos = RS!Wr(name)
    <3>1. CASE line > 0
      <4>1. PICK to : to = gotoLine(e.sb, e.line, line, TRUE)
        OBVIOUS
      <4>2. /\ Good(to.sb) /\ Content(to.sb) = Content(e.sb)
            /\ WritePos(to.sb) \in {0} \union WritePos(e.sb)..(WritePos(e.sb) + Len(Content(e.sb)))
        BY <1>2, <2>2, <4>1, GotoOut
      <4>3. at = to.sb /\ line # 0
        BY <1>2, <2>3, <3>1, <4>1
      <4>4. QED BY <2>2, <2>4, <4>2, <4>3
    <3>2. CASE line = 0
      BY <2>2, <2>3, <2>4, <3>2
    <3>3. QED BY <1>2, <3>1, <3>2
  <2>6. PICK put \in Seq(Bytes) : put = Append(str, Newline) /\ put # << >>
    <3>1. Newline \in Bytes
      BY StringsGood
    <3>2. Append(str, Newline) \in Seq(Bytes) /\ Len(Append(str, Newline)) = Len(str) + 1 /\ Len(str) \in Nat
      BY <1>2, <3>1, AppendProperties, LenProperties
    <3>3. Append(str, Newline) # << >>
      BY <3>2
    <3>4. QED BY <3>2, <3>3
  <2>7. CASE NullWrite(at)
    <3>1. Crash
      BY <2>3, <2>7, Zenon
    <3>2. NullWrite(e.sb)
      <4>1. CASE line > 0
        <5>1. at = gotoLine(e.sb, e.line, line, TRUE).sb
          BY <2>3, <4>1
        <5>2. QED BY <1>2, <2>2, <2>7, <5>1, GotoOutNull
      <4>2. CASE ~(line > 0)
        BY <2>3, <2>7, <4>2
      <4>3. QED BY <4>1, <4>2
    <3>3. QED BY <1>1, <1>4, <2>2, <3>1, <3>2, CrashImplements
  <2>8. CASE ~NullWrite(at)
    <3>0. Done([r.m EXCEPT !.ent[name].sb = sb, !.ent[name].line = l, !.ent[name].byLine = FALSE], None)
      BY <2>3, <2>8, Zenon
    <3>7. PICK new : new = IF put = << >> THEN TextIn(m, name) ELSE RS!Patch(TextIn(m, name), pos, put)
      OBVIOUS
    <3>8. Content(sb) = new /\ WritePos(sb) = pos + Len(put)
      <4>1. sb = PutAll(at, put) /\ new = RS!Patch(TextIn(m, name), pos, put)
        BY <2>3, <2>6, <3>7
      <4>2. PICK f : f = Content(at)
        OBVIOUS
      <4>3. Content(sb) = RS!Patch(f, pos, put) /\ WritePos(sb) = pos + Len(put)
        <5>1. Good(at) /\ put \in Seq(Bytes) /\ put # << >>
          BY <2>5, <2>6
        <5>2. sb = PutAll(at, put)
          BY <4>1
        <5>3. QED BY <2>4, <2>8, <4>2, <5>1, <5>2, PutAllOver
      <4>4. QED BY <2>5, <4>1, <4>2, <4>3
    <3>9. PICK t : t = [r.m EXCEPT !.ent[name].sb = sb, !.ent[name].line = l, !.ent[name].byLine = FALSE]
      OBVIOUS
    <3>10. Moved(r.m, t, name, sb) /\ Done(t, None)
      <4>1. Moved(r.m, t, name, sb)
        BY <2>2, <3>9, StreamMoved
      <4>2. QED BY <3>0, <3>9, <4>1
    <3>11. RS!WriteAt(name, pos, put) /\ (m.ro)' = m.ro /\ Modal(m)'
      BY <2>2, <3>7, <3>8, <3>10, WriteTo
    <3>12. CASE line = 0
      <4>1. RS!LineOut(name, str)
        BY <2>5, <2>6, <3>11, <3>12 DEF RS!LineOut
      <4>2. StepOf(name)
        BY <3>12, <4>1 DEF StepOf, RS!Writing
      <4>3. QED BY <1>2, <3>11, <4>2, NextOf
    <3>13. CASE line > 0
      <4>1. RS!CanWrite(name)
        BY <3>11 DEF RS!WriteAt
      <4>2. pos \in {0} \union RS!Wr(name)..(RS!Wr(name) + Len(FileView[name]))
        <5>1. FileView[name] = FileIn(m, name)
          BY ViewNow
        <5>2. Len(TextIn(m, name)) \in Nat
          BY <2>2, ContentGood
        <5>3. CASE FileIn(m, name) = Absent
          <6>1. Len(TextIn(m, name)) = 0 /\ Len(FileView[name]) = 1
            BY <5>1, <5>3 DEF TextIn, Absent
          <6>2. QED BY <2>2, <2>5, <3>13, <6>1
        <5>4. CASE FileIn(m, name) # Absent
          BY <2>5, <3>13, <5>1, <5>4 DEF TextIn
        <5>5. QED BY <5>3, <5>4
      <4>3. RS!LineOutAt(name, str)
        BY <2>6, <3>11, <4>1, <4>2 DEF RS!LineOutAt
      <4>4. line # 0
        BY <1>2, <3>13
      <4>5. StepOf(name)
        BY <4>3, <4>4 DEF StepOf, RS!Writing
      <4>6. QED BY <1>2, <3>11, <4>5, NextOf
    <3>14. QED BY <1>2, <3>12, <3>13
  <2>9. QED BY <2>7, <2>8
<1>5. \E q \in {ensureWrite(m, name)} : NotFile(q) \/ (IsFile(q) /\ LineWritten(q, str, line))
  BY Zenon DEF LineOut, LineWritten
<1>6. NotFile(r) \/ (IsFile(r) /\ LineWritten(r, str, line))
  BY <1>1, <1>5, Zenon
<1>7. QED BY <1>3, <1>4, <1>6, Zenon

-----------------------------------------------------------------------------
(***************************************************************************)
(* Flush, Reset and Close.                                                 *)
(***************************************************************************)
\* Finding a file that is open, or not.
LEMMA Found ==
  ASSUME Sound(m), Modal(m), NEW name \in Names, NEW r, r = Find(m, name)
  PROVE  /\ Sound(r.m) /\ Frame(r.m) /\ Modal(r.m) /\ r.m.ent = m.ent /\ r.m.disk = m.disk /\ r.m.ro = m.ro
         /\ r.m.entries = m.entries
         /\ Files(r.m) = Files(m) /\ Only(m, r.m, name)
         /\ \/ /\ r.id = name /\ r.id # NoEntry /\ IsFile(r) /\ name \in Files(m)
               /\ r.m.iCache >= 0 /\ r.m.cache = name
            \/ r.id = NoEntry /\ ~IsFile(r) /\ name \notin Files(m) /\ Same(m, r.m, name) /\ r.m = m
<1>1. name \in Known /\ NoEntry \notin Names
  BY NamesKnown, NoNameIsNoEntry
<1>2. /\ r.m.ent = m.ent /\ r.m.disk = m.disk /\ r.m.ro = m.ro /\ r.m.entries = m.entries
      /\ Files(r.m) = Files(m) /\ Modal(r.m) /\ Only(m, r.m, name)
  BY <1>1, FindSeen
<1>3. /\ Sound(r.m)
      /\ \/ r.id = name /\ name \in Range(r.m.entries) /\ r.m.iCache >= 0 /\ r.m.cache = name
         \/ r.id = NoEntry /\ r.m = m /\ name \notin Range(m.entries)
  BY <1>1, FindSound
<1>4. Same(m, m, name)
  BY NothingSame
<1>5. Frame(r.m)
  BY <1>3 DEF Sound
<1>6. CASE r.id = name /\ name \in Range(r.m.entries) /\ r.m.iCache >= 0 /\ r.m.cache = name
  <2>1. name \in Files(m) /\ IsFile(r) /\ r.id # NoEntry
    BY <1>1, <1>2, <1>6 DEF Files, IsFile
  <2>2. QED BY <1>2, <1>3, <1>5, <1>6, <2>1
<1>7. CASE r.id = NoEntry /\ r.m = m /\ name \notin Range(m.entries)
  <2>1. name \notin Files(m) /\ ~IsFile(r)
    BY <1>1, <1>7 DEF Files, IsFile
  <2>2. QED BY <1>2, <1>3, <1>4, <1>5, <1>7, <2>1
<1>8. QED BY <1>3, <1>6, <1>7

\* Flush and Reset do nothing to a file that is not open.
LEMMA NotFound ==
  ASSUME Sound(m), Modal(m), NEW name \in Names, NEW r, r = Find(m, name), NotFile(r), call'[2] = name,
         call'[1] \in {"flush", "reset"}
  PROVE  RS!Step /\ Modal(m)'
<1>1. ~IsFile(r)
  BY Zenon DEF NotFile
<1>2. r.id = NoEntry /\ name \notin Files(m) /\ Same(m, r.m, name)
  BY <1>1, Found
<1>3. ~RS!IsOpen(name)
  BY <1>2, ViewNow
<1>4. QED BY <1>2, <1>3, Refuses

\* The stream of a file that is open is replaced, by one that holds the same; the position
\* that is written may be moved to the end of what waits.
LEMMA StepManages ==
  ASSUME Sound(m), Modal(m), NEW name \in Files(m), NEW e, e = m.ent[name], NEW t, t = m',
         NEW sb, Moved(m, t, name, sb), Content(sb) = Content(e.sb), WritePos(sb) \in {WritePos(e.sb), Top(e.sb)}
  PROVE  /\ RS!IsOpen(name) /\ FileView' = FileView /\ (m.ro)' = m.ro /\ Modal(t) /\ RS!Flushed(name)
         /\ "READ" \in e.mode => ReadView' = [ReadView EXCEPT ![name] = ReadPos(sb)]
         /\ "READ" \notin e.mode => ReadView' = ReadView
<1>1. name \in Names
  BY DEF Files
<1>2. Only(m, t, name) /\ RS!IsOpen(name) /\ FileView[name] = FileIn(m, name)
      /\ ReadView[name] = ReadAt(e) /\ WriteView[name] = WriteAt(e)
  BY <1>1, ViewNow DEF Moved
<1>3. PICK f : f = t.ent[name]
  OBVIOUS
<1>4. f.sb = sb /\ f.mode = e.mode /\ f.posSave = e.posSave /\ name \in Files(t)
  BY <1>3 DEF Moved
<1>5. /\ EntryTyped(e) /\ Good(e.sb) /\ e.mode # {} /\ ModeOK(e.mode, name \in m.ro)
      /\ FileIn(m, name) = Content(e.sb)
  BY <1>1, OpenSeen
<1>6. Modal(t)
  <2>1. ModeIn(t, name)
    BY <1>2, <1>3, <1>4, <1>5 DEF ModeIn, Only
  <2>2. QED BY <1>2, <2>1, OnlyModal
<1>7. FileIn(t, name) = Content(e.sb)
  BY <1>3, <1>4, <1>5 DEF FileIn
<1>8. /\ (m.ro)' = m.ro
      /\ FileView' = [FileView EXCEPT ![name] = FileIn(t, name)]
      /\ ReadView' = [ReadView EXCEPT ![name] = ReadAt(f)]
      /\ WriteView' = [WriteView EXCEPT ![name] = WriteAt(f)]
  BY <1>1, <1>2, <1>3, ViewStep
<1>9. FileView' = FileView
  <2>1. FileView' = [FileView EXCEPT ![name] = FileView[name]]
    BY <1>2, <1>5, <1>7, <1>8
  <2>2. QED BY <1>1, <2>1, SameExcept, ViewsAre
<1>10. "READ" \in e.mode => ReadAt(f) = ReadPos(sb)
  BY <1>4 DEF ReadAt
<1>11. "READ" \notin e.mode => ReadView' = ReadView
  <2>1. SUFFICES ASSUME "READ" \notin e.mode PROVE ReadView' = ReadView
    OBVIOUS
  <2>2. ReadAt(f) = ReadAt(e)
    BY <1>4, <2>1 DEF ReadAt
  <2>3. ReadView' = [ReadView EXCEPT ![name] = ReadView[name]]
    BY <1>2, <1>8, <2>2
  <2>4. QED BY <1>1, <2>3, SameExcept, ViewsAre
<1>12. PICK to : to = WriteAt(f)
  OBVIOUS
<1>13. to \in {WriteView[name]} \union IF WriteView[name] = RS!Unset THEN {}
                                       ELSE WriteView[name]..Len(FileView[name])
  <2>1. CASE "WRITE_GRANTED" \in e.mode /\ "WRITE" \in e.mode
    <3>1. to = WritePos(sb) /\ WriteView[name] = WritePos(e.sb)
      BY <1>2, <1>4, <1>12, <2>1 DEF WriteAt
    <3>2. /\ WritePos(e.sb) \in Nat /\ Top(e.sb) \in Nat /\ WritePos(e.sb) <= Top(e.sb)
          /\ Len(Content(e.sb)) \in Nat
      BY <1>5, Waits, ContentGood
    <3>3. Top(e.sb) = WritePos(e.sb) \/ Top(e.sb) <= Len(Content(e.sb))
      BY <1>5, TopInFile
    <3>4. to = WritePos(e.sb) \/ to \in WritePos(e.sb)..Len(Content(e.sb))
      BY <3>1, <3>2, <3>3
    <3>5. WriteView[name] # RS!Unset
      BY <3>1, <3>2 DEF RS!Unset
    <3>6. QED BY <1>2, <1>5, <3>1, <3>4, <3>5
  <2>2. CASE ~("WRITE_GRANTED" \in e.mode /\ "WRITE" \in e.mode)
    <3>1. to = WriteAt(e)
      BY <1>4, <1>12, <2>2 DEF WriteAt
    <3>2. QED BY <1>2, <3>1
  <2>3. QED BY <2>1, <2>2
<1>14. RS!Flushed(name)
  BY <1>8, <1>12, <1>13 DEF RS!Flushed
<1>15. QED BY <1>2, <1>6, <1>8, <1>9, <1>10, <1>11, <1>14

\* The manager after the stream of an open file was replaced.
LEMMA FoundMoved ==
  ASSUME NEW s, NEW t, NEW name, NEW sb, Only(m, s, name), s.ent = m.ent, Moved(s, t, name, sb)
  PROVE  Moved(m, t, name, sb)
<1>1. Only(m, t, name)
  BY OnlyTwice DEF Moved
<1>2. QED BY <1>1 DEF Moved

\* STREAM FLUSH writes what waits, and leaves the file as it is seen.
LEMMA FlushImplements ==
  ASSUME Sound(m), Modal(m), NEW name \in Names, call' = <<"flush", name>>, Flush(name)
  PROVE  RS!Step /\ Modal(m)'
<1>1. PICK r : r = Find(m, name)
  OBVIOUS
<1>2. call'[1] = "flush" /\ call'[2] = name
  OBVIOUS
<1>3. NotFile(r) \/ (IsFile(r) /\ Done(WithStream(r.m, r.id, Sync(r.m.ent[r.id].sb)), None))
  BY <1>1 DEF Flush
<1>4. CASE NotFile(r)
  BY <1>1, <1>2, <1>4, NotFound
<1>5. CASE IsFile(r) /\ Done(WithStream(r.m, r.id, Sync(r.m.ent[r.id].sb)), None)
  <2>1. /\ r.id = name /\ name \in Files(m) /\ name \in Files(r.m) /\ Frame(r.m) /\ r.m.ent = m.ent
        /\ Only(m, r.m, name)
    BY <1>1, <1>5, Found
  <2>2. PICK e : e = m.ent[name]
    OBVIOUS
  <2>3. /\ EntryTyped(e) /\ Good(e.sb) /\ ReadAt(e) = IF "READ" \in e.mode THEN ReadPos(e.sb) ELSE e.posSave
    BY <2>1, <2>2, OpenSeen
  <2>4. PICK sb : sb = Sync(e.sb)
    OBVIOUS
  <2>5. PICK t : t = WithStream(r.m, name, sb)
    OBVIOUS
  <2>6. Moved(m, t, name, sb)
    <3>1. Moved(r.m, t, name, sb)
      BY <2>1, <2>2, <2>3, <2>5, StreamMoved
    <3>2. QED BY <2>1, <3>1, FoundMoved
  <2>7. t = m' /\ ret' = None
    <3>1. Done(t, None)
      BY <1>5, <2>1, <2>2, <2>4, <2>5
    <3>2. QED BY <3>1, Zenon DEF Done
  <2>8. Content(sb) = Content(e.sb) /\ ReadPos(sb) = ReadPos(e.sb) /\ WritePos(sb) = Top(e.sb)
    BY <2>3, <2>4, SyncSettled DEF Settled, Top
  <2>9. /\ RS!IsOpen(name) /\ FileView' = FileView /\ (m.ro)' = m.ro /\ Modal(t) /\ RS!Flushed(name)
        /\ "READ" \in e.mode => ReadView' = [ReadView EXCEPT ![name] = ReadPos(sb)]
        /\ "READ" \notin e.mode => ReadView' = ReadView
    BY <2>1, <2>2, <2>6, <2>7, <2>8, StepManages
  <2>10. ReadView' = ReadView
    <3>1. CASE "READ" \in e.mode
      <4>1. ReadView[name] = ReadPos(sb)
        BY <2>2, <2>3, <2>8, <3>1, ViewNow
      <4>2. QED BY <2>9, <3>1, <4>1, SameExcept, ViewsAre
    <3>2. QED BY <2>9, <3>1
  <2>11. RS!Flush(name)
    BY <2>7, <2>9, <2>10, SameResults DEF RS!Flush
  <2>12. StepOf(name)
    BY <2>11 DEF StepOf, RS!Managing
  <2>13. QED BY <1>2, <2>7, <2>9, <2>12, NextOf
<1>6. QED BY <1>3, <1>4, <1>5

\* STREAM RESET goes to the start, of a stream that was not written last.
LEMMA ResetImplements ==
  ASSUME Sound(m), Modal(m), NEW name \in Names, call' = <<"reset", name>>, Reset(name)
  PROVE  RS!Step /\ Modal(m)'
<1>1. PICK r : r = Find(m, name)
  OBVIOUS
<1>2. call'[1] = "reset" /\ call'[2] = name
  OBVIOUS
<1>3. \/ NotFile(r)
      \/ IsFile(r) /\ Done([r.m EXCEPT !.ent[r.id].sb = SeekIn(@, 0), !.ent[r.id].byLine = FALSE], None)
  BY <1>1, Zenon DEF Reset
<1>4. CASE NotFile(r)
  BY <1>1, <1>2, <1>4, NotFound
<1>5. CASE IsFile(r) /\ Done([r.m EXCEPT !.ent[r.id].sb = SeekIn(@, 0), !.ent[r.id].byLine = FALSE], None)
  <2>1. /\ r.id = name /\ name \in Files(m) /\ name \in Files(r.m) /\ Frame(r.m) /\ r.m.ent = m.ent
        /\ Only(m, r.m, name)
    BY <1>1, <1>5, Found
  <2>2. PICK e : e = m.ent[name]
    OBVIOUS
  <2>3. EntryTyped(e) /\ Good(e.sb)
    BY <2>1, <2>2, OpenSeen
  <2>4. PICK sb : sb = SeekIn(e.sb, 0)
    OBVIOUS
  <2>5. PICK t : t = [r.m EXCEPT !.ent[name].sb = sb, !.ent[name].byLine = FALSE]
    OBVIOUS
  <2>6. Moved(m, t, name, sb)
    <3>1. Moved(r.m, t, name, sb)
      BY <2>1, <2>2, <2>3, <2>5, StreamMoved
    <3>2. QED BY <2>1, <3>1, FoundMoved
  <2>7. t = m' /\ ret' = None
    <3>1. DOMAIN r.m = Fields /\ DOMAIN r.m.ent = Known /\ name \in Known
      BY <2>1, FilesKnown DEF Frame, Table
    <3>2. t = [r.m EXCEPT !.ent[r.id].sb = SeekIn(@, 0), !.ent[r.id].byLine = FALSE]
      BY <2>1, <2>2, <2>4, <2>5, <3>1 DEF Fields
    <3>3. Done(t, None)
      BY <1>5, <3>2
    <3>4. QED BY <3>3, Zenon DEF Done
  <2>8. /\ Content(sb) = Content(e.sb) /\ ReadPos(sb) = 0
        /\ WritePos(sb) \in {WritePos(e.sb), Top(e.sb)}
    <3>1. 0 # End
      BY DEF End
    <3>2. QED BY <2>3, <2>4, <3>1, SeekInAs DEF Settled
  <2>9. /\ RS!IsOpen(name) /\ FileView' = FileView /\ (m.ro)' = m.ro /\ Modal(t) /\ RS!Flushed(name)
        /\ "READ" \in e.mode => ReadView' = [ReadView EXCEPT ![name] = ReadPos(sb)]
        /\ "READ" \notin e.mode => ReadView' = ReadView
    BY <2>1, <2>2, <2>6, <2>7, <2>8, StepManages
  <2>10. ReadView' \in {ReadView, [ReadView EXCEPT ![name] = 0]}
    BY <2>8, <2>9
  <2>11. RS!Reset(name)
    BY <2>7, <2>9, <2>10, SameResults DEF RS!Reset
  <2>12. StepOf(name)
    BY <2>11 DEF StepOf, RS!Managing
  <2>13. QED BY <1>2, <2>7, <2>9, <2>12, NextOf
<1>6. QED BY <1>3, <1>4, <1>5

\* Closing a file leaves the entries of the others.
LEMMA RemoveLeaves ==
  ASSUME NEW s, Table(s), s.iCache >= 0, NEW u, u = RemoveAt(s.entries, s.iCache + 1),
         NEW id \in Range(s.entries), id # s.cache
  PROVE  id \in Range(u)
<1>1. PICK k, n : k = s.iCache + 1 /\ n = Len(s.entries)
  OBVIOUS
<1>2. k \in 1..n /\ n \in Nat /\ s.entries \in Seq(Known) /\ s.entries[k] = s.cache /\ DOMAIN s.entries = 1..n
  BY <1>1, LenProperties DEF Table
<1>3. Without(u, s.entries, k)
  BY <1>1, <1>2, RemovedAt
<1>4. /\ DOMAIN u = 1..(n - 1)
      /\ \A i \in 1..(n - 1) : /\ i < k => u[i] = s.entries[i]
                               /\ i >= k => u[i] = s.entries[i + 1]
  BY <1>1, <1>3, LenProperties DEF Without
<1>5. PICK j \in 1..n : s.entries[j] = id
  BY <1>2 DEF Range
<1>6. CASE j < k
  <2>1. j \in 1..(n - 1) /\ u[j] = id
    BY <1>2, <1>4, <1>5, <1>6
  <2>2. QED BY <1>4, <2>1 DEF Range
<1>7. CASE j > k
  <2>1. j - 1 \in 1..(n - 1) /\ j - 1 >= k /\ (j - 1) + 1 = j
    BY <1>2, <1>7
  <2>2. u[j - 1] = id
    BY <1>4, <1>5, <2>1
  <2>3. QED BY <1>4, <2>1, <2>2 DEF Range
<1>8. j # k
  BY <1>2, <1>5
<1>9. QED BY <1>2, <1>6, <1>7, <1>8

\* STREAM CLOSE leaves the content on the disk, and forgets the positions.
LEMMA CloseImplements ==
  ASSUME Sound(m), Modal(m), NEW name \in Names, call' = <<"close", name>>, Close(name)
  PROVE  RS!Step /\ Modal(m)'
<1>1. PICK r : r = Find(m, name)
  OBVIOUS
<1>2. call'[1] = "close" /\ call'[2] = name
  OBVIOUS
<1>3. /\ Sound(r.m) /\ Modal(r.m) /\ r.m.ent = m.ent /\ r.m.disk = m.disk /\ r.m.ro = m.ro
      /\ Files(r.m) = Files(m) /\ Only(m, r.m, name) /\ r.m.entries = m.entries
      /\ \/ /\ r.id = name /\ r.id # NoEntry /\ name \in Files(m)
            /\ r.m.iCache >= 0 /\ r.m.cache = name
         \/ r.id = NoEntry /\ name \notin Files(m) /\ r.m = m
  BY <1>1, Found
<1>4. ASSUME NEW t, t = m', ret' = None, Only(m, t, name), name \notin Files(t), t.ent[name].mode = {},
             t.disk[name] = FileIn(m, name)
      PROVE  RS!Step /\ Modal(m)'
  <2>1. Modal(t)
    BY <1>4, OnlyModal DEF ModeIn
  <2>2. FileIn(t, name) = FileIn(m, name) /\ ReadAt(t.ent[name]) = -1 /\ WriteAt(t.ent[name]) = -2
    BY <1>4, <2>1, ClosedSeen
  <2>3. /\ FileView' = [FileView EXCEPT ![name] = FileView[name]] /\ (m.ro)' = m.ro
        /\ ReadView' = [ReadView EXCEPT ![name] = -1] /\ WriteView' = [WriteView EXCEPT ![name] = -2]
    BY <1>4, <2>2, ViewNow, ViewStep
  <2>4. FileView' = FileView
    BY <2>3, SameExcept, ViewsAre
  <2>5. RS!Close(name)
    BY <1>4, <2>3, <2>4, SameResults DEF RS!Close, RS!Shut, RS!Unset
  <2>6. StepOf(name)
    BY <1>2, <2>5 DEF StepOf, RS!Managing
  <2>7. QED BY <1>2, <1>4, <2>1, <2>3, <2>6, NextOf
<1>5. CASE r.id = NoEntry
  <2>1. Done(m, None)
    BY <1>1, <1>3, <1>5 DEF Close
  <2>2. PICK t : t = m
    OBVIOUS
  <2>3. t = m' /\ ret' = None
    BY <2>1, <2>2, Zenon DEF Done
  <2>4. t.ent[name].mode = {} /\ t.disk[name] = FileIn(m, name) /\ name \notin Files(t)
    BY <1>3, <1>5, <2>2, ClosedSeen
  <2>5. Only(m, t, name)
    BY <2>2, OnlyNone
  <2>6. QED BY <1>4, <2>3, <2>4, <2>5
<1>6. CASE r.id # NoEntry
  <2>1. /\ r.id = name /\ r.m.iCache >= 0 /\ r.m.cache = name /\ name \in Files(m) /\ Frame(r.m) /\ Table(r.m)
    BY <1>3, <1>6 DEF Sound, Frame
  <2>2. PICK e : e = m.ent[name]
    OBVIOUS
  <2>3. Good(e.sb) /\ FileIn(m, name) = Content(e.sb)
    BY <2>1, <2>2, OpenSeen
  <2>4. PICK file : file = Closed(e.sb)
    OBVIOUS
  <2>5. file = FileIn(m, name)
    BY <2>3, <2>4, ClosedContent
  <2>6. PICK t : t = [r.m EXCEPT !.entries = RemoveAt(@, r.m.iCache + 1), !.iCache = -1,
                                 !.disk[name] = file, !.ent[name] = Free]
    OBVIOUS
  <2>7. Done(t, None)
    <3>1. Done([r.m EXCEPT !.entries = RemoveAt(@, r.m.iCache + 1), !.iCache = -1,
                           !.disk[name] = Closed(r.m.ent[r.id].sb), !.ent[r.id] = Free], None)
      BY <1>1, <1>6, Zenon DEF Close
    <3>2. Closed(r.m.ent[r.id].sb) = file
      BY <1>3, <2>1, <2>2, <2>4
    <3>3. QED BY <2>1, <2>6, <3>1, <3>2
  <2>8. t = m' /\ ret' = None
    BY <2>7, Zenon DEF Done
  <2>9. /\ DOMAIN t = Fields /\ t.iCache = -1 /\ t.cache = r.m.cache /\ t.ro = r.m.ro
        /\ t.entries = RemoveAt(r.m.entries, r.m.iCache + 1)
        /\ t.disk = [r.m.disk EXCEPT ![name] = file] /\ t.ent = [r.m.ent EXCEPT ![name] = Free]
    BY <2>1, <2>6 DEF Table, Fields
  <2>10. name \notin Range(t.entries) /\ Range(t.entries) \subseteq Range(r.m.entries)
    BY <2>1, <2>9, RemoveKeeps
  <2>11. /\ t.ent[name] = Free /\ t.disk[name] = file
         /\ \A n \in Names : n # name => t.ent[n] = m.ent[n] /\ t.disk[n] = m.disk[n]
    BY <1>3, <2>1, <2>9, NamesKnown DEF Frame
  <2>12. ASSUME NEW n \in Names, n # name PROVE n \in Files(t) <=> n \in Files(m)
    <3>1. n \in Range(r.m.entries) => n \in Range(t.entries)
      BY <2>1, <2>9, <2>12, RemoveLeaves
    <3>2. QED BY <1>3, <2>10, <2>12, <3>1 DEF Files
  <2>13. Only(m, t, name)
    <3>1. \A n \in Range(Std) : n # name
      BY NamesAreNotTheConsole DEF Range, Std
    <3>2. \A n \in Range(Std) : n \in Range(m.entries) => n \in Range(t.entries)
      BY <1>3, <2>1, <2>9, <3>1, RemoveLeaves
    <3>3. Standing(m) => Standing(t)
      BY <3>2 DEF Standing
    <3>4. QED BY <1>3, <2>9, <2>11, <2>12, <3>3 DEF Only
  <2>14. name \notin Files(t) /\ t.ent[name].mode = {}
    BY <2>10, <2>11 DEF Files, Free
  <2>15. QED BY <1>4, <2>5, <2>8, <2>11, <2>13, <2>14
<1>7. QED BY <1>5, <1>6

-----------------------------------------------------------------------------
(***************************************************************************)
(* The console, and the theorem.                                           *)
(***************************************************************************)
\* t is s but for the console's streams.
Beside(s, t) ==
  /\ t.ro = s.ro /\ t.disk = s.disk /\ t.entries = s.entries
  /\ \A n \in Names : t.ent[n] = s.ent[n]

\* Replacing an entry of the console.
LEMMA BesideSet ==
  ASSUME NEW s, Frame(s), NEW id, id \notin Names, NEW f, NEW t, t = [s EXCEPT !.ent[id] = f]
  PROVE  Beside(s, t)
<1>1. DOMAIN s = Fields /\ DOMAIN s.ent = Known
  BY DEF Frame, Table
<1>2. t.ent = [s.ent EXCEPT ![id] = f] /\ t.ro = s.ro /\ t.disk = s.disk /\ t.entries = s.entries
  BY <1>1 DEF Fields
<1>3. \A n \in Names : n \in DOMAIN s.ent /\ n # id
  BY <1>1, NamesKnown
<1>4. QED BY <1>2, <1>3 DEF Beside

\* A console stream switched to reading leaves the files.
LEMMA ToConsoleRead ==
  ASSUME NEW s, Frame(s), NEW id \in Known, id \notin Names, NEW r, r = EntryToRead(s, id)
  PROVE  r.id \notin Names /\ Beside(s, r.m)
<1>1. PICK e : e = s.ent[id]
  OBVIOUS
<1>2. NoEntry \notin Names
  BY NoNameIsNoEntry
<1>3. PICK t : t = [s EXCEPT !.ent[id] = [e EXCEPT !.posSave = WritePos(e.sb), !.sb = SeekIn(@, e.posSave),
                                                   !.mode = (@ \ {"WRITE"}) \union {"READ"}]]
  OBVIOUS
<1>4. \/ r = [m |-> s, id |-> id] \/ r = [m |-> s, id |-> NoEntry] \/ r = [m |-> t, id |-> id]
  BY <1>1, <1>3, Zenon DEF EntryToRead
<1>5. Beside(s, t)
  BY <1>3, BesideSet
<1>6. Beside(s, s)
  BY DEF Beside
<1>7. QED BY <1>2, <1>4, <1>5, <1>6

\* A console stream switched to writing leaves the files.
LEMMA ToConsoleWrite ==
  ASSUME NEW s, Frame(s), NEW id \in Known, id \notin Names, NEW r, r = EntryToWrite(s, id)
  PROVE  r.id \notin Names /\ Beside(s, r.m)
<1>1. PICK e, saved : e = s.ent[id] /\ saved = ReadPos(e.sb)
  OBVIOUS
<1>2. NoEntry \notin Names
  BY NoNameIsNoEntry
<1>3. PICK nowOut : nowOut = [e EXCEPT !.posSave = saved, !.mode = (@ \ {"READ"}) \union {"WRITE"}]
  OBVIOUS
<1>4. PICK t1 : t1 = [s EXCEPT !.ent[id] = [nowOut EXCEPT !.sb = SeekOut(@, e.posSave)]]
  OBVIOUS
<1>5. PICK t2 : t2 = [s EXCEPT !.ent[id].sb = SeekIn(Reopened(@), saved),
                               !.ent[id].mode = @ \union {"WRITE_DENIED"}]
  OBVIOUS
<1>6. PICK t3 : t3 = [s EXCEPT !.ent[id] = [nowOut EXCEPT !.sb = SeekOut(Reopened(@), End),
                                                          !.mode = @ \union {"WRITE_GRANTED"}]]
  OBVIOUS
<1>7. \/ r = [m |-> s, id |-> id] \/ r = [m |-> s, id |-> NoEntry] \/ r = [m |-> t1, id |-> id]
      \/ r = [m |-> t2, id |-> NoEntry] \/ r = [m |-> t3, id |-> id]
  BY <1>1, <1>3, <1>4, <1>5, <1>6, Zenon DEF EntryToWrite
<1>8. Beside(s, t1) /\ Beside(s, t3)
  <2>1. Beside(s, t1)
    BY <1>4, BesideSet
  <2>2. Beside(s, t3)
    BY <1>6, BesideSet
  <2>3. QED BY <2>1, <2>2
<1>9. Beside(s, t2)
  <2>1. DOMAIN s = Fields /\ DOMAIN s.ent = Known
    BY DEF Frame, Table
  <2>2. PICK sb, mode : sb = SeekIn(Reopened(e.sb), saved) /\ mode = e.mode \union {"WRITE_DENIED"}
    OBVIOUS
  <2>3. PICK f : f = [e EXCEPT !.sb = sb, !.mode = mode]
    OBVIOUS
  <2>4. t2 = [s EXCEPT !.ent[id] = f]
    BY <1>1, <1>5, <2>1, <2>2, <2>3 DEF Fields
  <2>5. QED BY <2>4, BesideSet
<1>10. Beside(s, s)
  BY DEF Beside
<1>11. QED BY <1>2, <1>7, <1>8, <1>9, <1>10

\* A console's stream is found, and what is done with it leaves the files.
LEMMA ConsoleFound ==
  ASSUME NEW s, Sound(s), Modal(s), NEW name \in Consoles
  PROVE  LET r == Find(s, name)
         IN  /\ name \in Known /\ name \notin Names /\ r.id = name /\ r.id # NoEntry /\ name \in Range(r.m.entries)
             /\ Frame(r.m) /\ Beside(s, r.m)
<1>1. name \in Known /\ name \notin Names /\ name \in Range(Std) /\ NoEntry \notin Known
  BY NamesAreNotTheConsole, NamesKnown DEF Known, Range, Std
<1>2. name \in Range(s.entries)
  BY <1>1 DEF Modal, Standing
<1>3. PICK r : r = Find(s, name)
  OBVIOUS
<1>4. r.id = name /\ Sound(r.m) /\ name \in Range(r.m.entries)
  BY <1>1, <1>2, <1>3, FindSound
<1>5. r.m.ent = s.ent /\ r.m.disk = s.disk /\ r.m.ro = s.ro /\ r.m.entries = s.entries
  BY <1>1, <1>3, FindSeen
<1>6. Frame(r.m) /\ Beside(s, r.m)
  BY <1>4, <1>5 DEF Beside, Sound
<1>7. r.id # NoEntry
  BY <1>1, <1>4
<1>8. QED BY <1>1, <1>3, <1>4, <1>6, <1>7

\* Two steps that leave the files.
LEMMA BesideTwice ==
  ASSUME NEW s, NEW t, NEW u, Beside(s, t), Beside(t, u) PROVE Beside(s, u)
BY DEF Beside

\* EnsureRead and EnsureWrite of a console stream leave the files.
LEMMA ConsoleEnsured ==
  ASSUME NEW s, Sound(s), Modal(s), NEW name \in Consoles, NEW r, r = ensureRead(s, name) \/ r = ensureWrite(s, name)
  PROVE  r.id \notin Names /\ Beside(s, r.m)
<1>1. PICK q : q = Find(s, name)
  OBVIOUS
<1>2. /\ name \in Known /\ name \notin Names /\ q.id = name /\ q.id # NoEntry /\ Frame(q.m) /\ Beside(s, q.m)
  BY <1>1, ConsoleFound
<1>3. r = EntryToRead(q.m, name) \/ r = EntryToWrite(q.m, name)
  BY <1>1, <1>2, Zenon DEF ensureRead, ensureWrite
<1>4. r.id \notin Names /\ Beside(q.m, r.m)
  BY <1>2, <1>3, ToConsoleRead, ToConsoleWrite
<1>5. QED BY <1>2, <1>4, BesideTwice

\* A step that leaves the files changes nothing RexxStreams sees.
LEMMA StepBeside ==
  ASSUME Sound(m), Modal(m), NEW name \in Consoles, call'[2] = name, NEW r, Beside(m, r.m), NotFile(r)
  PROVE  RS!Step /\ Modal(m)'
<1>1. PICK t : t = r.m
  OBVIOUS
<1>2. t = m'
  BY <1>1, Zenon DEF NotFile, Done
<1>3. t.ro = m.ro /\ t.disk = m.disk /\ t.entries = m.entries /\ \A n \in Names : t.ent[n] = m.ent[n]
  BY <1>1 DEF Beside
<1>4. Files(t) = Files(m)
  BY <1>3 DEF Files
<1>5. Modal(t)
  BY <1>3, <1>4 DEF Modal, ModeIn, Standing
<1>6. FileView' = FileView
  <2>1. FileView' = [n \in Names |-> FileIn(t, n)] /\ FileView = [n \in Names |-> FileIn(m, n)]
    BY <1>2 DEF FileView, FileOf, FileIn
  <2>2. \A n \in Names : FileIn(t, n) = FileIn(m, n)
    BY <1>3 DEF FileIn
  <2>3. QED BY <2>1, <2>2
<1>7. ReadView' = ReadView
  BY <1>2, <1>3 DEF ReadView
<1>8. WriteView' = WriteView
  BY <1>2, <1>3 DEF WriteView
<1>9. (m.ro)' = m.ro
  BY <1>2, <1>3
<1>10. QED BY <1>2, <1>5, <1>6, <1>7, <1>8, <1>9 DEF RS!Step

\* The operations on the console are steps of RexxStreams beside the files.
LEMMA ConsoleImplements ==
  ASSUME Sound(m), Modal(m), NEW name \in Consoles,
         \/ call' = <<"open", name>> /\ Open(name)
         \/ call' = <<"linein", name, 0, 1>> /\ LineIn(name, 0, 1)
         \/ call' = <<"lineout", name, 0, << >> >> /\ LineOut(name, << >>, 0)
  PROVE  RS!Step /\ Modal(m)'
<1>1. call'[2] = name
  OBVIOUS
<1>2. CASE Open(name)
  <2>1. PICK f : f = Find(m, name)
    OBVIOUS
  <2>2. f.id = name /\ f.id # NoEntry /\ name \notin Names /\ Beside(m, f.m)
    BY <2>1, ConsoleFound
  <2>3. NotFile(f)
    BY <1>2, <2>1, <2>2 DEF Open, Opening, IsFile
  <2>4. QED BY <1>1, <2>2, <2>3, StepBeside
<1>3. CASE LineIn(name, 0, 1)
  <2>1. PICK r : r = ensureRead(m, name)
    OBVIOUS
  <2>2. r.id \notin Names /\ Beside(m, r.m)
    BY <2>1, ConsoleEnsured
  <2>3. ~IsFile(r)
    BY <2>2 DEF IsFile
  <2>4. NotFile(r)
    BY <1>3, <2>1, <2>3, Zenon DEF LineIn
  <2>5. QED BY <1>1, <2>2, <2>4, StepBeside
<1>4. CASE LineOut(name, << >>, 0)
  <2>1. PICK r : r = ensureWrite(m, name)
    OBVIOUS
  <2>2. r.id \notin Names /\ Beside(m, r.m)
    BY <2>1, ConsoleEnsured
  <2>3. ~IsFile(r)
    BY <2>2 DEF IsFile
  <2>4. NotFile(r)
    BY <1>4, <2>1, <2>3, Zenon DEF LineOut
  <2>5. QED BY <1>1, <2>2, <2>4, StepBeside
<1>5. QED BY <1>2, <1>3, <1>4, Zenon

-----------------------------------------------------------------------------
\* The initial states are initial states of RexxStreams.
LEMMA InitImplements == Init => RS!Init /\ Modal(m)
<1>1. SUFFICES ASSUME Init PROVE RS!Init /\ Modal(m)
  OBVIOUS
<1>2. PICK disk \in [Names -> UNION {Contents[n] : n \in Names}], ro \in SUBSET (Names \ Idle) :
       /\ \A n \in Names : disk[n] \in Contents[n]
       /\ m = [entries |-> Std, iCache |-> 0, cache |-> "in", disk |-> disk, ro |-> ro,
               ent |-> [name \in Names \union Range(Std) |->
                 IF name = "in" THEN ConsoleEntry({"READ", "WRITE_DENIED"})
                 ELSE IF name \in Names THEN Free ELSE ConsoleEntry({"WRITE", "READ_DENIED"})]]
  BY <1>1, Zenon DEF Init
<1>3. call = << >> /\ ret = None
  BY <1>1, Zenon DEF Init
<1>4. m.entries = Std /\ m.disk = disk /\ m.ro = ro
  BY <1>2
<1>5. Files(m) = {}
  <2>1. Range(Std) = {"in", "out", "err"}
    BY DEF Range, Std
  <2>2. QED BY <1>4, <2>1, NamesAreNotTheConsole DEF Files
<1>6. ASSUME NEW n \in Names PROVE m.ent[n] = Free
  BY <1>2, NamesAreNotTheConsole
<1>7. Free.mode = {}
  BY DEF Free
<1>8. Modal(m)
  BY <1>4, <1>5, <1>6, <1>7 DEF Modal, ModeIn, Standing
<1>9. \A n \in Names : FileIn(m, n) = disk[n] /\ ReadAt(m.ent[n]) = -1 /\ WriteAt(m.ent[n]) = -2
  BY <1>4, <1>6, <1>7 DEF FileIn, ReadAt, WriteAt
<1>10. ReadView = [n \in Names |-> RS!Shut] /\ WriteView = [n \in Names |-> RS!Unset]
  BY <1>9 DEF ReadView, WriteView, RS!Shut, RS!Unset
<1>11. FileView \in [Names -> {RS!Absent} \union Seq(Bytes)]
  <2>1. \A n \in Names : disk[n] \in {RS!Absent} \union Seq(Bytes)
    BY <1>2, ContentsAreBytes, SameResults
  <2>2. FileView = [n \in Names |-> disk[n]]
    BY <1>9 DEF FileView, FileOf, FileIn
  <2>3. QED BY <2>1, <2>2
<1>12. m.ro \subseteq Names
  BY <1>4
<1>13. RS!Init
  BY <1>3, <1>10, <1>11, <1>12, SameResults DEF RS!Init
<1>14. QED BY <1>8, <1>13

\* Every step is one of RexxStreams, or leaves what it sees.
LEMMA NextImplements == Sound(m) /\ Modal(m) /\ [Next]_vars => [RS!Next]_(RS!vars) /\ Modal(m)'
<1> SUFFICES ASSUME Sound(m), Modal(m), [Next]_vars PROVE [RS!Next]_(RS!vars) /\ Modal(m)'
  OBVIOUS
<1>1. ASSUME \E name \in Names : \/ call' = <<"open", name>> /\ Open(name)
                                 \/ call' = <<"close", name>> /\ Close(name)
      PROVE  RS!Step /\ Modal(m)'
  BY <1>1, OpenImplements, CloseImplements, Zenon
<1>2. ASSUME \E name \in Names \ Idle :
               \/ call' = <<"state", name>> /\ State(name)
               \/ call' = <<"flush", name>> /\ Flush(name)
               \/ call' = <<"reset", name>> /\ Reset(name)
               \/ call' = <<"chars", name>> /\ Chars(name)
               \/ call' = <<"lines", name>> /\ Lines(name)
      PROVE  RS!Step /\ Modal(m)'
  <2>1. PICK name \in Names :
             \/ call' = <<"state", name>> /\ State(name)
             \/ call' = <<"flush", name>> /\ Flush(name)
             \/ call' = <<"reset", name>> /\ Reset(name)
             \/ call' = <<"chars", name>> /\ Chars(name)
             \/ call' = <<"lines", name>> /\ Lines(name)
    BY <1>2, Zenon
  <2>2. QED
    BY <2>1, StateImplements, FlushImplements, ResetImplements, CharsImplements, LinesImplements, Zenon
<1>3. ASSUME \E name \in Names \ Idle : \E start \in Starts :
               \/ \E n \in Counts : call' = <<"charin", name, start, n>> /\ CharIn(name, start, n)
               \/ \E n \in {0, 1} : call' = <<"linein", name, start, n>> /\ LineIn(name, start, n)
               \/ \E str \in Strings :
                    \/ call' = <<"charout", name, start, str>> /\ CharOut(name, str, start)
                    \/ call' = <<"lineout", name, start, str>> /\ LineOut(name, str, start)
      PROVE  RS!Step /\ Modal(m)'
  <2>1. PICK name \in Names, start \in Starts :
             \/ \E n \in Counts : call' = <<"charin", name, start, n>> /\ CharIn(name, start, n)
             \/ \E n \in {0, 1} : call' = <<"linein", name, start, n>> /\ LineIn(name, start, n)
             \/ \E str \in Strings :
                  \/ call' = <<"charout", name, start, str>> /\ CharOut(name, str, start)
                  \/ call' = <<"lineout", name, start, str>> /\ LineOut(name, str, start)
    BY <1>3, Zenon
  <2>2. CASE \E n \in Counts : call' = <<"charin", name, start, n>> /\ CharIn(name, start, n)
    BY <2>2, CharInImplements, Zenon
  <2>3. CASE \E n \in {0, 1} : call' = <<"linein", name, start, n>> /\ LineIn(name, start, n)
    BY <2>3, LineInImplements, Zenon
  <2>4. CASE \E str \in Strings :
                  \/ call' = <<"charout", name, start, str>> /\ CharOut(name, str, start)
                  \/ call' = <<"lineout", name, start, str>> /\ LineOut(name, str, start)
    BY <2>4, CharOutImplements, LineOutImplements, Zenon
  <2>5. QED BY <2>1, <2>2, <2>3, <2>4, Zenon
<1>4. ASSUME \E name \in Consoles :
               \/ call' = <<"open", name>> /\ Open(name)
               \/ call' = <<"linein", name, 0, 1>> /\ LineIn(name, 0, 1)
               \/ call' = <<"lineout", name, 0, << >> >> /\ LineOut(name, << >>, 0)
      PROVE  RS!Step /\ Modal(m)'
  BY <1>4, ConsoleImplements, Zenon
<1>5. CASE UNCHANGED vars
  <2>1. m' = m /\ call' = call /\ ret' = ret
    BY <1>5 DEF vars
  <2>2. Modal(m)'
    BY <2>1
  <2>3. UNCHANGED <<FileView, ReadView, WriteView>>
    BY <2>1 DEF FileView, FileOf, ReadView, WriteView
  <2>4. UNCHANGED RS!vars
    BY <2>1, <2>3 DEF RS!vars
  <2>5. QED BY <2>2, <2>4
<1>6. CASE Next
  <2>1. RS!Step /\ Modal(m)'
    BY <1>1, <1>2, <1>3, <1>4, <1>6, Zenon DEF Next, Operation
  <2>2. ret.how # "crash"
    BY <1>6, Zenon DEF Next, Crashed
  <2>3. QED BY <2>1, <2>2, Zenon DEF RS!Next
<1>7. QED BY <1>5, <1>6

\* Every operation of IOMgr does to the files and to the positions the program reads and
\* writes them at what RexxStreams says of it, whichever streams are open, cached, read ahead
\* or waiting to be written (ImplementsRexxStreams).
THEOREM StreamsImplementRexxStreams == Spec => ImplementsRexxStreams
<1>1. Init => Sound(m) /\ Modal(m) /\ RS!Init
  BY InitSound, InitImplements
<1>2. Sound(m) /\ [Next]_vars => Sound(m)'
  BY NextSound
<1>3. Sound(m) /\ Modal(m) /\ [Next]_vars => [RS!Next]_(RS!vars) /\ Modal(m)'
  BY NextImplements
<1>4. QED BY <1>1, <1>2, <1>3, PTL DEF Spec, ImplementsRexxStreams, RS!Spec
=============================================================================
