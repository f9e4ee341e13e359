--------------------------- MODULE FileStreamBuf ---------------------------
(***************************************************************************)
(* A buffered file with a read and a write position (FileStreamBuf.cpp,    *)
(* over the descriptor of StdFileStream.cpp).  One buffer and one offset   *)
(* of the file serve both: the buffer holds bytes read ahead (`io` = GET)  *)
(* or bytes waiting to be written (PUT), and changing direction writes     *)
(* what waits and moves the offset.                                        *)
(*                                                                         *)
(* A stream is a record and every method of the class an operator on it:   *)
(*   buf, BufSize       the buffer, base() = 0, ebuf() = BufSize           *)
(*   has                whether it is there: base() # 0                    *)
(*   g, eg              gptr, egptr (eback is base)                        *)
(*   pb, p              pbase, pptr (epptr is ebuf)                        *)
(*   io, posGet, posPut, most   m_ioState, ..., m_maxOutWaiting            *)
(*   file, off          the file, and where the descriptor is in it        *)
(* A read of one byte returns [s |-> the stream it leaves, c |-> the byte].*)
(*                                                                         *)
(* Reads and writes of the file are complete and never fail; the buffer is *)
(* not tied (tieSelf is called nowhere).  A byte of the buffer that no     *)
(* pointer covers is Junk.  Until the buffer is there all pointers are     *)
(* null: g = eg = base() and p = ebuf() stand for them.                    *)
(*                                                                         *)
(* Definitions named Mut... are wrong variants of the one that follows.    *)
(***************************************************************************)
EXTENDS Integers, SequencesExt

CONSTANTS Bytes,   \* what a file is made of
          BufSize, \* m_bufSize
          MinUnget \* m_minUnget: a quarter of it, 256 at most

ASSUME SizesAreNat == BufSize \in Nat /\ MinUnget \in Nat
ASSUME SizesFit    == BufSize > 1 /\ MinUnget < BufSize     \* setbuf refuses less

EOF  == "eof"
Junk == "junk"
Hole == "hole"      \* what a file holds where nothing was ever written

ASSUME MarksAreNoBytes == {EOF, Junk, Hole} \intersect Bytes = {}

NoBytes == [i \in 0..(BufSize - 1) |-> Junk]

Stream ==
  [buf : [0..(BufSize - 1) -> Bytes \union {Junk, Hole}], has : BOOLEAN,
   g : 0..BufSize, eg : 0..BufSize, pb : {0, BufSize}, p : 0..BufSize,
   io : {"NONE", "GET", "PUT"}, posGet : Nat, posPut : Nat, most : 0..BufSize,
   file : Seq(Bytes \union {Hole}), off : Nat]

\* A file just opened: the buffer comes with its first use.
Opened(file) ==
  [buf |-> NoBytes, has |-> FALSE, g |-> 0, eg |-> 0, pb |-> BufSize, p |-> BufSize,
   io |-> "NONE", posGet |-> 0, posPut |-> 0, most |-> 0,
   file |-> file, off |-> 0]

InAvail(s)    == s.eg - s.g
OutWaiting(s) == s.p - s.pb

\* s over file from position pos on: what a write leaves, holes included.
Overwrite(file, pos, s) ==
  LET end == pos + Len(s)
  IN  [i \in 1..(IF end > Len(file) THEN end ELSE Len(file)) |->
        IF pos < i /\ i <= end THEN s[i - pos]
        ELSE IF i <= Len(file) THEN file[i] ELSE Hole]

\* The bytes of the buffer from index i on, n of them.
Span(s, i, n) == [k \in 1..n |-> s.buf[i + k - 1]]

\* setg(base(), base(), base()) and setp(ebuf(), ebuf()): nothing is buffered.
NoInput(s)  == [s EXCEPT !.g = 0, !.eg = 0]
NoOutput(s) == [s EXCEPT !.pb = BufSize, !.p = BufSize]
Unused(s)   == [s EXCEPT !.buf = NoBytes]
-----------------------------------------------------------------------------
(***************************************************************************)
(* Emptying the buffer, and filling it.                                    *)
(***************************************************************************)
FlushSome(s, n) ==
  LET at == IF s.io = "GET" THEN s.off + s.posPut - s.posGet ELSE s.off
  IN  [Unused(s) EXCEPT !.io = "PUT", !.pb = 0, !.p = 0,
                        !.file = Overwrite(@, at, Span(s, s.pb, n)), !.off = at + n,
                        !.posPut = @ + n]

\* What waits to be written, after a position that was moved backwards too.
Waiting(s) == IF s.most > OutWaiting(s) THEN s.most ELSE OutWaiting(s)

SyncOut(s) ==
  NoOutput([IF Waiting(s) > 0 THEN FlushSome(s, Waiting(s)) ELSE s EXCEPT !.most = 0])

SyncIn(s) ==
  LET at == s.posGet - InAvail(s)
  IN  NoInput(Unused(IF InAvail(s) = 0 THEN s
                     ELSE [s EXCEPT !.off = at, !.io = "GET", !.posGet = at]))

Sync(s) == SyncIn(SyncOut(s))

\* The descriptor, moved from where it writes to where it reads; nothing is buffered.
ToRead(s) == [Unused(s) EXCEPT !.off = @ + s.posGet - s.posPut, !.g = 0]

\* A full buffer keeps its last bytes, and reads after them.
Wrapped(s) == [s EXCEPT !.g = MinUnget,
  !.buf = [i \in 0..(BufSize - 1) |-> IF i < MinUnget THEN @[BufSize - MinUnget + i] ELSE Junk]]

\* Bytes are read from index g on, as many as the file has and the buffer holds.
ReadAhead(s) ==
  LET left == Len(s.file) - s.off
      n    == IF left <= 0 THEN 0 ELSE IF left < BufSize - s.g THEN left ELSE BufSize - s.g
  IN  [s EXCEPT !.buf = [i \in 0..(BufSize - 1) |->
                           IF s.g <= i /\ i < s.g + n THEN s.file[s.off + i - s.g + 1] ELSE @[i]],
                !.io = "GET", !.off = @ + n, !.posGet = @ + n, !.eg = s.g + n]

\* When everything read ahead is consumed.
Underflow(s) ==
  ReadAhead([IF s.io = "PUT" THEN ToRead(SyncOut(s))
             ELSE IF s.g = BufSize THEN Wrapped(s) ELSE s EXCEPT !.has = TRUE])

\* sgetc and sbumpc
AtG(s)   == [s |-> s, c |-> IF s.g < s.eg THEN s.buf[s.g] ELSE EOF]
Peek(s)    == AtG(IF s.g < s.eg THEN s ELSE Underflow(s))
Bumped(r)  == IF r.c = EOF THEN r ELSE [r EXCEPT !.s.g = @ + 1]
Getc(s)    == Bumped(Peek(s))

\* What was read ahead is not given up.
MutOverflow(s) ==
  IF s.io = "GET" THEN [s EXCEPT !.off = @ + s.posPut - s.posGet, !.pb = 0, !.p = 0, !.io = "PUT"]
  ELSE [s EXCEPT !.pb = 0, !.p = 0, !.io = "PUT"]

\* A byte put in a stream that is read and has no buffer is written through null:
\* overflow makes one in its other branch only.
NullWrite(s) == s.io = "GET" /\ ~s.has

\* Not called when NullWrite.
Overflow(s) ==
  IF s.io = "GET"
  THEN [Unused(NoInput(s)) EXCEPT !.off = @ + s.posPut - s.posGet,
                                  !.posGet = @ - InAvail(s),
                                  !.pb = 0, !.p = 0, !.io = "PUT"]
  ELSE IF s.p = BufSize
       THEN [IF OutWaiting(s) > 0 THEN FlushSome(s, OutWaiting(s))
             ELSE [s EXCEPT !.has = TRUE, !.pb = 0, !.p = 0] EXCEPT !.most = 0, !.io = "PUT"]
       ELSE [s EXCEPT !.io = "PUT"]

\* sputc
Store(s, c) == [s EXCEPT !.buf[s.p] = c, !.p = @ + 1]
Putc(s, c)  == Store(IF s.p < BufSize THEN s ELSE Overflow(s), c)
-----------------------------------------------------------------------------
(***************************************************************************)
(* Seeks.  `to` is a position, or End; a seek that stays in what the       *)
(* buffer covers moves a pointer only.                                     *)
(***************************************************************************)
End == -1

SeekTo(s, at, io) ==
  Unused(NoInput([s EXCEPT !.off = at, !.io = io,
                !.posGet = IF io = "GET" THEN at ELSE @ - InAvail(s),
                !.posPut = IF io = "PUT" THEN at ELSE @]))
Seek(s, to, io)     == SeekTo(s, IF to = End THEN Len(s.file) ELSE to, io)
HardSeek(s, to, io) == Seek(SyncOut(s), to, io)

SeekIn(s, to) ==
  LET i == s.g + to - (s.posGet - InAvail(s))
  IN  IF to # End /\ 0 <= i /\ i <= s.eg THEN [s EXCEPT !.g = i]
      ELSE HardSeek(s, to, "GET")

SeekOut(s, to) ==
  LET i == to - s.posPut
  IN  IF to # End /\ 0 <= i /\ i <= Waiting(s)
      THEN [s EXCEPT !.most = Waiting(s), !.p = s.pb + i]
      ELSE HardSeek(s, to, "PUT")

\* The positions the outside sees: tellg and tellp.
ReadPos(s)  == s.posGet - InAvail(s)
WritePos(s) == s.posPut + OutWaiting(s)

\* The file with what waits written over it.
Content(s) ==
  IF Waiting(s) = 0 THEN s.file
  ELSE Overwrite(s.file, s.posPut, Span(s, s.pb, Waiting(s)))
-----------------------------------------------------------------------------
(***************************************************************************)
(* Strings of bytes: sputn, sgetn, and reading to the end of a line.  A    *)
(* read returns [s |-> stream, val |-> bytes, eof |-> whether it hit EOF]. *)
(***************************************************************************)
PutAll(s, str) ==
  LET put[i \in 0..Len(str)] == IF i = 0 THEN s ELSE Putc(put[i - 1], str[i])
  IN  put[Len(str)]

\* Reads until n bytes are read, the last byte read is `stop`, or EOF.
Taken(val, r) ==
  [s |-> r.s, eof |-> r.c = EOF, val |-> IF r.c = EOF THEN val ELSE Append(val, r.c)]
GetUntil(s, n, stop) ==
  LET Enough(r) == r.eof \/ (r.val # << >> /\ Last(r.val) = stop)
      Upto(r)   == IF Enough(r) THEN r ELSE Taken(r.val, Getc(r.s))
      get[i \in 0..n] == IF i = 0 THEN [s |-> s, val |-> << >>, eof |-> FALSE]
                         ELSE Upto(get[i - 1])
  IN  get[n]

\* close: the file as it is left.
Closed(s) == Sync(s).file

=============================================================================
