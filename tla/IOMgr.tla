------------------------------- MODULE IOMgr -------------------------------
(***************************************************************************)
(* The streams of a REXX program (IOMgr.cpp), over FileStreamBuf.          *)
(*                                                                         *)
(* A stream is an entry in a list, found by name, with the last one found  *)
(* cached: here a name stands for the entry that bears it.  An entry is in *)
(* read or in write mode; the position of the other mode is kept in        *)
(* posSave and put back when the mode changes.  A stream first opened to   *)
(* be read is reopened when it is first written.  The console's three      *)
(* streams are the first entries; what goes through them is not modelled,  *)
(* only that they are looked up and refuse.                                *)
(*                                                                         *)
(* Definitions named Mut... are wrong variants of the one that follows.    *)
(***************************************************************************)
EXTENDS FileStreamBuf

CONSTANTS Names,     \* files
          Consoles,  \* the streams of the console a program names
          Idle,      \* those that a program only opens and closes
          Contents,  \* what each may hold at first
          Strings,   \* what is written
          Starts,    \* the positions and lines a program gives; 0 is none
          Counts,    \* how many bytes it asks for
          Newline,
          MaxLen,    \* bound: the size of each file
          MaxLine    \* bound: m_line

ASSUME NamesAreNotTheConsole ==
  Consoles \subseteq {"in", "out", "err"} /\ {"in", "out", "err"} \cap Names = {}
ASSUME IdleAreFiles == Idle \subseteq Names
ASSUME StartsAreNat == Starts \union Counts \subseteq Nat /\ 0 \in Starts
ASSUME StringsAreBytes == Newline \in Bytes /\ Strings \subseteq Seq(Bytes)

VARIABLES m,    \* the manager, the files, and which (ro) cannot be opened for writing
          call, \* the last operation, with its arguments
          ret   \* what it returned

vars == <<m, call, ret>>

Std      == <<"in", "out", "err">>
NoEntry  == ""
ASSUME NoNameIsNoEntry == NoEntry \notin Names     \* an empty name is a console stream's
Absent   == <<"absent">>                  \* a file that does not exist
ASSUME AbsentIsNoFile   == "absent" \notin Bytes
ASSUME ContentsAreBytes == \A n \in Names : Contents[n] \subseteq Seq(Bytes) \union {Absent}
InUse    == << >>                         \* one that a stream has open
NoStream == Opened(<< >>)

\* What an operation returns: bytes, a number, or only how it ended.
Result(how) == [how |-> how, bytes |-> << >>, number |-> 0]
None        == Result("done")
Got(bytes)  == [None EXCEPT !.bytes = bytes]
Number(n)   == [None EXCEPT !.number = n]
Free     == [line |-> 0, posSave |-> 0, mode |-> {}, byLine |-> FALSE, sb |-> NoStream]

\* byLine is not in the code: nothing but LINEIN has moved the positions.
ConsoleEntry(mode) == [Free EXCEPT !.mode = mode, !.line = 1]
FileEntry(mode, file) ==
  [line |-> 1, posSave |-> 0, mode |-> mode, byLine |-> TRUE, sb |-> Opened(file)]

Init ==
  /\ \E disk \in [Names -> UNION {Contents[n] : n \in Names}], ro \in SUBSET (Names \ Idle) :
       /\ \A n \in Names : disk[n] \in Contents[n]
       /\ m = [entries |-> Std, iCache |-> 0, cache |-> "in", disk |-> disk, ro |-> ro,
               ent |-> [name \in Names \union Range(Std) |->
                 IF name = "in" THEN ConsoleEntry({"READ", "WRITE_DENIED"})
                 ELSE IF name \in Names THEN Free ELSE ConsoleEntry({"WRITE", "READ_DENIED"})]]
  /\ call = << >> /\ ret = None

-----------------------------------------------------------------------------
(***************************************************************************)
(* Finding and making entries.  An operator returns the manager it leaves  *)
(* and the entry, NoEntry if there is none.                                *)
(***************************************************************************)
Find(s, name) ==
  LET hits == {ix \in 1..Len(s.entries) : s.entries[ix] = name}
  IN  IF s.iCache >= 0 /\ s.cache = name THEN [m |-> s, id |-> name]
      ELSE IF hits = {} THEN [m |-> s, id |-> NoEntry]
      ELSE [m |-> [s EXCEPT !.cache = name, !.iCache = Min(hits) - 1], id |-> name]

Make(s, name, out) ==
  LET file == IF s.disk[name] = Absent THEN << >> ELSE s.disk[name]
      e    == FileEntry(IF out THEN {"WRITE", "WRITE_GRANTED"} ELSE {"READ"}, file)
      good == IF out THEN name \notin s.ro ELSE s.disk[name] # Absent
  IN  IF ~good THEN [m |-> s, id |-> NoEntry]
      ELSE [m |-> [s EXCEPT !.entries = Append(@, name), !.cache = name,
                            !.iCache = Len(s.entries), !.disk[name] = InUse,
                            !.ent[name] = IF out THEN [e EXCEPT !.sb = SeekOut(@, End)] ELSE e],
            id |-> name]

\* delete m_pStream; getStream(om)
Reopened(sb) == Opened(Closed(sb))

\* A reopening that fails loses the read position.
MutEntryToWrite(s, id) ==
  IF "WRITE" \in s.ent[id].mode THEN [m |-> s, id |-> id]
  ELSE [m |-> [s EXCEPT !.ent[id].sb = Reopened(@), !.ent[id].mode = @ \union {"WRITE_DENIED"}],
        id |-> NoEntry]

EntryToWrite(s, id) ==
  LET e      == s.ent[id]
      saved  == ReadPos(e.sb)
      nowOut == [e EXCEPT !.posSave = saved, !.mode = (@ \ {"READ"}) \union {"WRITE"}]
  IN  IF "WRITE" \in e.mode THEN [m |-> s, id |-> id]
      ELSE IF "WRITE_DENIED" \in e.mode THEN [m |-> s, id |-> NoEntry]
      ELSE IF "WRITE_GRANTED" \in e.mode
      THEN [m |-> [s EXCEPT !.ent[id] = [nowOut EXCEPT !.sb = SeekOut(@, e.posSave)]], id |-> id]
      ELSE IF id \in s.ro
      THEN [m |-> [s EXCEPT !.ent[id].sb = SeekIn(Reopened(@), saved),
                            !.ent[id].mode = @ \union {"WRITE_DENIED"}],
            id |-> NoEntry]
      ELSE [m |-> [s EXCEPT !.ent[id] = [nowOut EXCEPT !.sb = SeekOut(Reopened(@), End),
                                                       !.mode = @ \union {"WRITE_GRANTED"}]],
            id |-> id]

EntryToRead(s, id) ==
  LET e == s.ent[id]
  IN  IF "READ" \in e.mode THEN [m |-> s, id |-> id]
      ELSE IF "READ_DENIED" \in e.mode THEN [m |-> s, id |-> NoEntry]
      ELSE [m |-> [s EXCEPT !.ent[id] =
                     [e EXCEPT !.posSave = WritePos(e.sb), !.sb = SeekIn(@, e.posSave),
                               !.mode = (@ \ {"WRITE"}) \union {"READ"}]],
            id |-> id]

ensureRead(s, name) ==
  LET r == Find(s, name)
  IN  IF r.id = NoEntry THEN Make(r.m, name, FALSE) ELSE EntryToRead(r.m, r.id)

ensureWrite(s, name) ==
  LET r == Find(s, name)
  IN  IF r.id = NoEntry THEN Make(r.m, name, TRUE) ELSE EntryToWrite(r.m, r.id)

-----------------------------------------------------------------------------
(***************************************************************************)
(* Lines.                                                                  *)
(***************************************************************************)
\* The position `out` tells is rewound; the lines are then counted by reading, even so.
Counted(from, r, atStart) ==
  [sb |-> r.s, atStart |-> r.c = Newline, eof |-> r.c = EOF,
   line |-> IF r.c = Newline \/ (r.c = EOF /\ ~atStart) THEN from + 1 ELSE from]
gotoLine(sb, from, to, out) ==
  LET Upto(r) == IF r.eof \/ r.line >= to THEN r ELSE Counted(r.line, Getc(r.sb), r.atStart)
      rewound == IF from <= to THEN sb ELSE IF out THEN SeekOut(sb, 0) ELSE SeekIn(sb, 0)
      go[i \in 0..(Len(Content(sb)) + 1)] ==
        IF i = 0 THEN [sb |-> rewound, line |-> IF from > to THEN 1 ELSE from,
                       atStart |-> TRUE, eof |-> FALSE]
        ELSE Upto(go[i - 1])
  IN  go[Len(Content(sb)) + 1]

\* The end of the file counts as the end of a line.
Chomped(r) == [r EXCEPT !.val = IF r.eof THEN @ ELSE SubSeq(@, 1, Len(@) - 1)]
MutReadLine(sb) == [Chomped(GetUntil(sb, Len(Content(sb)) + 1, Newline)) EXCEPT !.eof = FALSE]

\* One line of the stream, without its newline.
readLine(sb) == Chomped(GetUntil(sb, Len(Content(sb)) + 1, Newline))

-----------------------------------------------------------------------------
(***************************************************************************)
(* The operations.  Done(s, r) ends one with the manager s and result r;   *)
(* the bounds are on what it leaves.                                       *)
(***************************************************************************)
Files(s) == Range(s.entries) \intersect Names      \* the files that are open

Done(s, r) ==
  /\ \A id \in Files(s) :
       /\ Len(Content(s.ent[id].sb)) <= MaxLen[id]
       /\ s.ent[id].line <= MaxLine
  /\ m' = s /\ ret' = r

\* What was found, [m |-> the manager it leaves, id |-> the entry], is a file; or it
\* is not, and the operation does nothing.
IsFile(r)  == r.id \in Names
NotFile(r) == ~IsFile(r) /\ Done(r.m, Result(IF r.id = NoEntry THEN "refused" ELSE "console"))

\* A write through null ends the process: there is no manager any more, and what the
\* buffers held is lost.  Nothing is said of the files it leaves.
Crash == m' = m /\ ret' = Result("crash")

WithStream(s, id, sb) == [s EXCEPT !.ent[id].sb = sb]

Opening(name, found) ==
  \E r \in {IF found.id = NoEntry THEN Make(m, name, FALSE) ELSE found} :
    \/ NotFile(r)
    \/ IsFile(r) /\ Done(r.m, None)
Open(name) == Opening(name, Find(m, name))

State(name) ==
  \E r \in {ensureRead(m, name)} :
    \/ NotFile(r)
    \/ IsFile(r) /\ Done(r.m, None)

\* The closed entry stays cached.
MutClose(name) ==
  LET r == Find(m, name)
  IN  IF r.id = NoEntry THEN Done(r.m, None)
      ELSE Done([r.m EXCEPT !.entries = RemoveAt(@, r.m.iCache + 1),
                            !.disk[name] = Closed(r.m.ent[r.id].sb), !.ent[r.id] = Free], None)

\* Closing one of the console's streams deletes the program's console: nothing is
\* said of what follows, and it is left out.
Close(name) ==
  LET r == Find(m, name)
  IN  IF r.id = NoEntry THEN Done(r.m, None)
      ELSE Done([r.m EXCEPT !.entries = RemoveAt(@, r.m.iCache + 1), !.iCache = -1,
                            !.disk[name] = Closed(r.m.ent[r.id].sb),
                            !.ent[r.id] = Free], None)

\* A stream that is not open is not flushed or reset.
Flush(name) ==
  \E r \in {Find(m, name)} :
    \/ NotFile(r)
    \/ IsFile(r) /\ Done(WithStream(r.m, r.id, Sync(r.m.ent[r.id].sb)), None)
Reset(name) ==
  \E r \in {Find(m, name)} :
    \/ NotFile(r)
    \/ /\ IsFile(r)
       /\ Done([r.m EXCEPT !.ent[r.id].sb = SeekIn(@, 0), !.ent[r.id].byLine = FALSE], None)

Chars(name) ==
  \E r \in {ensureRead(m, name)} :
    \/ NotFile(r)
    \/ /\ IsFile(r)
       /\ \E end \in {SeekIn(r.m.ent[r.id].sb, End)}, at \in {ReadPos(r.m.ent[r.id].sb)} :
            Done(WithStream(r.m, r.id, SeekIn(end, at)), Number(ReadPos(end) - at))

Lines(name) ==
  \E r \in {ensureRead(m, name)} :
    \/ NotFile(r)
    \/ /\ IsFile(r)
       /\ \E sb \in {r.m.ent[r.id].sb} :
          \E last \in {gotoLine(sb, 0, Len(Content(sb)) + 2, FALSE)} :
            Done(WithStream(r.m, r.id, SeekIn(last.sb, ReadPos(sb))), Number(last.line))

CharIn(name, start, count) ==
  \E r \in {ensureRead(m, name)} :
    \/ NotFile(r)
    \/ /\ IsFile(r)
       /\ \E sb \in {r.m.ent[r.id].sb} :
          \E got \in {GetUntil(IF start > 0 THEN SeekIn(sb, start - 1) ELSE sb, count, EOF)} :
            Done([r.m EXCEPT !.ent[r.id].sb = got.s, !.ent[r.id].byLine = FALSE], Got(got.val))

\* `count` lines, one or none, of the entry r.id with its position at.sb, in line at.line.
TakeLine(r, at, count) ==
  \/ /\ count = 0
     /\ Done([r.m EXCEPT !.ent[r.id].sb = at.sb, !.ent[r.id].line = at.line], Got(<< >>))
  \/ /\ count = 1
     /\ \E got \in {readLine(at.sb)} :
          Done([r.m EXCEPT !.ent[r.id].sb = got.s,
                           !.ent[r.id].line = IF got.eof THEN at.line ELSE at.line + 1],
               Got(got.val))

\* When a line is given, none is read at the end of the file.
LineIn(name, line, count) ==
  \E r \in {ensureRead(m, name)} :
    \/ NotFile(r)
    \/ /\ IsFile(r) /\ line = 0
       /\ TakeLine(r, [sb |-> r.m.ent[r.id].sb, line |-> r.m.ent[r.id].line], count)
    \/ /\ IsFile(r) /\ line > 0
       /\ \E at \in {gotoLine(r.m.ent[r.id].sb, r.m.ent[r.id].line, line, FALSE)} :
          \E here \in {Peek(at.sb)} :
            TakeLine(r, [sb |-> here.s, line |-> at.line], IF here.c = EOF THEN 0 ELSE count)

CharOut(name, str, start) ==
  \E r \in {ensureWrite(m, name)} :
    \/ NotFile(r)
    \/ /\ IsFile(r)
       /\ \E sb \in {IF start > 0 THEN SeekOut(r.m.ent[r.id].sb, start - 1)
                    ELSE r.m.ent[r.id].sb} :
            IF str # << >> /\ NullWrite(sb) THEN Crash
            ELSE Done([r.m EXCEPT !.ent[r.id].sb = IF str = << >> THEN sb ELSE Sync(PutAll(sb, str)),
                                  !.ent[r.id].byLine = FALSE], None)

LineOut(name, str, line) ==
  \E r \in {ensureWrite(m, name)} :
    \/ NotFile(r)
    \/ /\ IsFile(r)
       /\ \E e \in {r.m.ent[r.id]} :
          \E at \in {IF line > 0 THEN gotoLine(e.sb, e.line, line, TRUE)
                     ELSE [sb |-> e.sb, line |-> e.line]} :
            IF NullWrite(at.sb) THEN Crash
            ELSE Done([r.m EXCEPT !.ent[r.id].sb = PutAll(at.sb, Append(str, Newline)),
                                  !.ent[r.id].line = at.line + 1, !.ent[r.id].byLine = FALSE], None)

Operation ==
  \/ \E name \in Names :
       \/ call' = <<"open", name>> /\ Open(name)
       \/ call' = <<"close", name>> /\ Close(name)
  \/ \E name \in Names \ Idle :
       \/ call' = <<"state", name>> /\ State(name)
       \/ call' = <<"flush", name>> /\ Flush(name)
       \/ call' = <<"reset", name>> /\ Reset(name)
       \/ call' = <<"chars", name>> /\ Chars(name)
       \/ call' = <<"lines", name>> /\ Lines(name)
       \/ \E start \in Starts :
            \/ \E n \in Counts : call' = <<"charin", name, start, n>> /\ CharIn(name, start, n)
            \/ \E n \in {0, 1} : call' = <<"linein", name, start, n>> /\ LineIn(name, start, n)
            \/ \E str \in Strings :
                 \/ call' = <<"charout", name, start, str>> /\ CharOut(name, str, start)
                 \/ call' = <<"lineout", name, start, str>> /\ LineOut(name, str, start)
  \/ \E name \in Consoles :        \* found, or refused in the other direction
       \/ call' = <<"open", name>> /\ Open(name)
       \/ call' = <<"linein", name, 0, 1>> /\ LineIn(name, 0, 1)
       \/ call' = <<"lineout", name, 0, << >> >> /\ LineOut(name, << >>, 0)

\* A process that crashed makes no step.
Crashed == ret.how = "crash"
Next == ~Crashed /\ Operation

Spec == Init /\ [][Next]_vars

-----------------------------------------------------------------------------
(***************************************************************************)
(* Properties.                                                             *)
(***************************************************************************)
\* The shape of the state: entries have a name, a mode and a stream in a state its
\* pointers allow.
TypeOK ==
  /\ {m.cache} \union Range(m.entries) \subseteq DOMAIN m.ent
  /\ m.iCache \in -1..(Len(m.entries) - 1)
  /\ \A id \in Files(m) :
       /\ m.ent[id].sb \in Stream
       /\ Cardinality(m.ent[id].mode \intersect {"READ", "WRITE"}) = 1
       /\ m.ent[id].sb.g <= m.ent[id].sb.eg
       /\ m.ent[id].sb.io = "PUT" => m.ent[id].sb.eg = 0
       /\ m.ent[id].sb.io # "PUT" => m.ent[id].sb.p = BufSize /\ m.ent[id].sb.most = 0
       /\ ~m.ent[id].sb.has => m.ent[id].sb.eg = 0 /\ m.ent[id].sb.p = BufSize

\* The entry findEntry caches is the one at the index it caches, and a name has
\* one entry: two would buffer the same file twice, and ensureClose removes
\* the entry at the cached index whatever it is (IOMgr.cpp:191-234, 294).
CacheFound ==
  /\ m.iCache >= 0 => m.iCache < Len(m.entries) /\ m.entries[m.iCache + 1] = m.cache
  /\ IsInjective(m.entries)

\* A file whose last line ends in a newline, and the newlines in its first n bytes.
Terminated(f)    == f = << >> \/ f[Len(f)] = Newline
NewlinesTo(f, n) == {i \in 1..n : i \in DOMAIN f /\ f[i] = Newline}

\* As long as nothing but LINEIN has moved a stream, and its last line is
\* terminated, m_line is the line read next, so LINEIN(name, n) reads line n
\* (IOMgr.cpp:507-579: the count survives rewinding, EOF and LINES).
LineCounted ==
  \A id \in Files(m) :
    LET e == m.ent[id]
    IN  e.byLine /\ Terminated(Content(e.sb)) =>
          e.line = 1 + Cardinality(NewlinesTo(Content(e.sb), ReadPos(e.sb)))

\* A program may go anywhere and write: "these functions allow to reach any position in a
\* file", and Charout(path, '', Chars(path)) "sets the write position at the end"
\* (docs/palmos/filesAndDBs.html:227 and 245-250).
NeverCrashes == ~Crashed

\* Every operation does to the files and their positions what a program is told
\* it does, whatever is in the buffer, read ahead or waiting, and in whichever
\* mode the stream is (docs/palmos/filesAndDBs.html:202-250).
FileOf(name)  == LET e == m.ent[name] IN IF e.mode = {} THEN m.disk[name] ELSE Content(e.sb)
ReadAt(e)     == IF "READ" \in e.mode THEN ReadPos(e.sb)
                 ELSE IF "WRITE" \in e.mode THEN e.posSave ELSE -1
WriteAt(e)    == IF "WRITE_GRANTED" \notin e.mode THEN -2
                 ELSE IF "WRITE" \in e.mode THEN WritePos(e.sb) ELSE e.posSave
FileView  == [n \in Names |-> FileOf(n)]
ReadView  == [n \in Names |-> ReadAt(m.ent[n])]
WriteView == [n \in Names |-> WriteAt(m.ent[n])]
RS == INSTANCE RexxStreams WITH ro <- m.ro, file <- FileView, rd <- ReadView, wr <- WriteView
ImplementsRexxStreams == RS!Spec

=============================================================================
