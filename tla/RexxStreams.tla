---------------------------- MODULE RexxStreams ----------------------------
(***************************************************************************)
(* What a program is told of streams (docs/palmos/filesAndDBs.html:202-250)*)
(* and IOMgr implements: a file has a read and a write position,           *)
(* "2 values that are separately maintained"; when it is first accessed    *)
(* "the read position is at the beginning of the file, while the write     *)
(* position is at the end"; a read returns what was written, a seek moves  *)
(* one position and nothing else.                                          *)
(*                                                                         *)
(* Four things the code does are not what a program is told, and are       *)
(* allowed here so that the rest can be stated:                            *)
(*   - a write position that was moved backwards over bytes still in the   *)
(*     buffer jumps to their end when they are flushed (Jump);             *)
(*   - a line number given to LINEIN or LINEOUT only moves somewhere       *)
(*     (IOMgr's LineCounted says when LINEIN is right);                    *)
(*   - positions are counted from 1, so Charout(path, '', Chars(path))     *)
(*     leaves the write position before the last byte, where the page says *)
(*     "at the end of the file" (lines 245-249);                           *)
(*   - a write, but the first one, may end the process (Crash).            *)
(***************************************************************************)
EXTENDS Integers, SequencesExt

CONSTANTS Consoles,  \* streams that are not files
          Bytes,     \* what files are made of
          Names,     \* the files
          Strings,   \* what it writes
          Starts,    \* the positions it gives; 0 is none
          Counts,    \* how many bytes it asks for
          Newline

VARIABLES ro,    \* the files a program may not write
          file,  \* the content of each file; Absent
          rd,    \* where it is read next; Shut when the stream is not open
          wr,    \* where it is written next; Unset before the first write
          call,  \* the last operation, with its arguments
          ret    \* what it returned

vars == <<ro, file, rd, wr, call, ret>>

Absent == <<"absent">>          \* no file holds that
Shut   == -1
Unset  == -2

\* What an operation returns: bytes, a number, or only how it ended.
Result(how)  == [how |-> how, bytes |-> << >>, number |-> 0]
None         == Result("done")
Got(bytes)   == [None EXCEPT !.bytes = bytes]
Number(n)    == [None EXCEPT !.number = n]

Slice(f, pos, n) == SubSeq(f, pos + 1, IF pos + n < Len(f) THEN pos + n ELSE Len(f))

\* str written over f at pos; what lies between the end of f and pos is a hole.
Patch(f, pos, str) ==
  [i \in 1..(IF pos + Len(str) > Len(f) THEN pos + Len(str) ELSE Len(f)) |->
     IF pos < i /\ i <= pos + Len(str) THEN str[i - pos]
     ELSE IF i <= Len(f) THEN f[i] ELSE "hole"]

\* The lines after pos; what follows the last newline is one.
LinesAfter(f, pos) ==
  Cardinality({i \in (pos + 1)..Len(f) : f[i] = Newline})
    + IF pos < Len(f) /\ f[Len(f)] # Newline THEN 1 ELSE 0

\* The length of the line that starts at pos, its newline included.
LineLength(f, pos) ==
  LET ends == {i \in (pos + 1)..Len(f) : f[i] = Newline}
  IN  IF pos >= Len(f) THEN 0
      ELSE IF ends = {} THEN Len(f) - pos
      ELSE (CHOOSE i \in ends : \A j \in ends : i <= j) - pos

ChompLine(s) == IF s # << >> /\ s[Len(s)] = Newline THEN SubSeq(s, 1, Len(s) - 1) ELSE s

IsOpen(n)   == rd[n] # Shut
CanRead(n)  == IsOpen(n) \/ file[n] # Absent
CanWrite(n) == n \notin ro

\* The positions an access finds: a stream is opened by its first access.
Rd(n) == IF IsOpen(n) THEN rd[n] ELSE 0
Wr(n) == IF IsOpen(n) /\ wr[n] # Unset THEN wr[n]
         ELSE IF file[n] = Absent THEN 0 ELSE Len(file[n])

Init ==
  /\ ro \subseteq Names
  /\ rd = [n \in Names |-> Shut] /\ wr = [n \in Names |-> Unset]
  /\ call = << >> /\ ret = None
  /\ file \in [Names -> {Absent} \union Seq(Bytes)]

\* Reading stream n leaves its read position at pos.
ReadAt(n, pos) ==
  /\ CanRead(n)
  /\ rd' = [rd EXCEPT ![n] = pos]
  /\ wr' = wr

Look(n) == ReadAt(n, Rd(n)) /\ file' = file

Open(n)  == Look(n) /\ ret' = None
Chars(n) == Look(n) /\ ret' = Number(Len(file[n]) - Rd(n))
Lines(n) == Look(n) /\ ret' = Number(LinesAfter(file[n], Rd(n)))

CharIn(n, start, count) ==
  LET pos == IF start > 0 THEN start - 1 ELSE Rd(n)
      val == Slice(file[n], pos, count)
  IN  /\ ReadAt(n, pos + Len(val)) /\ file' = file
      /\ ret' = Got(val)

LineFrom(n, pos, count) ==
  LET val == Slice(file[n], pos, LineLength(file[n], pos))
  IN  /\ ReadAt(n, IF count = 0 THEN pos ELSE pos + Len(val)) /\ file' = file
      /\ ret' = Got(IF count = 0 THEN << >> ELSE ChompLine(val))

LineIn(n, count) == LineFrom(n, Rd(n), count)
LineInAt(n, count) == CanRead(n) /\ \E pos \in {Rd(n)} \union 0..Len(file[n]) : LineFrom(n, pos, count)

\* Writing str at pos; the position may jump, over what was written before.
WriteAt(n, pos, str) ==
  /\ CanWrite(n)
  /\ LET old == IF file[n] = Absent THEN << >> ELSE file[n]
         new == IF str = << >> THEN old ELSE Patch(old, pos, str)
     IN  /\ file' = [file EXCEPT ![n] = new]
         /\ \E to \in {pos + Len(str)} \union
                    IF str = << >> THEN {} ELSE pos + Len(str)..Len(new) :  \* Jump
              wr' = [wr EXCEPT ![n] = to]
  /\ rd' = [rd EXCEPT ![n] = Rd(n)]
  /\ ret' = None

CharOut(n, str, start) == WriteAt(n, IF start > 0 THEN start - 1 ELSE Wr(n), str)
LineOut(n, str)   == WriteAt(n, Wr(n), Append(str, Newline))
LineOutAt(n, str) == CanWrite(n) /\ \E pos \in {0} \union Wr(n)..(Wr(n) + Len(file[n])) :
                                      WriteAt(n, pos, Append(str, Newline))

\* What waits to be written may be flushed (Jump).
Flushed(n) == \E to \in {wr[n]} \union IF wr[n] = Unset THEN {} ELSE wr[n]..Len(file[n]) :
                wr' = [wr EXCEPT ![n] = to]

Flush(n) ==
  /\ IsOpen(n) /\ UNCHANGED <<file, rd>>
  /\ Flushed(n)
  /\ ret' = None

\* The read position is moved, unless the stream was last written.
Reset(n) ==
  /\ IsOpen(n) /\ UNCHANGED file
  /\ rd' \in {rd, [rd EXCEPT ![n] = 0]}
  /\ Flushed(n)
  /\ ret' = None

Close(n) ==
  /\ rd' = [rd EXCEPT ![n] = Shut] /\ wr' = [wr EXCEPT ![n] = Unset]
  /\ file' = file /\ ret' = None

Reading(n) ==
  \/ call' = <<"open", n>>  /\ Open(n)
  \/ call' = <<"state", n>> /\ Open(n)
  \/ call' = <<"chars", n>> /\ Chars(n)
  \/ call' = <<"lines", n>> /\ Lines(n)
  \/ \E start \in Starts :
       \/ \E k \in Counts : call' = <<"charin", n, start, k>> /\ CharIn(n, start, k)
       \/ \E k \in {0, 1} :
            /\ call' = <<"linein", n, start, k>>
            /\ IF start = 0 THEN LineIn(n, k) ELSE LineInAt(n, k)

Writing(n) ==
  \E start \in Starts, str \in Strings :
    \/ call' = <<"charout", n, start, str>> /\ CharOut(n, str, start)
    \/ call' = <<"lineout", n, start, str>> /\ (IF start = 0 THEN LineOut(n, str) ELSE LineOutAt(n, str))

Managing(n) ==
  \/ call' = <<"flush", n>> /\ Flush(n)
  \/ call' = <<"reset", n>> /\ Reset(n)
  \/ call' = <<"close", n>> /\ Close(n)

\* Only a stream that a write has been given is written through null.
Crash(n) ==
  /\ IsOpen(n) /\ wr[n] # Unset /\ CanWrite(n)
  /\ \E start \in Starts, str \in Strings :
       \/ call' = <<"charout", n, start, str>> /\ str # << >>
       \/ call' = <<"lineout", n, start, str>>
  /\ UNCHANGED <<file, rd, wr>>
  /\ ret' = Result("crash")

\* What cannot be done changes nothing.
Refused(n) ==
  /\ UNCHANGED <<file, rd, wr>>
  /\ \/ ~CanRead(n) /\ call'[1] \in {"open", "state", "chars", "lines", "charin", "linein"}
     \/ ~CanWrite(n) /\ call'[1] \in {"charout", "lineout"}
     \/ ~IsOpen(n) /\ call'[1] \in {"flush", "reset"}
  /\ ret' = Result("refused")

Step ==
  /\ ro' = ro
  /\ \/ \E n \in Names :
          call'[2] = n /\ (Reading(n) \/ Writing(n) \/ Managing(n) \/ Refused(n) \/ Crash(n))
     \/ call'[2] \in Consoles /\ UNCHANGED <<file, rd, wr>>

\* Nothing follows a crash.
Next == ret.how # "crash" /\ Step

Spec == Init /\ [][Next]_vars

=============================================================================
