---------------------------- MODULE IOMgrProofs ----------------------------
(***************************************************************************)
(* CacheFound, TypeOK and LineCounted, for any files, bounds and buffer.   *)
(*                                                                         *)
(* CacheFound is about three fields of the manager: the entries and the    *)
(* two halves of the cache.  Find moves the cache, Make adds an entry for  *)
(* a name that has none, Close removes the one that Find has just cached;  *)
(* everything else an operation does leaves the three alone (Alike).       *)
(*                                                                         *)
(* TypeOK and LineCounted are about the open streams, and follow from      *)
(* Sound: every stream is Good and every entry counts the newlines before  *)
(* its read position (EntryCounted).  Good says what the buffer holds and  *)
(* where the descriptor is in each direction: what was read ahead is a     *)
(* piece of the file and nothing waits, or what waits are bytes and        *)
(* nothing was read ahead.  Each method of FileStreamBuf keeps Good and    *)
(* moves the read position by what it returns; the loops over them (PutAll,*)
(* GetUntil, gotoLine) are recursive functions, which exist and keep what  *)
(* each step keeps by StepsExist and UpTo.                                 *)
(***************************************************************************)
EXTENDS IOMgr, FiniteSetTheorems, SequenceTheorems, WellFoundedInduction, TLAPS

Known == Names \union Range(Std)

Fields == {"entries", "iCache", "cache", "disk", "ro", "ent"}

\* The table of a manager: what CacheFound says of m, with its types.
Table(s) ==
  /\ DOMAIN s = Fields
  /\ s.entries \in Seq(Known) /\ s.iCache \in Int /\ s.cache \in Known
  /\ s.iCache >= 0 => s.iCache < Len(s.entries) /\ s.entries[s.iCache + 1] = s.cache
  /\ \A i, j \in 1..Len(s.entries) : s.entries[i] = s.entries[j] => i = j

Alike(s, t) == /\ DOMAIN t = DOMAIN s
               /\ t.entries = s.entries /\ t.iCache = s.iCache /\ t.cache = s.cache

\* s has an entry for the name, and it is the one cached; or r is its manager unchanged.
Located(s, name, r) ==
  /\ Table(r.m)
  /\ \/ r.id = name /\ r.id # NoEntry /\ r.m.iCache >= 0
     \/ r.id = NoEntry /\ r.m = s /\ \A i \in 1..Len(s.entries) : s.entries[i] # name

\* The names the program uses are known, and none is the mark of a missing entry.
LEMMA NamesKnown ==
  /\ Names \subseteq Known /\ Range(Std) \subseteq Known
  /\ NoEntry \notin Known
<1>1. Range(Std) = {"in", "out", "err"}
  BY DEF Range, Std
<1>2. NoEntry \notin {"in", "out", "err"}
  BY DEF NoEntry
<1> QED BY <1>1, <1>2, NoNameIsNoEntry DEF Known

\* Managers that agree on the three fields have the same table.
LEMMA AlikeTable == ASSUME NEW s, NEW t, Table(s), Alike(s, t) PROVE Table(t)
BY DEF Table, Alike

-----------------------------------------------------------------------------
\* Finding an entry caches it where it is: there is only one.
LEMMA FindLocates ==
  ASSUME NEW s, Table(s), NEW name \in Known
  PROVE  Located(s, name, Find(s, name))
<1> DEFINE hits == {ix \in 1..Len(s.entries) : s.entries[ix] = name}
<1>0. name # NoEntry
  BY NamesKnown
<1>1. CASE s.iCache >= 0 /\ s.cache = name
  <2>1. Find(s, name) = [m |-> s, id |-> name]
    BY <1>1 DEF Find
  <2> QED BY <2>1, <1>0, <1>1 DEF Located
<1>2. CASE ~(s.iCache >= 0 /\ s.cache = name) /\ hits = {}
  <2>1. Find(s, name) = [m |-> s, id |-> NoEntry]
    BY <1>2 DEF Find
  <2>2. \A i \in 1..Len(s.entries) : s.entries[i] # name
    BY <1>2
  <2> QED BY <2>1, <2>2 DEF Located
<1>3. CASE ~(s.iCache >= 0 /\ s.cache = name) /\ hits # {}
  <2>1. PICK ix \in 1..Len(s.entries) : s.entries[ix] = name
    BY <1>3
  <2>2. hits = {ix}
    BY <2>1 DEF Table
  <2>3. ix \in Int /\ ix >= 1 /\ ix <= Len(s.entries)
    BY DEF Table
  <2>4. Min({ix}) = ix
    BY <2>3 DEF Min
  <2>5. Find(s, name) = [m |-> [s EXCEPT !.cache = name, !.iCache = ix - 1], id |-> name]
    BY <1>3, <2>2, <2>4 DEF Find
  <2>6. Table([s EXCEPT !.cache = name, !.iCache = ix - 1])
    BY <2>1, <2>3 DEF Table, Fields
  <2>7. [s EXCEPT !.cache = name, !.iCache = ix - 1].iCache >= 0
    BY <2>3 DEF Table, Fields
  <2>8. /\ Find(s, name).m = [s EXCEPT !.cache = name, !.iCache = ix - 1]
        /\ Find(s, name).id = name
    BY <2>5
  <2>9. Table(Find(s, name).m) /\ Find(s, name).m.iCache >= 0
    BY <2>6, <2>7, <2>8, Zenon
  <2> QED BY <2>8, <2>9, <1>0 DEF Located
<1> QED BY <1>1, <1>2, <1>3

\* A name without an entry gets the last one, which is cached; or none is made.
LEMMA MakeKeeps ==
  ASSUME NEW s, Table(s), NEW name \in Known, NEW out,
         \A i \in 1..Len(s.entries) : s.entries[i] # name
  PROVE  Table(Make(s, name, out).m)
<1> DEFINE more == Append(s.entries, name)
<1>1. more \in Seq(Known) /\ Len(more) = Len(s.entries) + 1 /\ Len(s.entries) \in Nat
  BY DEF Table
<1>2. \A i \in 1..Len(s.entries) : more[i] = s.entries[i]
  BY DEF Table
<1>3. more[Len(s.entries) + 1] = name
  BY DEF Table
<1>4. \A i, j \in 1..Len(more) : more[i] = more[j] => i = j
  <2> SUFFICES ASSUME NEW i \in 1..Len(more), NEW j \in 1..Len(more), more[i] = more[j]
               PROVE  i = j
    OBVIOUS
  <2>1. CASE i \in 1..Len(s.entries) /\ j \in 1..Len(s.entries)
    BY <2>1, <1>2 DEF Table
  <2>2. CASE i \notin 1..Len(s.entries) \/ j \notin 1..Len(s.entries)
    BY <2>2, <1>1, <1>2, <1>3
  <2> QED BY <2>1, <2>2
<1>5. ASSUME NEW t, DOMAIN t = Fields, t.entries = more, t.cache = name,
             t.iCache = Len(s.entries)
      PROVE  Table(t)
  <2>1. t.iCache < Len(t.entries) /\ t.entries[t.iCache + 1] = t.cache /\ t.iCache \in Int
    BY <1>1, <1>3, <1>5
  <2> QED BY <2>1, <1>1, <1>4, <1>5 DEF Table
<1>6. \/ Make(s, name, out).m = s
      \/ /\ DOMAIN Make(s, name, out).m = Fields
         /\ Make(s, name, out).m.entries = more
         /\ Make(s, name, out).m.cache = name
         /\ Make(s, name, out).m.iCache = Len(s.entries)
  BY DEF Make, Table, Fields
<1> QED BY <1>5, <1>6

\* Changing the mode of an entry moves streams only.
LEMMA EntryKeeps ==
  ASSUME NEW s, Table(s), NEW id
  PROVE  Table(EntryToRead(s, id).m) /\ Table(EntryToWrite(s, id).m)
<1>1. Alike(s, EntryToRead(s, id).m)
  BY DEF EntryToRead, Alike, Table, Fields
<1>2. Alike(s, EntryToWrite(s, id).m)
  BY DEF EntryToWrite, Alike, Table, Fields
<1> QED BY <1>1, <1>2, AlikeTable

LEMMA EnsureKeeps ==
  ASSUME NEW s, Table(s), NEW name \in Known
  PROVE  Table(ensureRead(s, name).m) /\ Table(ensureWrite(s, name).m)
<1> DEFINE r == Find(s, name)
<1>1. Located(s, name, r)
  BY FindLocates
<1>2. CASE r.id = NoEntry
  <2>1. r.m = s /\ \A i \in 1..Len(s.entries) : s.entries[i] # name
    BY <1>1, <1>2 DEF Located
  <2>2. ensureRead(s, name) = Make(s, name, FALSE) /\ ensureWrite(s, name) = Make(s, name, TRUE)
    BY <2>1, <1>2 DEF ensureRead, ensureWrite
  <2> QED BY <2>1, <2>2, MakeKeeps
<1>3. CASE r.id # NoEntry
  <2>1. ensureRead(s, name) = EntryToRead(r.m, r.id) /\ ensureWrite(s, name) = EntryToWrite(r.m, r.id)
    BY <1>3 DEF ensureRead, ensureWrite
  <2>2. Table(r.m)
    BY <1>1 DEF Located
  <2> QED BY <2>1, <2>2, EntryKeeps
<1> QED BY <1>2, <1>3

\* The entries that are left when the one at k is removed.
Without(u, entries, k) ==
  /\ u \in Seq(Known) /\ Len(u) = Len(entries) - 1
  /\ \A i \in 1..(Len(entries) - 1) :
       /\ i < k => u[i] = entries[i]
       /\ i >= k => u[i] = entries[i + 1]

LEMMA RemovedAt ==
  ASSUME NEW entries \in Seq(Known), NEW k \in 1..Len(entries)
  PROVE  Without(RemoveAt(entries, k), entries, k)
<1> DEFINE n == Len(entries)
<1>1. k \in 1..n /\ n \in Nat
  OBVIOUS
<1>2. PICK u : u = RemoveAt(entries, k)
  OBVIOUS
<1> DEFINE front == SubSeq(entries, 1, k - 1)
<1> DEFINE back == SubSeq(entries, k + 1, n)
<1>3. front \in Seq(Known) /\ Len(front) = k - 1 /\ \A i \in 1..(k - 1) : front[i] = entries[i]
  BY <1>1
<1>4. back \in Seq(Known) /\ Len(back) = n - k /\ \A i \in 1..(n - k) : back[i] = entries[k + i]
  BY <1>1
<1>5. u = front \o back
  BY <1>2 DEF RemoveAt
<1> HIDE DEF front, back, n
<1>6. /\ u \in Seq(Known) /\ Len(u) = Len(front) + Len(back)
      /\ \A i \in 1..(Len(front) + Len(back)) :
           u[i] = IF i <= Len(front) THEN front[i] ELSE back[i - Len(front)]
  <2>1. front \in Seq(Known) /\ back \in Seq(Known)
    BY <1>3, <1>4
  <2>2. /\ front \o back \in Seq(Known) /\ Len(front \o back) = Len(front) + Len(back)
        /\ \A i \in 1..(Len(front) + Len(back)) :
             (front \o back)[i] = IF i <= Len(front) THEN front[i] ELSE back[i - Len(front)]
    BY <2>1, ConcatProperties, Zenon
  <2> QED BY <1>5, <2>2, Zenon
<1>7. Len(u) = n - 1
  BY <1>1, <1>6, <1>3, <1>4
<1>8. \A i \in 1..(n - 1) :
        /\ i < k => u[i] = entries[i]
        /\ i >= k => u[i] = entries[i + 1]
  <2> SUFFICES ASSUME NEW i \in 1..(n - 1)
               PROVE  /\ i < k => u[i] = entries[i]
                      /\ i >= k => u[i] = entries[i + 1]
    OBVIOUS
  <2>2. CASE i < k
    <3>1. i \in 1..(Len(front) + Len(back)) /\ i <= Len(front) /\ i \in 1..(k - 1)
      BY <1>1, <1>3, <1>4, <2>2
    <3> QED BY <3>1, <1>1, <1>3, <1>6, <2>2
  <2>3. CASE i >= k
    <3>0. i \in 1..(Len(front) + Len(back)) /\ ~(i <= Len(front)) /\ i - Len(front) = i - (k - 1)
      BY <1>1, <1>3, <1>4, <2>3
    <3>1. u[i] = back[i - (k - 1)]
      BY <3>0, <1>6
    <3>2. i - (k - 1) \in 1..(n - k) /\ k + (i - (k - 1)) = i + 1
      BY <1>1, <2>3
    <3>4. back[i - (k - 1)] = entries[i + 1]
      BY <3>2, <1>4
    <3>5. ~(i < k)
      BY <1>1, <2>3
    <3> QED BY <3>1, <3>4, <3>5
  <2> QED BY <1>1, <2>2, <2>3
<1> QED BY <1>2, <1>6, <1>7, <1>8 DEF Without, n

\* Closing removes the entry that is cached, and the cache forgets it.
LEMMA RemoveKeeps ==
  ASSUME NEW s, Table(s), s.iCache >= 0,
         NEW t, DOMAIN t = Fields, t.iCache = -1, t.cache = s.cache,
         t.entries = RemoveAt(s.entries, s.iCache + 1)
  PROVE  Table(t) /\ s.cache \notin Range(t.entries) /\ Range(t.entries) \subseteq Range(s.entries)
<1> DEFINE k == s.iCache + 1
<1> DEFINE n == Len(s.entries)
<1>1. k \in 1..n /\ n \in Nat /\ s.entries \in Seq(Known) /\ s.entries[k] = s.cache /\ DOMAIN s.entries = 1..n
  BY LenProperties DEF Table
<1>2. Without(t.entries, s.entries, k)
  BY <1>1, RemovedAt
<1> HIDE DEF k, n
<1>3. t.entries \in Seq(Known) /\ Len(t.entries) = n - 1 /\ DOMAIN t.entries = 1..(n - 1)
  BY <1>2, LenProperties DEF Without, n
<1>4. \A i \in 1..(n - 1) :
        /\ i < k => t.entries[i] = s.entries[i]
        /\ i >= k => t.entries[i] = s.entries[i + 1]
  BY <1>2 DEF Without, n
<1>5. \A i, j \in 1..n : s.entries[i] = s.entries[j] => i = j
  BY DEF Table, n
<1>6. \A i, j \in 1..(n - 1) : t.entries[i] = t.entries[j] => i = j
  <2> SUFFICES ASSUME NEW i \in 1..(n - 1), NEW j \in 1..(n - 1), t.entries[i] = t.entries[j]
               PROVE  i = j
    OBVIOUS
  <2>1. CASE i < k /\ j < k
    BY <2>1, <1>1, <1>4, <1>5
  <2>2. CASE i < k /\ j >= k
    BY <2>2, <1>1, <1>4, <1>5
  <2>3. CASE i >= k /\ j < k
    BY <2>3, <1>1, <1>4, <1>5
  <2>4. CASE i >= k /\ j >= k
    BY <2>4, <1>1, <1>4, <1>5
  <2> QED BY <1>1, <2>1, <2>2, <2>3, <2>4
<1>7. ASSUME NEW i \in 1..(n - 1) PROVE t.entries[i] \in Range(s.entries) /\ t.entries[i] # s.cache
  <2>1. CASE i < k
    <3>1. t.entries[i] = s.entries[i] /\ i \in 1..n /\ i # k
      BY <1>1, <1>4, <2>1
    <3>2. QED BY <1>1, <1>5, <3>1 DEF Range
  <2>2. CASE i >= k
    <3>1. t.entries[i] = s.entries[i + 1] /\ i + 1 \in 1..n /\ i + 1 # k
      BY <1>1, <1>4, <2>2
    <3>2. QED BY <1>1, <1>5, <3>1 DEF Range
  <2>3. QED BY <1>1, <2>1, <2>2
<1>8. s.cache \notin Range(t.entries) /\ Range(t.entries) \subseteq Range(s.entries)
  BY <1>3, <1>7 DEF Range
<1> QED BY <1>3, <1>6, <1>8 DEF Table

-----------------------------------------------------------------------------
\* The manager an operation leaves has a table when what it works on has.
LEMMA DoneKeeps == ASSUME NEW s, NEW r, Table(s), Done(s, r) PROVE Table(m)'
BY DEF Done

LEMMA InitTable == Init => Table(m)
<1> SUFFICES ASSUME Init PROVE Table(m)
  OBVIOUS
<1>1. DOMAIN m = Fields /\ m.entries = Std /\ m.iCache = 0 /\ m.cache = "in"
  BY DEF Init, Fields
<1>2. Std \in Seq(Known) /\ Len(Std) = 3 /\ "in" \in Known
  BY DEF Std, Known, Range
<1>3. Std[1] = "in" /\ Std[2] = "out" /\ Std[3] = "err"
  BY DEF Std
<1> QED BY <1>1, <1>2, <1>3 DEF Table

\* What the operations on an entry that is found, and made if need be, leave.
LEMMA StreamKept ==
  ASSUME NEW s, Table(s), NEW t, Alike(s, t), NEW r, Done(t, r)
  PROVE  Table(m)'
BY AlikeTable, DoneKeeps

LEMMA TakeLineKeeps ==
  ASSUME NEW r, NEW at, NEW count, Table(r.m), TakeLine(r, at, count)
  PROVE  Table(m)'
<1> DEFINE got == readLine(at.sb)
<1>1. CASE Done([r.m EXCEPT !.ent[r.id].sb = at.sb, !.ent[r.id].line = at.line], Got(<< >>))
  <2>1. Alike(r.m, [r.m EXCEPT !.ent[r.id].sb = at.sb, !.ent[r.id].line = at.line])
    BY DEF Alike, Table, Fields
  <2> QED BY <1>1, <2>1, StreamKept
<1>2. CASE Done([r.m EXCEPT !.ent[r.id].sb = got.s,
                            !.ent[r.id].line = IF got.eof THEN at.line ELSE at.line + 1],
                Got(got.val))
  <2>1. Alike(r.m, [r.m EXCEPT !.ent[r.id].sb = got.s,
                               !.ent[r.id].line = IF got.eof THEN at.line ELSE at.line + 1])
    BY DEF Alike, Table, Fields
  <2> QED BY <1>2, <2>1, StreamKept
<1> QED BY <1>1, <1>2 DEF TakeLine

-----------------------------------------------------------------------------
(***************************************************************************)
(* One lemma per operation.                                                *)
(***************************************************************************)
LEMMA OpenKeeps == ASSUME Table(m), NEW name \in Known, Open(name) PROVE Table(m)'
<1> DEFINE r == IF Find(m, name).id = NoEntry THEN Make(m, name, FALSE) ELSE Find(m, name)
<1>1. Table(r.m)
  <2>1. Located(m, name, Find(m, name))
    BY FindLocates
  <2>2. CASE Find(m, name).id = NoEntry
    BY <2>1, <2>2, MakeKeeps DEF Located
  <2>3. CASE Find(m, name).id # NoEntry
    BY <2>1, <2>3 DEF Located
  <2> QED BY <2>2, <2>3
<1>2. NotFile(r) \/ Done(r.m, None)
  BY DEF Open, Opening
<1> QED BY <1>1, <1>2, DoneKeeps DEF NotFile

LEMMA StateKeeps == ASSUME Table(m), NEW name \in Known, State(name) PROVE Table(m)'
BY EnsureKeeps, DoneKeeps DEF State, NotFile

LEMMA CloseKeeps == ASSUME Table(m), NEW name \in Known, Close(name) PROVE Table(m)'
<1> DEFINE r == Find(m, name)
<1> DEFINE closed == [r.m EXCEPT !.entries = RemoveAt(@, r.m.iCache + 1), !.iCache = -1,
                                 !.disk[name] = Closed(r.m.ent[r.id].sb), !.ent[r.id] = Free]
<1>1. Located(m, name, r)
  BY FindLocates
<1>2. CASE r.id = NoEntry
  <2>1. Done(r.m, None)
    BY <1>2 DEF Close
  <2> QED BY <2>1, <1>1, DoneKeeps DEF Located
<1>3. CASE r.id # NoEntry
  <2>1. Table(r.m) /\ r.m.iCache >= 0
    BY <1>1, <1>3 DEF Located
  <2>2. /\ DOMAIN closed = Fields /\ closed.iCache = -1 /\ closed.cache = r.m.cache
        /\ closed.entries = RemoveAt(r.m.entries, r.m.iCache + 1)
    BY <2>1 DEF Table, Fields
  <2>3. Table(closed)
    BY <2>1, <2>2, RemoveKeeps
  <2>4. Done(closed, None)
    BY <1>3 DEF Close
  <2> QED BY <2>3, <2>4, DoneKeeps
<1> QED BY <1>2, <1>3

\* A stream that is found is flushed or reset.
LEMMA FoundKeeps ==
  ASSUME Table(m), NEW name \in Known, Flush(name) \/ Reset(name) PROVE Table(m)'
<1> DEFINE r == Find(m, name)
<1>1. Table(r.m)
  BY FindLocates DEF Located
<1>2. CASE NotFile(r)
  BY <1>1, <1>2, DoneKeeps DEF NotFile
<1>3. CASE Done(WithStream(r.m, r.id, Sync(r.m.ent[r.id].sb)), None)
  <2>1. Alike(r.m, WithStream(r.m, r.id, Sync(r.m.ent[r.id].sb)))
    BY <1>1 DEF Alike, WithStream, Table, Fields
  <2> QED BY <1>1, <1>3, <2>1, StreamKept
<1>4. CASE Done([r.m EXCEPT !.ent[r.id].sb = SeekIn(@, 0), !.ent[r.id].byLine = FALSE], None)
  <2>1. Alike(r.m, [r.m EXCEPT !.ent[r.id].sb = SeekIn(@, 0), !.ent[r.id].byLine = FALSE])
    BY <1>1 DEF Alike, Table, Fields
  <2> QED BY <1>1, <1>4, <2>1, StreamKept
<1> QED BY <1>2, <1>3, <1>4 DEF Flush, Reset

LEMMA CountKeeps ==
  ASSUME Table(m), NEW name \in Known, Chars(name) \/ Lines(name) PROVE Table(m)'
<1> DEFINE r == ensureRead(m, name)
<1>1. Table(r.m)
  BY EnsureKeeps
<1>2. ASSUME NEW sb, NEW n, Done(WithStream(r.m, r.id, sb), Number(n)) PROVE Table(m)'
  <2>1. Alike(r.m, WithStream(r.m, r.id, sb))
    BY <1>1 DEF Alike, WithStream, Table, Fields
  <2> QED BY <1>1, <1>2, <2>1, StreamKept
<1>3. CASE NotFile(r)
  BY <1>1, <1>3, DoneKeeps DEF NotFile
<1>4. CASE IsFile(r) /\ Chars(name)
  BY <1>2, <1>4, <1>3 DEF Chars
<1>5. CASE IsFile(r) /\ Lines(name)
  BY <1>2, <1>5, <1>3 DEF Lines
<1> QED BY <1>3, <1>4, <1>5 DEF Chars, Lines

LEMMA CharInKeeps ==
  ASSUME Table(m), NEW name \in Known, NEW start, NEW count, CharIn(name, start, count)
  PROVE  Table(m)'
<1> DEFINE r == ensureRead(m, name)
<1>1. Table(r.m)
  BY EnsureKeeps
<1>2. CASE NotFile(r)
  BY <1>1, <1>2, DoneKeeps DEF NotFile
<1>3. ASSUME NEW got,
             Done([r.m EXCEPT !.ent[r.id].sb = got.s, !.ent[r.id].byLine = FALSE], Got(got.val))
      PROVE  Table(m)'
  <2>1. Alike(r.m, [r.m EXCEPT !.ent[r.id].sb = got.s, !.ent[r.id].byLine = FALSE])
    BY <1>1 DEF Alike, Table, Fields
  <2> QED BY <1>1, <1>3, <2>1, StreamKept
<1> QED BY <1>2, <1>3 DEF CharIn

LEMMA LineInKeeps ==
  ASSUME Table(m), NEW name \in Known, NEW line, NEW count, LineIn(name, line, count)
  PROVE  Table(m)'
<1> DEFINE r == ensureRead(m, name)
<1>1. Table(r.m)
  BY EnsureKeeps
<1>2. CASE NotFile(r)
  BY <1>1, <1>2, DoneKeeps DEF NotFile
<1>3. ASSUME NEW at, NEW n, TakeLine(r, at, n) PROVE Table(m)'
  BY <1>1, <1>3, TakeLineKeeps
<1> QED BY <1>2, <1>3 DEF LineIn

LEMMA CrashKeeps == ASSUME Table(m), Crash PROVE Table(m)'
BY DEF Crash

LEMMA CharOutKeeps ==
  ASSUME Table(m), NEW name \in Known, NEW str, NEW start, CharOut(name, str, start)
  PROVE  Table(m)'
<1>1. PICK r \in {ensureWrite(m, name)} :
        \/ NotFile(r)
        \/ /\ IsFile(r)
           /\ \E sb \in {IF start > 0 THEN SeekOut(r.m.ent[r.id].sb, start - 1)
                        ELSE r.m.ent[r.id].sb} :
                IF str # << >> /\ NullWrite(sb) THEN Crash
                ELSE Done([r.m EXCEPT !.ent[r.id].sb = IF str = << >> THEN sb ELSE Sync(PutAll(sb, str)),
                                      !.ent[r.id].byLine = FALSE], None)
  BY Zenon DEF CharOut
<1>2. Table(r.m)
  BY EnsureKeeps
<1>3. CASE NotFile(r)
  BY <1>2, <1>3, DoneKeeps DEF NotFile
<1>4. ASSUME NEW put, Done([r.m EXCEPT !.ent[r.id].sb = put, !.ent[r.id].byLine = FALSE], None)
      PROVE  Table(m)'
  <2>1. Alike(r.m, [r.m EXCEPT !.ent[r.id].sb = put, !.ent[r.id].byLine = FALSE])
    BY <1>2 DEF Alike, Table, Fields
  <2> QED BY <1>2, <1>4, <2>1, StreamKept
<1>5. CASE Crash
  BY <1>5, CrashKeeps
<1> QED BY <1>1, <1>3, <1>4, <1>5, Zenon

LEMMA LineOutKeeps ==
  ASSUME Table(m), NEW name \in Known, NEW str, NEW line, LineOut(name, str, line)
  PROVE  Table(m)'
<1>1. PICK r \in {ensureWrite(m, name)} :
        \/ NotFile(r)
        \/ /\ IsFile(r)
           /\ \E e \in {r.m.ent[r.id]} :
              \E at \in {IF line > 0 THEN gotoLine(e.sb, e.line, line, TRUE)
                         ELSE [sb |-> e.sb, line |-> e.line]} :
                IF NullWrite(at.sb) THEN Crash
                ELSE Done([r.m EXCEPT !.ent[r.id].sb = PutAll(at.sb, Append(str, Newline)),
                                      !.ent[r.id].line = at.line + 1, !.ent[r.id].byLine = FALSE], None)
  BY Zenon DEF LineOut
<1>2. Table(r.m)
  BY EnsureKeeps
<1>3. CASE NotFile(r)
  BY <1>2, <1>3, DoneKeeps DEF NotFile
<1>4. ASSUME NEW put, NEW l,
             Done([r.m EXCEPT !.ent[r.id].sb = put, !.ent[r.id].line = l, !.ent[r.id].byLine = FALSE], None)
      PROVE  Table(m)'
  <2>1. Alike(r.m, [r.m EXCEPT !.ent[r.id].sb = put, !.ent[r.id].line = l, !.ent[r.id].byLine = FALSE])
    BY <1>2 DEF Alike, Table, Fields
  <2> QED BY <1>2, <1>4, <2>1, StreamKept
<1>5. CASE Crash
  BY <1>5, CrashKeeps
<1> QED BY <1>1, <1>3, <1>4, <1>5, Zenon

-----------------------------------------------------------------------------
LEMMA NextTable == Table(m) /\ [Next]_vars => Table(m)'
<1> SUFFICES ASSUME Table(m), [Next]_vars PROVE Table(m)'
  OBVIOUS
<1>1. Names \subseteq Known /\ Names \ Idle \subseteq Known /\ Consoles \subseteq Known
  BY NamesAreNotTheConsole DEF Known, Range, Std
<1>2. ASSUME NEW name \in Known, Open(name) \/ Close(name) \/ State(name) PROVE Table(m)'
  BY <1>2, OpenKeeps, CloseKeeps, StateKeeps
<1>3. ASSUME NEW name \in Known, Flush(name) \/ Reset(name) \/ Chars(name) \/ Lines(name)
      PROVE  Table(m)'
  BY <1>3, FoundKeeps, CountKeeps
<1>4. ASSUME NEW name \in Known, NEW start, NEW n, CharIn(name, start, n) \/ LineIn(name, start, n)
      PROVE  Table(m)'
  BY <1>4, CharInKeeps, LineInKeeps
<1>5. ASSUME NEW name \in Known, NEW start, NEW str, CharOut(name, str, start) \/ LineOut(name, str, start)
      PROVE  Table(m)'
  BY <1>5, CharOutKeeps, LineOutKeeps
<1>6. CASE Next
  <2>1. \/ \E name \in Known : \/ Open(name) \/ Close(name) \/ State(name)
                               \/ Flush(name) \/ Reset(name) \/ Chars(name) \/ Lines(name)
        \/ \E name \in Known, start \in Starts \union {0} :
             \/ \E n \in Counts \union {0, 1} : CharIn(name, start, n) \/ LineIn(name, start, n)
             \/ \E str \in Strings \union {<< >>} : CharOut(name, str, start) \/ LineOut(name, str, start)
    <3>1. CASE \E name \in Names : \/ call' = <<"open", name>> /\ Open(name)
                                   \/ call' = <<"close", name>> /\ Close(name)
      BY <3>1, <1>1, Zenon
    <3>2. CASE \E name \in Names \ Idle :
                 \/ call' = <<"state", name>> /\ State(name)
                 \/ call' = <<"flush", name>> /\ Flush(name)
                 \/ call' = <<"reset", name>> /\ Reset(name)
                 \/ call' = <<"chars", name>> /\ Chars(name)
                 \/ call' = <<"lines", name>> /\ Lines(name)
      BY <3>2, <1>1, Zenon
    <3>3. CASE \E name \in Names \ Idle : \E start \in Starts :
                 \/ \E n \in Counts : call' = <<"charin", name, start, n>> /\ CharIn(name, start, n)
                 \/ \E n \in {0, 1} : call' = <<"linein", name, start, n>> /\ LineIn(name, start, n)
                 \/ \E str \in Strings :
                      \/ call' = <<"charout", name, start, str>> /\ CharOut(name, str, start)
                      \/ call' = <<"lineout", name, start, str>> /\ LineOut(name, str, start)
      <4>1. PICK name \in Names \ Idle, start \in Starts :
                 \/ \E n \in Counts \union {0, 1} : CharIn(name, start, n) \/ LineIn(name, start, n)
                 \/ \E str \in Strings : CharOut(name, str, start) \/ LineOut(name, str, start)
        BY <3>3
      <4> QED BY <4>1, <1>1
    <3>4. CASE \E name \in Consoles :
                 \/ call' = <<"open", name>> /\ Open(name)
                 \/ call' = <<"linein", name, 0, 1>> /\ LineIn(name, 0, 1)
                 \/ call' = <<"lineout", name, 0, << >> >> /\ LineOut(name, << >>, 0)
      BY <3>4, <1>1
    <3> QED BY <1>6, <3>1, <3>2, <3>3, <3>4, Zenon DEF Next, Operation
  <2>2. CASE \E name \in Known : \/ Open(name) \/ Close(name) \/ State(name)
                                 \/ Flush(name) \/ Reset(name) \/ Chars(name) \/ Lines(name)
    BY <2>2, <1>2, <1>3
  <2>3. CASE \E name \in Known, start \in Starts \union {0} :
             \/ \E n \in Counts \union {0, 1} : CharIn(name, start, n) \/ LineIn(name, start, n)
             \/ \E str \in Strings \union {<< >>} : CharOut(name, str, start) \/ LineOut(name, str, start)
    BY <2>3, <1>4, <1>5
  <2> QED BY <2>1, <2>2, <2>3
<1>7. CASE UNCHANGED vars
  BY <1>7 DEF vars, Table
<1> QED BY <1>6, <1>7

\* The entry findEntry caches is the one at the index it caches, so ensureClose
\* removes the entry it was asked to, and a name never has two entries: for any
\* files, console streams, strings, positions, buffer and bounds.
THEOREM CacheAlwaysFound == Spec => []CacheFound
<1>1. Table(m) => CacheFound
  BY DEF Table, CacheFound, IsInjective
<1> QED BY <1>1, InitTable, NextTable, PTL DEF Spec

-----------------------------------------------------------------------------
(***************************************************************************)
(* Induction, as the provers here can use it: on sets of numbers.          *)
(***************************************************************************)
\* A set of numbers that is not empty has a least member.
LEMMA HasLeast ==
  ASSUME NEW T, T \subseteq Nat, T # {}
  PROVE  \E x \in T : \A y \in T : x <= y
<1> DEFINE Less == {p \in Nat \X Nat : p[1] < p[2]}
<1>1. IsWellFoundedOn(Less, Nat)
  BY NatLessThanWellFounded DEF OpToRel
<1>2. PICK x \in T : \A y \in T : ~(<<y, x>> \in Less)
  BY <1>1, WFMin
<1>3. ASSUME NEW y \in T PROVE x <= y
  <2>1. x \in Nat /\ y \in Nat
    OBVIOUS
  <2>2. CASE y < x
    <3>1. <<y, x>> \in Less
      BY <2>1, <2>2
    <3>2. QED BY <1>2, <3>1
  <2>3. QED BY <2>1, <2>2
<1>4. QED BY <1>3

\* What holds at 0, and at each number when it does before, holds up to n.
LEMMA UpTo ==
  ASSUME NEW n \in Nat, NEW T, 0 \in T, \A i \in 1..n : i - 1 \in T => i \in T
  PROVE  \A i \in 0..n : i \in T
<1> DEFINE Bad == {i \in Nat : i \in 0..n /\ i \notin T}
<1>1. CASE Bad # {}
  <2>1. PICK k \in Bad : \A l \in Bad : k <= l
    BY <1>1, HasLeast
  <2>2. k # 0 /\ k \in Nat /\ k \in 0..n /\ k \notin T
    BY <2>1
  <2>3. k \in 1..n /\ k - 1 \in Nat /\ k - 1 \in 0..n /\ ~(k <= k - 1)
    BY <2>2
  <2>4. k - 1 \in T
    BY <2>1, <2>3
  <2>5. QED BY <2>2, <2>3, <2>4
<1>2. CASE Bad = {}
  <2>1. ASSUME NEW i \in 0..n PROVE i \in T
    <3>1. i \notin Bad
      BY <1>2, Zenon
    <3>2. i \in Nat
      OBVIOUS
    <3>3. QED BY <3>1, <3>2
  <2>2. QED BY <2>1
<1>3. QED BY <1>1, <1>2

\* A sequence of n steps exists, whatever each step does: the reason why a recursive
\* function over 0..n gives something.
Steps(g, n, S, x, f) == g \in [0..n -> S] /\ g[0] = x /\ \A i \in 1..n : g[i] = f[i][g[i - 1]]

LEMMA StepsExist ==
  ASSUME NEW n \in Nat, NEW S, NEW x \in S, NEW f \in [1..n -> [S -> S]]
  PROVE  \E g : Steps(g, n, S, x, f)
<1> DEFINE T == {k \in 0..n : \E g \in [0..k -> S] :
                                g[0] = x /\ \A i \in 1..k : g[i] = f[i][g[i - 1]]}
<1>1. 0 \in T
  <2>1. [i \in 0..0 |-> x] \in [0..0 -> S] /\ [i \in 0..0 |-> x][0] = x /\ 1..0 = {} /\ 0 \in 0..n
    OBVIOUS
  <2>2. QED BY <2>1
<1>2. ASSUME NEW k \in 1..n, k - 1 \in T PROVE k \in T
  <2>1. PICK g \in [0..(k - 1) -> S] : g[0] = x /\ \A i \in 1..(k - 1) : g[i] = f[i][g[i - 1]]
    BY <1>2
  <2>2. k - 1 \in 0..(k - 1) /\ k \in 0..n
    OBVIOUS
  <2>3. PICK y \in S : y = f[k][g[k - 1]]
    <3>1. f[k] \in [S -> S] /\ g[k - 1] \in S
      BY <2>1, <2>2
    <3>2. QED BY <3>1
  <2> DEFINE h == [i \in 0..k |-> IF i < k THEN g[i] ELSE y]
  <2>4. \A i \in 0..k : i \in 0..(k - 1) \/ i = k
    OBVIOUS
  <2>5. h \in [0..k -> S] /\ h[0] = x
    BY <2>1, <2>3, <2>4
  <2>6. ASSUME NEW i \in 1..k PROVE h[i] = f[i][h[i - 1]]
    <3>1. i \in 0..k /\ i - 1 \in 0..k /\ i - 1 < k /\ i - 1 \in 0..(k - 1)
      OBVIOUS
    <3>2. h[i - 1] = g[i - 1]
      BY <3>1
    <3>3. CASE i < k
      <4>1. i \in 1..(k - 1) /\ h[i] = g[i]
        BY <3>1, <3>3
      <4>2. QED BY <2>1, <3>2, <4>1
    <3>4. CASE i = k
      <4>1. h[i] = y
        BY <3>1, <3>4
      <4>2. QED BY <2>3, <3>2, <3>4, <4>1
    <3>5. QED BY <3>3, <3>4
  <2> HIDE DEF h
  <2>7. QED BY <2>2, <2>5, <2>6
<1> HIDE DEF T
<1>3. n \in T
  <2>1. \A i \in 0..n : i \in T
    BY <1>1, <1>2, UpTo
  <2>2. QED BY <2>1
<1>4. QED BY <1>3 DEF T, Steps

-----------------------------------------------------------------------------
(***************************************************************************)
(* The methods of FileStreamBuf keep a stream good.                        *)
(***************************************************************************)
Stored == Bytes \union {Hole}

\* What a stream that the operations leave is, beyond its type.
Good(s) ==
  /\ s \in Stream
  /\ s.g <= s.eg /\ s.eg <= s.posGet
  /\ s.pb <= s.p /\ (s.pb = BufSize => s.most = 0)
  /\ ~s.has => s.eg = 0 /\ s.pb = BufSize
  /\ s.io = "PUT" => s.eg = 0 /\ s.off = s.posPut
  /\ s.io # "PUT" => s.pb = BufSize /\ s.off = s.posGet
  /\ s.io = "NONE" => s.eg = 0 /\ s.off = s.posPut
  /\ \A i \in 0..(BufSize - 1) : s.pb = 0 /\ (i < s.p \/ i < s.most) => s.buf[i] \in Bytes
  /\ s.io = "GET" => \A i \in 0..(s.eg - 1) : /\ s.posGet - s.eg + i + 1 \in 1..Len(s.file)
                                              /\ s.buf[i] = s.file[s.posGet - s.eg + i + 1]

LEMMA Sizes == BufSize \in Nat /\ BufSize > 1 /\ MinUnget \in Nat /\ MinUnget < BufSize
BY SizesAreNat, SizesFit

LEMMA BuffersTyped == NoBytes \in [0..(BufSize - 1) -> Bytes \union {Junk, Hole}]
BY DEF NoBytes

LEMMA StreamFields ==
  ASSUME NEW s \in Stream
  PROVE  /\ s.buf \in [0..(BufSize - 1) -> Bytes \union {Junk, Hole}]
         /\ s.g \in 0..BufSize /\ s.eg \in 0..BufSize /\ s.pb \in {0, BufSize} /\ s.p \in 0..BufSize
         /\ s.io \in {"NONE", "GET", "PUT"} /\ s.posGet \in Nat /\ s.posPut \in Nat /\ s.most \in 0..BufSize
         /\ s.has \in BOOLEAN /\ s.file \in Seq(Stored) /\ s.off \in Nat /\ Len(s.file) \in Nat
BY LenProperties, Zenon DEF Stream, Stored

LEMMA OpenedGood ==
  ASSUME NEW file \in Seq(Stored)
  PROVE  Good(Opened(file)) /\ Opened(file).io = "NONE" /\ Opened(file).file = file
         /\ Opened(file).posGet = 0 /\ Opened(file).eg = 0 /\ Opened(file).g = 0
BY Sizes, BuffersTyped DEF Opened, Good, Stream, Stored

\* Writing s over a file leaves a file.
LEMMA OverwriteTyped ==
  ASSUME NEW file \in Seq(Stored), NEW at \in Nat, NEW n \in Nat, NEW s, Len(s) = n,
         \A i \in 1..n : s[i] \in Stored
  PROVE  Overwrite(file, at, s) \in Seq(Stored)
<1>1. PICK k \in Nat : k = IF at + n > Len(file) THEN at + n ELSE Len(file)
  BY LenProperties
<1>2. Overwrite(file, at, s) = [i \in 1..k |-> IF at < i /\ i <= at + n THEN s[i - at]
                                               ELSE IF i <= Len(file) THEN file[i] ELSE Hole]
  BY <1>1 DEF Overwrite
<1>3. ASSUME NEW i \in 1..k
      PROVE  (IF at < i /\ i <= at + n THEN s[i - at] ELSE IF i <= Len(file) THEN file[i] ELSE Hole) \in Stored
  <2>1. CASE at < i /\ i <= at + n
    <3>1. i - at \in 1..n
      BY <2>1
    <3>2. QED BY <2>1, <3>1
  <2>2. CASE ~(at < i /\ i <= at + n) /\ i <= Len(file)
    <3>1. i \in 1..Len(file)
      BY <2>2
    <3>2. QED BY <2>2, <3>1, ElementOfSeq
  <2>3. CASE ~(at < i /\ i <= at + n) /\ ~(i <= Len(file))
    BY <2>3 DEF Stored
  <2>4. QED BY <2>1, <2>2, <2>3
<1>4. Overwrite(file, at, s) \in [1..k -> Stored]
  BY <1>2, <1>3
<1>5. QED BY <1>1, <1>4, SeqDef

LEMMA SpanLen ==
  ASSUME NEW s, NEW i, NEW n \in Nat
  PROVE  Len(Span(s, i, n)) = n /\ \A k \in 1..n : Span(s, i, n)[k] = s.buf[i + k - 1]
BY DEF Span

\* Bytes that wait are written where posPut is.
LEMMA FlushSomeGood ==
  ASSUME NEW s, Good(s), s.io = "PUT", s.pb = 0, NEW n \in 0..BufSize,
         \A i \in 0..(n - 1) : s.buf[i] \in Bytes
  PROVE  LET t == FlushSome(s, n)
         IN  /\ t \in Stream /\ t.io = "PUT" /\ t.pb = 0 /\ t.p = 0 /\ t.off = s.off + n /\ t.posPut = s.posPut + n
             /\ t.g = s.g /\ t.eg = s.eg /\ t.posGet = s.posGet /\ t.most = s.most
             /\ t.has = s.has
<1>1. s \in Stream
  BY DEF Good
<1>2. PICK f : f = Overwrite(s.file, s.off, Span(s, 0, n))
  OBVIOUS
<1>3. f \in Seq(Stored)
  <2>1. n \in Nat /\ Len(Span(s, 0, n)) = n /\ \A k \in 1..n : Span(s, 0, n)[k] = s.buf[0 + k - 1]
    BY Sizes, SpanLen
  <2>2. \A k \in 1..n : 0 + k - 1 \in 0..(n - 1)
    BY <2>1
  <2>3. \A k \in 1..n : Span(s, 0, n)[k] \in Stored
    BY <2>1, <2>2 DEF Stored
  <2>4. s.file \in Seq(Stored) /\ s.off \in Nat
    BY <1>1, StreamFields
  <2>5. QED BY <1>2, <2>1, <2>3, <2>4, OverwriteTyped
<1>4. FlushSome(s, n) = [s EXCEPT !.buf = NoBytes, !.io = "PUT", !.pb = 0, !.p = 0, !.file = f,
                                  !.off = s.off + n, !.posPut = s.posPut + n]
  BY <1>1, <1>2 DEF FlushSome, Unused, Stream
<1>5. s.off + n \in Nat /\ s.posPut + n \in Nat /\ 0 \in 0..BufSize
  BY <1>1, StreamFields, Sizes
<1>6. PICK o \in Nat, q \in Nat : o = s.off + n /\ q = s.posPut + n
  BY <1>5
<1>7. PICK t : t = [s EXCEPT !.buf = NoBytes, !.io = "PUT", !.pb = 0, !.p = 0, !.file = f,
                             !.off = o, !.posPut = q]
  OBVIOUS
<1>8. t \in Stream
  BY <1>1, <1>3, <1>5, <1>7, BuffersTyped DEF Stream, Stored
<1>9. /\ t.io = "PUT" /\ t.pb = 0 /\ t.p = 0 /\ t.off = o /\ t.posPut = q
      /\ t.g = s.g /\ t.eg = s.eg /\ t.posGet = s.posGet /\ t.most = s.most /\ t.has = s.has
  BY <1>1, <1>7 DEF Stream
<1>10. FlushSome(s, n) = t
  BY <1>4, <1>6, <1>7
<1>11. QED BY <1>6, <1>8, <1>9, <1>10

LEMMA SyncOutGood ==
  ASSUME NEW s, Good(s)
  PROVE  LET t == SyncOut(s)
         IN  /\ Good(t) /\ t.io = s.io /\ t.pb = BufSize /\ t.p = BufSize /\ t.most = 0
             /\ t.g = s.g /\ t.eg = s.eg /\ t.posGet = s.posGet /\ t.has = s.has
             /\ s.io # "PUT" => t = s
<1>1. s \in Stream
  BY DEF Good
<1>2. CASE Waiting(s) > 0
  <2>1. PICK n \in 0..BufSize : n = Waiting(s)
    BY <1>1, Sizes, StreamFields DEF Waiting, OutWaiting, Good
  <2>2. s.io = "PUT" /\ s.pb = 0
    BY <1>1, <1>2, Sizes, StreamFields DEF Waiting, OutWaiting, Good
  <2>3. \A i \in 0..(n - 1) : s.buf[i] \in Bytes
    BY <1>1, <2>1, <2>2, Sizes, StreamFields DEF Waiting, OutWaiting, Good
  <2>4. PICK u : u = FlushSome(s, n)
    OBVIOUS
  <2>5. /\ u \in Stream /\ u.io = "PUT" /\ u.pb = 0 /\ u.p = 0 /\ u.off = s.off + n /\ u.posPut = s.posPut + n
        /\ u.g = s.g /\ u.eg = s.eg /\ u.posGet = s.posGet /\ u.most = s.most /\ u.has = s.has
    BY <2>2, <2>3, <2>4, FlushSomeGood
  <2>6. SyncOut(s) = [u EXCEPT !.most = 0, !.pb = BufSize, !.p = BufSize]
    BY <1>2, <2>1, <2>4, <2>5 DEF SyncOut, NoOutput, Stream
  <2>7. PICK t : t = SyncOut(s)
    OBVIOUS
  <2>8. t \in Stream
    <3>1. u \in Stream /\ 0 \in 0..BufSize /\ BufSize \in 0..BufSize
      BY <2>5, Sizes
    <3>2. t = [u EXCEPT !.most = 0, !.pb = BufSize, !.p = BufSize]
      BY <2>6, <2>7
    <3>3. QED BY <3>1, <3>2 DEF Stream
  <2>9. /\ t.io = "PUT" /\ t.pb = BufSize /\ t.p = BufSize /\ t.most = 0 /\ t.off = u.off /\ t.posPut = u.posPut
        /\ t.g = s.g /\ t.eg = s.eg /\ t.posGet = s.posGet /\ t.has = s.has
    BY <2>5, <2>6, <2>7 DEF Stream
  <2>10. Good(t)
    <3>1. s.g <= s.eg /\ s.eg <= s.posGet /\ s.eg = 0 /\ s.off = s.posPut
      BY <2>2 DEF Good
    <3>2. t.off = t.posPut
      BY <2>5, <2>9, <3>1
    <3>3. BufSize # 0 /\ BufSize <= BufSize
      BY Sizes
    <3>4. QED BY <2>8, <2>9, <3>1, <3>2, <3>3 DEF Good
  <2>11. QED BY <2>2, <2>7, <2>9, <2>10
<1>3. CASE ~(Waiting(s) > 0)
  <2>1. SyncOut(s) = [s EXCEPT !.most = 0, !.pb = BufSize, !.p = BufSize]
    BY <1>1, <1>3 DEF SyncOut, NoOutput, Stream
  <2>2. s.most = 0
    BY <1>1, <1>3, Sizes, StreamFields DEF Waiting, OutWaiting, Good
  <2>3. s.io # "PUT" => s.p = BufSize /\ s.pb = BufSize
    BY <1>1, Sizes, StreamFields DEF Good
  <2>4. s.io # "PUT" => SyncOut(s) = s
    <3>1. SUFFICES ASSUME s.io # "PUT" PROVE SyncOut(s) = s
      OBVIOUS
    <3>2. SyncOut(s) = [s EXCEPT !.most = s.most, !.pb = s.pb, !.p = s.p]
      BY <2>1, <2>2, <2>3, <3>1
    <3>3. [s EXCEPT !.most = s.most, !.pb = s.pb, !.p = s.p] = s
      BY <1>1 DEF Stream
    <3>4. QED BY <3>2, <3>3
  <2>5. PICK t : t = SyncOut(s)
    OBVIOUS
  <2>6. t \in Stream
    <3>1. 0 \in 0..BufSize /\ BufSize \in 0..BufSize
      BY Sizes
    <3>2. QED BY <1>1, <2>1, <2>5, <3>1 DEF Stream
  <2>7. /\ t.io = s.io /\ t.pb = BufSize /\ t.p = BufSize /\ t.most = 0 /\ t.off = s.off /\ t.posPut = s.posPut
        /\ t.g = s.g /\ t.eg = s.eg /\ t.posGet = s.posGet /\ t.file = s.file /\ t.buf = s.buf /\ t.has = s.has
    BY <1>1, <2>1, <2>5 DEF Stream
  <2>8. Good(t)
    <3>1. BufSize # 0 /\ BufSize <= BufSize
      BY Sizes
    <3>2. QED BY <2>6, <2>7, <3>1 DEF Good
  <2>9. QED BY <2>4, <2>5, <2>7, <2>8
<1>4. QED BY <1>2, <1>3

LEMMA Ends == 0 \in 0..BufSize /\ BufSize \in 0..BufSize /\ BufSize # 0 /\ BufSize <= BufSize
BY Sizes

LEMMA Pointers ==
  ASSUME NEW s, Good(s)
  PROVE  /\ s \in Stream /\ s.g \in 0..s.eg /\ InAvail(s) \in 0..s.eg /\ InAvail(s) = s.eg - s.g
         /\ ReadPos(s) \in Nat /\ ReadPos(s) = s.posGet - s.eg + s.g /\ s.posGet - s.eg \in Nat
         /\ WritePos(s) \in Nat
         /\ s.io # "GET" => s.eg = 0 /\ s.g = 0
BY Sizes, StreamFields DEF Good, InAvail, OutWaiting, ReadPos, WritePos

LEMMA SyncInGood ==
  ASSUME NEW s, Good(s), s.pb = BufSize
  PROVE  LET t == SyncIn(s)
         IN  /\ Good(t) /\ ReadPos(t) = ReadPos(s) /\ t.file = s.file
             /\ s.io # "PUT" => t.io # "PUT"
<1>1. /\ s \in Stream /\ s.g \in 0..s.eg /\ InAvail(s) = s.eg - s.g /\ ReadPos(s) \in Nat
      /\ ReadPos(s) = s.posGet - s.eg + s.g /\ ReadPos(s) = s.posGet - InAvail(s)
      /\ s.io # "GET" => s.eg = 0 /\ s.g = 0
  BY Pointers DEF ReadPos
<1>2. s.eg \in Nat /\ s.g \in Nat /\ s.posGet \in Nat /\ s.p = BufSize /\ s.most = 0
  BY <1>1, StreamFields, Sizes DEF Good
<1>3. PICK q \in Nat : q = ReadPos(s)
  BY <1>1
<1>4. CASE InAvail(s) = 0
  <2>1. PICK t : t = [s EXCEPT !.buf = NoBytes, !.g = 0, !.eg = 0]
    OBVIOUS
  <2>2. SyncIn(s) = t
    BY <1>1, <1>4, <2>1 DEF SyncIn, NoInput, Unused, Stream
  <2>3. t \in Stream
    BY <1>1, <2>1, BuffersTyped, Ends DEF Stream
  <2>4. /\ t.g = 0 /\ t.eg = 0 /\ t.pb = s.pb /\ t.p = s.p /\ t.io = s.io /\ t.posGet = s.posGet
        /\ t.posPut = s.posPut /\ t.most = s.most /\ t.has = s.has /\ t.file = s.file /\ t.off = s.off
    BY <1>1, <2>1 DEF Stream
  <2>5. Good(t)
    BY <1>2, <2>3, <2>4, Ends DEF Good
  <2>6. ReadPos(t) = ReadPos(s)
    BY <1>1, <1>2, <1>4, <2>4 DEF ReadPos, InAvail
  <2>7. QED BY <2>2, <2>4, <2>5, <2>6
<1>5. CASE InAvail(s) # 0
  <2>1. PICK t : t = [s EXCEPT !.off = q, !.io = "GET", !.posGet = q, !.buf = NoBytes, !.g = 0, !.eg = 0]
    OBVIOUS
  <2>2. SyncIn(s) = t
    BY <1>1, <1>3, <1>5, <2>1 DEF SyncIn, NoInput, Unused, Stream
  <2>3. t \in Stream
    BY <1>1, <2>1, BuffersTyped, Ends DEF Stream
  <2>4. /\ t.g = 0 /\ t.eg = 0 /\ t.pb = s.pb /\ t.p = s.p /\ t.io = "GET" /\ t.posGet = q
        /\ t.posPut = s.posPut /\ t.most = s.most /\ t.has = s.has /\ t.file = s.file /\ t.off = q
    BY <1>1, <2>1 DEF Stream
  <2>5. Good(t)
    BY <1>2, <2>3, <2>4, Ends DEF Good
  <2>6. ReadPos(t) = ReadPos(s)
    BY <1>3, <2>4 DEF ReadPos, InAvail
  <2>7. QED BY <2>2, <2>4, <2>5, <2>6
<1>6. QED BY <1>4, <1>5

\* sync() moves neither position, and the file of a stream that is read is left alone.
LEMMA SyncGood ==
  ASSUME NEW s, Good(s)
  PROVE  /\ Good(Sync(s))
         /\ s.io # "PUT" => /\ Sync(s).io # "PUT" /\ Sync(s).file = s.file
                            /\ ReadPos(Sync(s)) = ReadPos(s)
<1>1. PICK u : u = SyncOut(s)
  OBVIOUS
<1>2. Good(u) /\ u.pb = BufSize /\ (s.io # "PUT" => u = s)
  BY <1>1, SyncOutGood
<1>3. Sync(s) = SyncIn(u)
  BY <1>1 DEF Sync
<1>4. QED BY <1>2, <1>3, SyncInGood

-----------------------------------------------------------------------------
\* Before bytes are read from index g on: those below g are a piece of the file.
Ready(s) ==
  /\ s \in Stream /\ s.has /\ s.g < BufSize /\ s.g <= s.posGet /\ s.off = s.posGet
  /\ s.pb = BufSize /\ s.p = BufSize /\ s.most = 0
  /\ \A i \in 0..(s.g - 1) : /\ s.posGet - s.g + i + 1 \in 1..Len(s.file)
                             /\ s.buf[i] = s.file[s.posGet - s.g + i + 1]

LEMMA ReadAheadGood ==
  ASSUME NEW s, Ready(s)
  PROVE  LET t == ReadAhead(s)
         IN  /\ Good(t) /\ t.io = "GET" /\ t.file = s.file /\ ReadPos(t) = s.posGet
             /\ t.posPut = s.posPut /\ t.has
             /\ t.g < t.eg <=> s.posGet < Len(s.file)
<1>1. /\ s \in Stream /\ s.g \in 0..BufSize /\ s.posGet \in Nat /\ s.off = s.posGet /\ s.g < BufSize
      /\ s.pb = BufSize /\ s.p = BufSize /\ s.most = 0 /\ s.g <= s.posGet /\ BufSize \in Nat
      /\ s.file \in Seq(Stored) /\ Len(s.file) \in Nat /\ s.g \in Nat
  BY StreamFields, Sizes DEF Ready
<1>2. PICK n \in Nat : LET left == Len(s.file) - s.off
                       IN  n = IF left <= 0 THEN 0 ELSE IF left < BufSize - s.g THEN left ELSE BufSize - s.g
  BY <1>1
<1>3. /\ s.g + n \in 0..BufSize /\ (n # 0 => s.posGet + n \in 1..Len(s.file))
      /\ n # 0 <=> s.posGet < Len(s.file)
  <2>1. PICK l \in Int : l = Len(s.file) - s.posGet
    BY <1>1
  <2>2. PICK d \in Nat : d = BufSize - s.g /\ d > 0
    BY <1>1
  <2>3. n = IF l <= 0 THEN 0 ELSE IF l < d THEN l ELSE d
    BY <1>1, <1>2, <2>1, <2>2
  <2>4. n <= d /\ (n # 0 => n <= l) /\ (n # 0 <=> l > 0)
    BY <2>1, <2>2, <2>3
  <2>5. s.g + n \in 0..BufSize
    BY <1>1, <2>2, <2>4
  <2>6. n # 0 => s.posGet + n \in 1..Len(s.file)
    BY <1>1, <2>1, <2>4
  <2>7. n # 0 <=> s.posGet < Len(s.file)
    BY <1>1, <2>1, <2>4
  <2>8. QED BY <2>5, <2>6, <2>7
<1>4. PICK b : b = [i \in 0..(BufSize - 1) |-> IF s.g <= i /\ i < s.g + n THEN s.file[s.off + i - s.g + 1]
                                               ELSE s.buf[i]]
  OBVIOUS
<1>5. ASSUME NEW i \in 0..(BufSize - 1), s.g <= i, i < s.g + n
      PROVE  s.posGet + i - s.g + 1 \in 1..Len(s.file) /\ b[i] = s.file[s.posGet + i - s.g + 1] /\ b[i] \in Stored
  <2>1. s.posGet + i - s.g + 1 \in 1..Len(s.file)
    <3>1. PICK d \in Nat : i = s.g + d /\ d < n
      <4>1. i - s.g \in Nat /\ i = s.g + (i - s.g) /\ i - s.g < n
        BY <1>1, <1>5
      <4>2. QED BY <4>1
    <3>2. n # 0 /\ s.posGet + n <= Len(s.file)
      BY <1>3, <3>1
    <3>3. s.posGet + i - s.g + 1 = s.posGet + d + 1
      BY <1>1, <3>1
    <3>4. QED BY <1>1, <3>1, <3>2, <3>3
  <2>2. b[i] = s.file[s.posGet + i - s.g + 1]
    BY <1>1, <1>4, <1>5
  <2>3. QED BY <1>1, <2>1, <2>2, ElementOfSeq
<1>6. ASSUME NEW i \in 0..(BufSize - 1), ~(s.g <= i /\ i < s.g + n)
      PROVE  b[i] = s.buf[i] /\ b[i] \in Bytes \union {Junk, Hole}
  <2>1. s.buf[i] \in Bytes \union {Junk, Hole}
    BY <1>1, StreamFields
  <2>2. QED BY <1>4, <1>6, <2>1
<1>7. b \in [0..(BufSize - 1) -> Bytes \union {Junk, Hole}]
  <2>1. \A i \in 0..(BufSize - 1) : b[i] \in Bytes \union {Junk, Hole}
    BY <1>5, <1>6 DEF Stored
  <2>2. QED BY <1>4, <2>1
<1>8. PICK q \in Nat : q = s.posGet + n
  BY <1>1
<1>9. PICK e \in 0..BufSize : e = s.g + n
  BY <1>3
<1>10. PICK t : t = [s EXCEPT !.buf = b, !.io = "GET", !.off = q, !.posGet = q, !.eg = e]
  OBVIOUS
<1>11. ReadAhead(s) = t
  <2>1. ReadAhead(s) = [s EXCEPT !.buf = [i \in 0..(BufSize - 1) |->
                           IF s.g <= i /\ i < s.g + n THEN s.file[s.off + i - s.g + 1] ELSE @[i]],
                !.io = "GET", !.off = @ + n, !.posGet = @ + n, !.eg = s.g + n]
    BY <1>2, Zenon DEF ReadAhead
  <2>2. [s EXCEPT !.buf = [i \in 0..(BufSize - 1) |->
                           IF s.g <= i /\ i < s.g + n THEN s.file[s.off + i - s.g + 1] ELSE @[i]],
                !.io = "GET", !.off = @ + n, !.posGet = @ + n, !.eg = s.g + n] = t
    BY <1>1, <1>4, <1>8, <1>9, <1>10 DEF Stream
  <2>3. QED BY <2>1, <2>2
<1>12. t \in Stream
  BY <1>1, <1>7, <1>10 DEF Stream
<1>13. /\ t.buf = b /\ t.g = s.g /\ t.eg = e /\ t.pb = s.pb /\ t.p = s.p /\ t.io = "GET" /\ t.posGet = q
       /\ t.posPut = s.posPut /\ t.most = s.most /\ t.file = s.file /\ t.off = q
  BY <1>1, <1>10 DEF Stream
<1>14. e <= q /\ s.g <= e /\ q - e = s.posGet - s.g
  BY <1>1, <1>8, <1>9
<1>15. ASSUME NEW i \in 0..(e - 1) PROVE q - e + i + 1 \in 1..Len(s.file) /\ b[i] = s.file[q - e + i + 1]
  <2>1. i \in 0..(BufSize - 1) /\ q - e + i + 1 = s.posGet + i - s.g + 1
    <3>1. i \in Int /\ i < e /\ 0 <= i /\ e <= BufSize
      BY <1>1, <1>9
    <3>2. QED BY <1>1, <1>14, <3>1
  <2>2. CASE s.g <= i
    <3>1. i < s.g + n
      BY <1>1, <1>9, <2>2
    <3>2. QED BY <1>5, <2>1, <2>2, <3>1
  <2>3. CASE ~(s.g <= i)
    <3>1. i \in 0..(s.g - 1)
      BY <1>1, <2>3
    <3>2. s.posGet - s.g + i + 1 \in 1..Len(s.file) /\ s.buf[i] = s.file[s.posGet - s.g + i + 1]
      BY <3>1 DEF Ready
    <3>3. b[i] = s.buf[i]
      BY <1>6, <2>1, <2>3
    <3>4. s.posGet - s.g + i + 1 = s.posGet + i - s.g + 1
      BY <1>1
    <3>5. QED BY <2>1, <3>2, <3>3, <3>4
  <2>4. QED BY <2>2, <2>3
<1>16. Good(t) /\ t.has
  <2>1. t.has
    BY <1>1, <1>10 DEF Ready, Stream
  <2>2. t.g <= t.eg /\ t.eg <= t.posGet /\ t.pb <= t.p /\ t.most = 0 /\ t.pb = BufSize /\ t.off = t.posGet
    BY <1>1, <1>13, <1>14
  <2>3. \A i \in 0..(t.eg - 1) : /\ t.posGet - t.eg + i + 1 \in 1..Len(t.file)
                               /\ t.buf[i] = t.file[t.posGet - t.eg + i + 1]
    BY <1>13, <1>15
  <2>4. t.pb # 0 /\ t.io = "GET"
    BY <1>1, <1>13
  <2>5. /\ ~t.has => t.eg = 0 /\ t.pb = BufSize
        /\ \A i \in 0..(BufSize - 1) : t.pb = 0 /\ (i < t.p \/ i < t.most) => t.buf[i] \in Bytes
        /\ t.io = "PUT" => t.eg = 0 /\ t.off = t.posPut
        /\ t.io = "NONE" => t.eg = 0 /\ t.off = t.posPut
    BY <2>1, <2>4, Zenon
  <2>6. QED BY <1>12, <2>1, <2>2, <2>3, <2>4, <2>5 DEF Good
<1>17. ReadPos(t) = s.posGet
  <2>1. ReadPos(t) = q - (e - s.g)
    BY <1>13 DEF ReadPos, InAvail
  <2>2. s.posGet \in Int /\ s.g \in Int /\ q = s.posGet + n /\ e = s.g + n
    BY <1>1, <1>8, <1>9
  <2>3. QED BY <2>1, <2>2
<1>18. t.g < t.eg <=> s.posGet < Len(s.file)
  BY <1>1, <1>3, <1>9, <1>13
<1>19. QED BY <1>11, <1>13, <1>16, <1>17, <1>18

\* Filling the buffer again loses no byte and repeats none.
LEMMA UnderflowGood ==
  ASSUME NEW s, Good(s), s.g = s.eg
  PROVE  LET t == Underflow(s)
         IN  /\ Good(t) /\ t.io = "GET" /\ ReadPos(t) = ReadPos(s)
             /\ t.g < t.eg <=> ReadPos(s) < Len(t.file)
             /\ t.file = SyncOut(s).file /\ t.posPut = SyncOut(s).posPut
             /\ s.io # "PUT" => t.file = s.file
             /\ t.has
<1>1. /\ s \in Stream /\ ReadPos(s) = s.posGet /\ s.posGet \in Nat /\ BufSize \in Nat /\ s.g \in 0..BufSize
      /\ s.io # "GET" => s.eg = 0 /\ s.g = 0
  BY Pointers, StreamFields, Sizes
<1>2. CASE s.io = "PUT"
  <2>1. PICK u : u = SyncOut(s)
    OBVIOUS
  <2>2. Good(u) /\ u.io = "PUT" /\ u.pb = BufSize /\ u.p = BufSize /\ u.most = 0 /\ u.posGet = s.posGet
    BY <1>2, <2>1, SyncOutGood
  <2>3. u \in Stream /\ u.off = u.posPut /\ u.posPut \in Nat
    BY <2>2, StreamFields DEF Good
  <2>4. PICK t : t = [u EXCEPT !.buf = NoBytes, !.off = s.posGet, !.g = 0, !.has = TRUE]
    OBVIOUS
  <2>5. [ToRead(u) EXCEPT !.has = TRUE] = t
    <3>1. u.off + u.posGet - u.posPut = s.posGet
      BY <1>1, <2>2, <2>3
    <3>2. ToRead(u) = [u EXCEPT !.buf = NoBytes, !.off = u.off + u.posGet - u.posPut, !.g = 0]
      BY <2>3 DEF ToRead, Unused, Stream
    <3>3. QED BY <2>3, <2>4, <3>1, <3>2 DEF Stream
  <2>6. t \in Stream
    BY <1>1, <2>3, <2>4, BuffersTyped, Ends DEF Stream
  <2>7. t.has /\ t.g = 0 /\ t.off = s.posGet /\ t.posGet = s.posGet /\ t.pb = BufSize /\ t.p = BufSize /\ t.most = 0
        /\ t.file = u.file /\ t.posPut = u.posPut
    BY <2>2, <2>3, <2>4 DEF Stream
  <2>8. Ready(t)
    BY <1>1, <2>6, <2>7, Sizes DEF Ready
  <2>9. Underflow(s) = ReadAhead(t)
    BY <1>2, <2>1, <2>5 DEF Underflow
  <2>10. QED BY <1>1, <1>2, <2>1, <2>7, <2>8, <2>9, ReadAheadGood
<1>3. CASE s.io # "PUT" /\ s.g = BufSize
  <2>1. s.io = "GET" /\ s.eg = BufSize
    BY <1>1, <1>3, Sizes
  <2>2. PICK b : b = [i \in 0..(BufSize - 1) |-> IF i < MinUnget THEN s.buf[BufSize - MinUnget + i] ELSE Junk]
    OBVIOUS
  <2>3. PICK t : t = [s EXCEPT !.g = MinUnget, !.buf = b, !.has = TRUE]
    OBVIOUS
  <2>4. Underflow(s) = ReadAhead(t)
    <3>1. [Wrapped(s) EXCEPT !.has = TRUE] = t
      BY <1>1, <2>2, <2>3 DEF Wrapped, Stream
    <3>2. QED BY <1>3, <3>1 DEF Underflow
  <2>5. ASSUME NEW i \in 0..(MinUnget - 1)
        PROVE  /\ BufSize - MinUnget + i \in 0..(BufSize - 1) /\ i \in 0..(BufSize - 1)
               /\ b[i] = s.buf[BufSize - MinUnget + i]
    <3>1. BufSize - MinUnget + i \in 0..(BufSize - 1) /\ i \in 0..(BufSize - 1) /\ i < MinUnget
      BY Sizes
    <3>2. QED BY <2>2, <3>1
  <2>6. b \in [0..(BufSize - 1) -> Bytes \union {Junk, Hole}]
    <3>1. ASSUME NEW i \in 0..(BufSize - 1) PROVE b[i] \in Bytes \union {Junk, Hole}
      <4>1. CASE i < MinUnget
        <5>1. i \in 0..(MinUnget - 1)
          BY Sizes, <4>1
        <5>2. QED BY <1>1, <2>5, <5>1, StreamFields
      <4>2. CASE ~(i < MinUnget)
        BY <2>2, <4>2
      <4>3. QED BY <4>1, <4>2
    <3>2. QED BY <2>2, <3>1
  <2>7. t \in Stream
    <3>1. MinUnget \in 0..BufSize
      BY Sizes
    <3>2. QED BY <1>1, <2>3, <2>6, <3>1 DEF Stream
  <2>8. /\ t.has /\ t.g = MinUnget /\ t.buf = b /\ t.off = s.off /\ t.posGet = s.posGet /\ t.pb = s.pb /\ t.p = s.p
        /\ t.most = s.most /\ t.file = s.file /\ t.posPut = s.posPut
    BY <1>1, <2>3 DEF Stream
  <2>9. /\ s.off = s.posGet /\ s.pb = BufSize /\ s.p = BufSize /\ s.most = 0 /\ BufSize <= s.posGet
    BY <1>1, <2>1, StreamFields, Sizes DEF Good
  <2>10. ASSUME NEW i \in 0..(MinUnget - 1)
         PROVE  /\ s.posGet - MinUnget + i + 1 \in 1..Len(s.file)
                /\ b[i] = s.file[s.posGet - MinUnget + i + 1]
    <3>1. PICK j \in 0..(BufSize - 1) : j = BufSize - MinUnget + i
      BY <2>5
    <3>2. j \in 0..(s.eg - 1)
      BY <2>1, <3>1
    <3>3. s.posGet - s.eg + j + 1 \in 1..Len(s.file) /\ s.buf[j] = s.file[s.posGet - s.eg + j + 1]
      BY <2>1, <3>2 DEF Good
    <3>4. s.posGet - s.eg + j + 1 = s.posGet - MinUnget + i + 1
      BY <1>1, <2>1, <3>1, Sizes
    <3>5. QED BY <2>5, <3>1, <3>3, <3>4
  <2>11. Ready(t)
    BY <1>1, <2>7, <2>8, <2>9, <2>10, Sizes DEF Ready
  <2>12. SyncOut(s) = s
    BY <1>3, SyncOutGood
  <2>13. QED BY <1>1, <1>3, <2>4, <2>8, <2>11, <2>12, ReadAheadGood
<1>4. CASE s.io # "PUT" /\ s.g # BufSize
  <2>1. PICK t : t = [s EXCEPT !.has = TRUE]
    OBVIOUS
  <2>2. /\ t \in Stream /\ t.has /\ t.buf = s.buf /\ t.g = s.g /\ t.off = s.off /\ t.posGet = s.posGet
        /\ t.pb = s.pb /\ t.p = s.p /\ t.most = s.most /\ t.file = s.file /\ t.posPut = s.posPut
    BY <1>1, <2>1 DEF Stream
  <2>3. Underflow(s) = ReadAhead(t)
    BY <1>4, <2>1 DEF Underflow
  <2>4. s.off = s.posGet /\ s.pb = BufSize /\ s.p = BufSize /\ s.most = 0 /\ s.eg <= s.posGet
    BY <1>1, <1>4, StreamFields, Sizes DEF Good
  <2>5. s.io # "GET" => 0..(s.g - 1) = {}
    BY <1>1
  <2>6. ASSUME NEW i \in 0..(s.g - 1)
        PROVE  /\ s.posGet - s.g + i + 1 \in 1..Len(s.file)
               /\ s.buf[i] = s.file[s.posGet - s.g + i + 1]
    BY <1>1, <1>4, <2>5 DEF Good
  <2>7. Ready(t)
    BY <1>1, <1>4, <2>2, <2>4, <2>6, Sizes DEF Ready
  <2>8. SyncOut(s) = s
    BY <1>4, SyncOutGood
  <2>9. QED BY <1>1, <1>4, <2>2, <2>3, <2>7, <2>8, ReadAheadGood
<1>5. QED BY <1>2, <1>3, <1>4

\* What a read of a byte does: it gives the one at the read position.
Reads(s, r, k) ==
  /\ Good(r.s) /\ r.s.io = "GET" /\ r.s.has /\ ReadPos(r.s) = ReadPos(s) + k /\ r.c \in Stored \union {EOF}
  /\ s.io # "PUT" => /\ r.s.file = s.file
                     /\ r.c = EOF <=> ReadPos(s) >= Len(s.file)
                     /\ r.c # EOF => ReadPos(s) + 1 \in 1..Len(s.file) /\ r.c = s.file[ReadPos(s) + 1]

LEMMA PeekGood ==
  ASSUME NEW s, Good(s)
  PROVE  Reads(s, Peek(s), 0) /\ Peek(s) = [s |-> Peek(s).s, c |-> Peek(s).c]
         /\ (Peek(s).c # EOF => Peek(s).s.g < Peek(s).s.eg)
<1>1. PICK t : t = IF s.g < s.eg THEN s ELSE Underflow(s)
  OBVIOUS
<1>2. s.g \in 0..s.eg /\ s.eg \in Nat /\ s.g \in Nat /\ ReadPos(s) \in Nat
  BY Pointers, StreamFields DEF Good
<1>3. /\ Good(t) /\ t.io = "GET" /\ t.has /\ ReadPos(t) = ReadPos(s)
      /\ s.io # "PUT" => t.file = s.file
  <2>1. CASE s.g < s.eg
    <3>1. s.io = "GET"
      BY <1>2, <2>1, Pointers
    <3>2. s.has
      BY <1>2, <2>1 DEF Good
    <3>3. QED BY <1>1, <2>1, <3>1, <3>2
  <2>2. CASE ~(s.g < s.eg)
    <3>1. s.g = s.eg
      BY <1>2, <2>2
    <3>2. QED BY <1>1, <2>2, <3>1, UnderflowGood
  <2>3. QED BY <2>1, <2>2
<1>4. t.g < t.eg <=> ReadPos(t) < Len(t.file)
  <2>1. CASE s.g < s.eg
    <3>1. t.g < t.eg /\ t.g \in 0..(t.eg - 1)
      BY <1>1, <1>2, <2>1
    <3>2. t.posGet - t.eg + t.g + 1 \in 1..Len(t.file)
      BY <1>3, <3>1 DEF Good
    <3>3. ReadPos(t) = t.posGet - t.eg + t.g /\ ReadPos(t) \in Nat /\ Len(t.file) \in Nat
      BY <1>3, Pointers, StreamFields DEF Good
    <3>4. QED BY <3>1, <3>2, <3>3
  <2>2. CASE ~(s.g < s.eg)
    <3>1. s.g = s.eg
      BY <1>2, <2>2
    <3>2. QED BY <1>1, <1>3, <2>2, <3>1, UnderflowGood
  <2>3. QED BY <2>1, <2>2
<1>5. Peek(s) = [s |-> t, c |-> IF t.g < t.eg THEN t.buf[t.g] ELSE EOF]
  BY <1>1 DEF Peek, AtG
<1>6. Peek(s).s = t /\ Peek(s).c = IF t.g < t.eg THEN t.buf[t.g] ELSE EOF
  BY <1>5
<1>7. t.g < t.eg => /\ ReadPos(t) + 1 \in 1..Len(t.file) /\ t.buf[t.g] = t.file[ReadPos(t) + 1]
                    /\ t.buf[t.g] # EOF /\ t.buf[t.g] \in Stored
  <2>1. SUFFICES ASSUME t.g < t.eg
                 PROVE  /\ ReadPos(t) + 1 \in 1..Len(t.file) /\ t.buf[t.g] = t.file[ReadPos(t) + 1]
                        /\ t.buf[t.g] # EOF /\ t.buf[t.g] \in Stored
    OBVIOUS
  <2>2. t.g \in 0..(t.eg - 1) /\ ReadPos(t) = t.posGet - t.eg + t.g
    <3>1. t \in Stream /\ t.g \in 0..t.eg /\ ReadPos(t) = t.posGet - t.eg + t.g
      BY <1>3, Pointers
    <3>2. t.eg \in Nat /\ t.g \in Nat
      BY <3>1, StreamFields
    <3>3. QED BY <2>1, <3>1, <3>2
  <2>3. t.posGet - t.eg + t.g + 1 \in 1..Len(t.file) /\ t.buf[t.g] = t.file[t.posGet - t.eg + t.g + 1]
    BY <1>3, <2>2 DEF Good
  <2>4. t.file \in Seq(Stored)
    BY <1>3, StreamFields DEF Good
  <2>5. t.file[t.posGet - t.eg + t.g + 1] \in Stored
    BY <2>3, <2>4, ElementOfSeq
  <2>6. EOF \notin Stored
    BY MarksAreNoBytes DEF Stored, EOF, Hole
  <2>7. QED BY <2>2, <2>3, <2>5, <2>6
<1>8. Len(t.file) \in Nat
  BY <1>3, StreamFields DEF Good
<1>9. QED BY <1>2, <1>3, <1>4, <1>5, <1>6, <1>7, <1>8 DEF Reads

LEMMA GetcGood ==
  ASSUME NEW s, Good(s)
  PROVE  LET r == Getc(s) IN Reads(s, r, IF r.c = EOF THEN 0 ELSE 1)
<1>1. PICK q : q = Peek(s)
  OBVIOUS
<1>2. Reads(s, q, 0) /\ q = [s |-> q.s, c |-> q.c] /\ (q.c # EOF => q.s.g < q.s.eg)
  BY <1>1, PeekGood
<1>3. CASE q.c = EOF
  <2>1. Getc(s) = q
    BY <1>1, <1>3 DEF Getc, Bumped
  <2>2. QED BY <1>2, <1>3, <2>1
<1>4. CASE q.c # EOF
  <2>1. Good(q.s) /\ q.s.io = "GET" /\ q.s.has /\ q.s \in Stream /\ q.s.g < q.s.eg
    BY <1>2, <1>4 DEF Reads, Good
  <2>2. PICK t : t = [q.s EXCEPT !.g = q.s.g + 1]
    OBVIOUS
  <2>3. q.s.g + 1 \in 0..q.s.eg /\ q.s.eg \in 0..BufSize /\ BufSize \in Nat /\ q.s.g \in Nat
    BY <2>1, StreamFields, Sizes
  <2>4. t \in Stream
    <3>1. q.s.g + 1 \in 0..BufSize
      BY <2>3
    <3>2. QED BY <2>1, <2>2, <3>1 DEF Stream
  <2>5. /\ t.buf = q.s.buf /\ t.g = q.s.g + 1 /\ t.eg = q.s.eg /\ t.pb = q.s.pb /\ t.p = q.s.p
        /\ t.io = q.s.io /\ t.posGet = q.s.posGet /\ t.posPut = q.s.posPut /\ t.most = q.s.most
        /\ t.file = q.s.file /\ t.off = q.s.off /\ t.has = q.s.has
    BY <2>1, <2>2 DEF Stream
  <2>6. Good(t)
    <3>1. t.g <= t.eg
      BY <2>3, <2>5
    <3>2. QED BY <2>1, <2>4, <2>5, <3>1 DEF Good
  <2>7. ReadPos(t) = ReadPos(q.s) + 1
    <3>1. ReadPos(q.s) = q.s.posGet - q.s.eg + q.s.g /\ ReadPos(t) = t.posGet - t.eg + t.g
      BY <2>1, <2>6, Pointers
    <3>2. q.s.posGet \in Nat
      BY <2>1, StreamFields
    <3>3. QED BY <2>3, <2>5, <3>1, <3>2
  <2>8. Getc(s) = [s |-> t, c |-> q.c]
    BY <1>1, <1>2, <1>4, <2>2 DEF Getc, Bumped
  <2>9. Getc(s).s = t /\ Getc(s).c = q.c
    BY <2>8
  <2>10. ReadPos(t) = ReadPos(s) + 1
    <3>1. ReadPos(q.s) = ReadPos(s) + 0 /\ ReadPos(s) \in Nat
      BY <1>2, Pointers DEF Reads
    <3>2. QED BY <2>7, <3>1
  <2>11. QED BY <1>2, <1>4, <2>1, <2>5, <2>6, <2>9, <2>10 DEF Reads
<1>5. QED BY <1>3, <1>4

\* A seek that moves the descriptor leaves nothing in the buffer.
LEMMA SeekToGood ==
  ASSUME NEW s, Good(s), s.pb = BufSize, NEW at \in Nat, NEW io \in {"GET", "PUT"}
  PROVE  LET t == SeekTo(s, at, io)
         IN  Good(t) /\ t.io = io /\ t.file = s.file /\ (io = "GET" => ReadPos(t) = at)
<1>1. /\ s \in Stream /\ ReadPos(s) \in Nat /\ s.posPut \in Nat /\ s.p = BufSize /\ s.most = 0
      /\ ReadPos(s) = s.posGet - InAvail(s)
  <2>1. s \in Stream /\ ReadPos(s) \in Nat
    BY Pointers
  <2>2. s.p \in 0..BufSize /\ s.posPut \in Nat /\ s.pb <= s.p
    BY <2>1, StreamFields DEF Good
  <2>3. s.p = BufSize
    BY <2>2, Sizes
  <2>4. QED BY <2>1, <2>2, <2>3 DEF Good, ReadPos
<1>2. PICK q \in Nat, w \in Nat : /\ q = IF io = "GET" THEN at ELSE s.posGet - InAvail(s)
                                  /\ w = IF io = "PUT" THEN at ELSE s.posPut
  BY <1>1
<1>3. PICK t : t = [s EXCEPT !.off = at, !.io = io, !.posGet = q, !.posPut = w, !.buf = NoBytes, !.g = 0, !.eg = 0]
  OBVIOUS
<1>4. SeekTo(s, at, io) = t
  BY <1>1, <1>2, <1>3 DEF SeekTo, Unused, NoInput, Stream
<1>5. t \in Stream
  BY <1>1, <1>3, BuffersTyped, Ends DEF Stream
<1>6. /\ t.g = 0 /\ t.eg = 0 /\ t.pb = s.pb /\ t.p = s.p /\ t.io = io /\ t.posGet = q
      /\ t.posPut = w /\ t.most = s.most /\ t.file = s.file /\ t.off = at /\ t.has = s.has
  BY <1>1, <1>3 DEF Stream
<1>7. Good(t)
  BY <1>1, <1>2, <1>5, <1>6, Ends DEF Good
<1>8. io = "GET" => ReadPos(t) = at
  BY <1>2, <1>6 DEF ReadPos, InAvail
<1>9. QED BY <1>4, <1>6, <1>7, <1>8

LEMMA HardSeekGood ==
  ASSUME NEW s, Good(s), NEW to \in Nat \union {End}, NEW io \in {"GET", "PUT"}
  PROVE  LET t == HardSeek(s, to, io)
         IN  /\ Good(t) /\ t.io = io
             /\ s.io # "PUT" => t.file = s.file
             /\ s.io # "PUT" /\ io = "GET" => ReadPos(t) = IF to = End THEN Len(s.file) ELSE to
<1>1. PICK u : u = SyncOut(s)
  OBVIOUS
<1>2. Good(u) /\ u.pb = BufSize /\ (s.io # "PUT" => u = s)
  BY <1>1, SyncOutGood
<1>3. PICK at \in Nat : at = IF to = End THEN Len(u.file) ELSE to
  <2>1. Len(u.file) \in Nat
    BY <1>2, StreamFields DEF Good
  <2>2. CASE to = End
    BY <2>1, <2>2
  <2>3. CASE to # End
    BY <2>3
  <2>4. QED BY <2>2, <2>3
<1>4. HardSeek(s, to, io) = SeekTo(u, at, io)
  BY <1>1, <1>3, Zenon DEF HardSeek, Seek
<1>5. QED BY <1>2, <1>3, <1>4, SeekToGood

\* A stream that is read is read next where the seek says, its file left alone.
LEMMA SeekInGood ==
  ASSUME NEW s, Good(s), NEW to \in Nat \union {End}
  PROVE  LET t == SeekIn(s, to)
         IN  /\ Good(t)
             /\ s.io # "PUT" => /\ t.io # "PUT" /\ t.file = s.file
                                /\ ReadPos(t) = IF to = End THEN Len(s.file) ELSE to
<1> DEFINE i == s.g + to - (s.posGet - InAvail(s))
<1>1. CASE to # End /\ 0 <= i /\ i <= s.eg
  <2>1. PICK j : j = i
    OBVIOUS
  <2>2. to \in Nat
    BY <1>1
  <2>3. s \in Stream /\ s.g \in 0..s.eg /\ InAvail(s) = s.eg - s.g /\ s.posGet - s.eg \in Nat
    BY Pointers
  <2>4. s.eg \in 0..BufSize /\ s.posGet \in Nat /\ BufSize \in Nat /\ s.g \in Nat
    BY <2>3, StreamFields, Sizes
  <2>5. j = to - s.posGet + s.eg /\ j \in 0..s.eg /\ j \in 0..BufSize /\ s.posGet - s.eg + j = to
    BY <1>1, <2>1, <2>2, <2>3, <2>4
  <2>6. PICK t : t = [s EXCEPT !.g = j]
    OBVIOUS
  <2>7. SeekIn(s, to) = t
    BY <1>1, <2>1, <2>6, Zenon DEF SeekIn
  <2>8. t \in Stream
    BY <2>3, <2>5, <2>6 DEF Stream
  <2>9. /\ t.buf = s.buf /\ t.g = j /\ t.eg = s.eg /\ t.pb = s.pb /\ t.p = s.p
        /\ t.io = s.io /\ t.posGet = s.posGet /\ t.posPut = s.posPut /\ t.most = s.most
        /\ t.file = s.file /\ t.off = s.off /\ t.has = s.has
    BY <2>3, <2>6 DEF Stream
  <2>10. Good(t)
    <3>1. t.g <= t.eg
      BY <2>4, <2>5, <2>9
    <3>2. QED BY <2>8, <2>9, <3>1 DEF Good
  <2>11. ReadPos(t) = to
    <3>1. ReadPos(t) = t.posGet - t.eg + t.g
      BY <2>10, Pointers
    <3>2. QED BY <2>5, <2>9, <3>1
  <2>12. QED BY <1>1, <2>7, <2>9, <2>10, <2>11
<1>2. CASE ~(to # End /\ 0 <= i /\ i <= s.eg)
  <2>1. SeekIn(s, to) = HardSeek(s, to, "GET")
    BY <1>2, Zenon DEF SeekIn
  <2>2. PICK t : t = HardSeek(s, to, "GET")
    OBVIOUS
  <2>3. /\ Good(t) /\ t.io = "GET"
        /\ s.io # "PUT" => t.file = s.file /\ ReadPos(t) = IF to = End THEN Len(s.file) ELSE to
    BY <2>2, HardSeekGood
  <2>4. t.io # "PUT"
    BY <2>3
  <2>5. QED BY <2>1, <2>2, <2>3, <2>4
<1>3. QED BY <1>1, <1>2

LEMMA SeekOutGood ==
  ASSUME NEW s, Good(s), NEW to \in Nat \union {End}
  PROVE  Good(SeekOut(s, to))
<1> DEFINE i == to - s.posPut
<1>1. CASE to # End /\ 0 <= i /\ i <= Waiting(s)
  <2>1. PICK j : j = i
    OBVIOUS
  <2>2. s \in Stream /\ to \in Nat
    BY <1>1 DEF Good
  <2>3. /\ s.p \in 0..BufSize /\ s.most \in 0..BufSize /\ s.pb \in {0, BufSize} /\ s.posPut \in Nat
        /\ BufSize \in Nat /\ s.pb <= s.p /\ (s.pb = BufSize => s.most = 0) /\ BufSize # 0
    BY <2>2, StreamFields, Sizes DEF Good
  <2>4. PICK w \in 0..BufSize : w = Waiting(s)
    BY <2>3 DEF Waiting, OutWaiting
  <2>5. s.pb = BufSize => w = 0
    BY <2>3, <2>4 DEF Waiting, OutWaiting
  <2>6. s.pb = 0 => \A k \in 0..(BufSize - 1) : k < w => k < s.p \/ k < s.most
    BY <2>3, <2>4 DEF Waiting, OutWaiting
  <2>7. PICK q \in 0..BufSize : q = s.pb + j /\ s.pb <= q /\ (s.pb = 0 => q <= w)
    <3>1. j \in 0..w
      BY <1>1, <2>1, <2>2, <2>3, <2>4
    <3>2. s.pb + j \in 0..BufSize /\ s.pb <= s.pb + j /\ (s.pb = 0 => s.pb + j <= w)
      BY <2>3, <2>5, <3>1
    <3>3. QED BY <3>2
  <2>8. PICK t : t = [s EXCEPT !.most = w, !.p = q]
    OBVIOUS
  <2>9. SeekOut(s, to) = t
    <3>1. SeekOut(s, to) = [s EXCEPT !.most = Waiting(s), !.p = s.pb + i]
      BY <1>1, Zenon DEF SeekOut
    <3>2. QED BY <2>1, <2>4, <2>7, <2>8, <3>1
  <2>10. t \in Stream
    BY <2>2, <2>8 DEF Stream
  <2>11. /\ t.buf = s.buf /\ t.g = s.g /\ t.eg = s.eg /\ t.pb = s.pb /\ t.p = q
        /\ t.io = s.io /\ t.posGet = s.posGet /\ t.posPut = s.posPut /\ t.most = w
        /\ t.file = s.file /\ t.off = s.off /\ t.has = s.has
    BY <2>2, <2>8 DEF Stream
  <2>12. ASSUME NEW k \in 0..(BufSize - 1), t.pb = 0, k < t.p \/ k < t.most
         PROVE  t.buf[k] \in Bytes
    <3>1. k < w
      BY <2>3, <2>4, <2>7, <2>11, <2>12
    <3>2. k < s.p \/ k < s.most
      BY <2>6, <2>11, <2>12, <3>1
    <3>3. QED BY <2>11, <2>12, <3>2 DEF Good
  <2>13. Good(t)
    BY <2>5, <2>7, <2>10, <2>11, <2>12 DEF Good
  <2>14. QED BY <2>9, <2>13
<1>2. CASE ~(to # End /\ 0 <= i /\ i <= Waiting(s))
  <2>1. SeekOut(s, to) = HardSeek(s, to, "PUT")
    BY <1>2, Zenon DEF SeekOut
  <2>2. QED BY <2>1, HardSeekGood
<1>3. QED BY <1>1, <1>2

\* A buffer that is full, or holds what was read, becomes one to write in.
LEMMA OverflowGood ==
  ASSUME NEW s, Good(s), ~NullWrite(s)
  PROVE  LET t == Overflow(s) IN Good(t) /\ t.pb = 0 /\ t.io = "PUT" /\ t.p < BufSize
<1>1. /\ s \in Stream /\ ReadPos(s) \in Nat /\ ReadPos(s) = s.posGet - InAvail(s)
      /\ s.posPut \in Nat /\ s.posGet \in Nat /\ s.p \in 0..BufSize /\ s.pb \in {0, BufSize} /\ BufSize \in Nat
      /\ 0 < BufSize /\ s.most \in 0..BufSize /\ s.io \in {"NONE", "GET", "PUT"} /\ s.off \in Nat
  <2>1. s \in Stream /\ ReadPos(s) \in Nat
    BY Pointers
  <2>2. QED BY <2>1, StreamFields, Sizes DEF ReadPos
<1>2. CASE s.io = "GET"
  <2>1. PICK t : t = [s EXCEPT !.g = 0, !.eg = 0, !.buf = NoBytes, !.off = s.posPut, !.posGet = ReadPos(s),
                               !.pb = 0, !.p = 0, !.io = "PUT"]
    OBVIOUS
  <2>2. s.off + s.posPut - s.posGet = s.posPut
    BY <1>1, <1>2 DEF Good
  <2>3. Overflow(s) = t
    BY <1>1, <1>2, <2>1, <2>2 DEF Overflow, Unused, NoInput, Stream
  <2>4. t \in Stream
    BY <1>1, <2>1, BuffersTyped, Ends DEF Stream
  <2>5. /\ t.g = 0 /\ t.eg = 0 /\ t.pb = 0 /\ t.p = 0
        /\ t.io = "PUT" /\ t.posGet = ReadPos(s) /\ t.posPut = s.posPut /\ t.most = s.most /\ t.off = s.posPut
        /\ t.has
    BY <1>1, <1>2, <2>1 DEF Stream, NullWrite
  <2>6. t.most = 0
    BY <1>2, <2>5 DEF Good
  <2>7. Good(t)
    BY <1>1, <2>4, <2>5, <2>6, Ends DEF Good
  <2>8. QED BY <1>1, <2>3, <2>5, <2>7
<1>3. CASE s.io # "GET" /\ s.p # BufSize
  <2>1. s.pb = 0 /\ s.io = "PUT"
    BY <1>1, <1>3 DEF Good
  <2>2. Overflow(s) = s
    BY <1>1, <1>3, <2>1 DEF Overflow, Stream
  <2>3. QED BY <1>1, <1>3, <2>1, <2>2
<1>4. CASE s.io # "GET" /\ s.p = BufSize /\ s.pb = 0
  <2>1. s.io = "PUT" /\ OutWaiting(s) = BufSize /\ BufSize > 0 /\ BufSize \in 0..BufSize
    BY <1>1, <1>4 DEF Good, OutWaiting
  <2>2. \A i \in 0..(BufSize - 1) : s.buf[i] \in Bytes
    BY <1>1, <1>4 DEF Good
  <2>3. PICK u : u = FlushSome(s, BufSize)
    OBVIOUS
  <2>4. /\ u \in Stream /\ u.io = "PUT" /\ u.pb = 0 /\ u.p = 0 /\ u.off = s.off + BufSize
        /\ u.posPut = s.posPut + BufSize
        /\ u.g = s.g /\ u.eg = s.eg /\ u.posGet = s.posGet /\ u.most = s.most /\ u.has = s.has
    BY <1>4, <2>1, <2>2, <2>3, FlushSomeGood
  <2>5. PICK t : t = [u EXCEPT !.most = 0, !.io = "PUT"]
    OBVIOUS
  <2>6. Overflow(s) = t
    BY <1>4, <2>1, <2>3, <2>5 DEF Overflow
  <2>7. t \in Stream
    BY <2>4, <2>5, Ends DEF Stream
  <2>8. /\ t.io = "PUT" /\ t.pb = 0 /\ t.p = 0 /\ t.off = u.off /\ t.posPut = u.posPut
        /\ t.g = s.g /\ t.eg = s.eg /\ t.posGet = s.posGet /\ t.most = 0 /\ t.has
    BY <1>1, <1>4, <2>4, <2>5, Ends DEF Stream, Good
  <2>9. s.g <= s.eg /\ s.eg <= s.posGet /\ s.eg = 0 /\ s.off = s.posPut
    BY <2>1 DEF Good
  <2>10. t.off = t.posPut
    BY <2>4, <2>8, <2>9
  <2>11. Good(t)
    BY <2>7, <2>8, <2>9, <2>10, Ends DEF Good
  <2>12. QED BY <1>1, <2>6, <2>8, <2>11
<1>5. CASE s.io # "GET" /\ s.p = BufSize /\ s.pb # 0
  <2>1. s.pb = BufSize /\ OutWaiting(s) = 0 /\ s.most = 0 /\ s.off = s.posPut /\ s.eg = 0
        /\ s.g <= s.eg /\ s.eg <= s.posGet
    BY <1>1, <1>5 DEF Good, OutWaiting
  <2>2. PICK t : t = [s EXCEPT !.has = TRUE, !.pb = 0, !.p = 0, !.most = 0, !.io = "PUT"]
    OBVIOUS
  <2>3. Overflow(s) = t
    BY <1>1, <1>5, <2>1, <2>2 DEF Overflow, Stream
  <2>4. t \in Stream
    BY <1>1, <2>2, Ends DEF Stream
  <2>5. /\ t.io = "PUT" /\ t.pb = 0 /\ t.p = 0 /\ t.off = s.off /\ t.posPut = s.posPut
        /\ t.g = s.g /\ t.eg = s.eg /\ t.posGet = s.posGet /\ t.most = 0 /\ t.has
    BY <1>1, <2>2 DEF Stream
  <2>6. Good(t)
    BY <2>1, <2>4, <2>5, Ends DEF Good
  <2>7. QED BY <1>1, <2>3, <2>5, <2>6
<1>6. QED BY <1>2, <1>3, <1>4, <1>5

LEMMA PutcGood ==
  ASSUME NEW s, Good(s), ~NullWrite(s), NEW c \in Bytes
  PROVE  Good(Putc(s, c)) /\ ~NullWrite(Putc(s, c))
<1>1. PICK u : u = IF s.p < BufSize THEN s ELSE Overflow(s)
  OBVIOUS
<1>2. Good(u) /\ u.pb = 0 /\ u.io = "PUT" /\ u.p < BufSize
  <2>1. CASE s.p < BufSize
    <3>1. s \in Stream
      BY DEF Good
    <3>2. s.p \in 0..BufSize /\ s.pb \in {0, BufSize} /\ BufSize \in Nat /\ s.pb <= s.p
      BY <3>1, StreamFields, Sizes DEF Good
    <3>3. s.pb = 0
      BY <2>1, <3>2
    <3>4. s.io = "PUT"
      BY <3>3, Ends DEF Good
    <3>5. QED BY <1>1, <2>1, <3>3, <3>4
  <2>2. CASE ~(s.p < BufSize)
    BY <1>1, <2>2, OverflowGood
  <2>3. QED BY <2>1, <2>2
<1>3. u \in Stream
  BY <1>2 DEF Good
<1>4. u.p \in 0..BufSize /\ BufSize \in Nat /\ u.buf \in [0..(BufSize - 1) -> Bytes \union {Junk, Hole}]
  BY <1>3, StreamFields, Sizes
<1>5. u.p + 1 \in 0..BufSize /\ u.p \in 0..(BufSize - 1) /\ 0 <= u.p + 1
  BY <1>2, <1>4
<1>6. PICK b : b = [u.buf EXCEPT ![u.p] = c]
  OBVIOUS
<1>7. b \in [0..(BufSize - 1) -> Bytes \union {Junk, Hole}]
  BY <1>4, <1>6
<1>8. PICK t : t = [u EXCEPT !.buf = b, !.p = u.p + 1]
  OBVIOUS
<1>9. Putc(s, c) = t
  <2>1. Putc(s, c) = Store(u, c)
    BY <1>1, Zenon DEF Putc
  <2>2. Store(u, c) = t
    BY <1>3, <1>6, <1>8 DEF Store, Stream
  <2>3. QED BY <2>1, <2>2
<1>10. t \in Stream
  BY <1>3, <1>5, <1>7, <1>8 DEF Stream
<1>11. /\ t.buf = b /\ t.g = u.g /\ t.eg = u.eg /\ t.pb = u.pb /\ t.p = u.p + 1
       /\ t.io = u.io /\ t.posGet = u.posGet /\ t.posPut = u.posPut /\ t.most = u.most
       /\ t.file = u.file /\ t.off = u.off /\ t.has = u.has
  BY <1>3, <1>8 DEF Stream
<1>12. ASSUME NEW i \in 0..(BufSize - 1), i < t.p \/ i < t.most PROVE t.buf[i] \in Bytes
  <2>1. CASE i = u.p
    BY <1>4, <1>5, <1>6, <1>11, <2>1
  <2>2. CASE i # u.p
    <3>1. i < u.p \/ i < u.most
      BY <1>4, <1>11, <1>12, <2>2
    <3>2. u.buf[i] \in Bytes
      BY <1>2, <3>1 DEF Good
    <3>3. b[i] = u.buf[i]
      BY <1>4, <1>6, <2>2
    <3>4. QED BY <1>11, <3>2, <3>3
  <2>3. QED BY <2>1, <2>2
<1>13. Good(t)
  <2>1. t.pb <= t.p
    BY <1>2, <1>5, <1>11
  <2>2. QED BY <1>2, <1>10, <1>11, <1>12, <2>1, Ends DEF Good
<1>14. ~NullWrite(t)
  BY <1>2, <1>11 DEF NullWrite
<1>15. QED BY <1>9, <1>13, <1>14

Goods == {s \in Stream : Good(s)}

\* Those that a byte can be put in.
Puttable == {s \in Goods : ~NullWrite(s)}

\* put[i] is what PutAll has done after i bytes.
PutRun(put, s, str, n) ==
  /\ put[0] = s /\ PutAll(s, str) = put[n]
  /\ \A i \in 1..n : put[i] = Putc(put[i - 1], str[i])
  /\ \A i \in 0..n : Good(put[i]) /\ ~NullWrite(put[i])

LEMMA PutAllSteps ==
  ASSUME NEW s, Good(s), ~NullWrite(s), NEW str \in Seq(Bytes), NEW n \in Nat, n = Len(str)
  PROVE  \E put : PutRun(put, s, str, n)
<1> DEFINE IsPut(g) == g = [i \in 0..Len(str) |-> IF i = 0 THEN s ELSE Putc(g[i - 1], str[i])]
           put == CHOOSE g : IsPut(g)
<1>1. n = Len(str)
  OBVIOUS
<1>2. s \in Puttable
  BY DEF Good, Goods, Puttable
<1>3. ASSUME NEW i \in 1..n, NEW t \in Puttable PROVE Putc(t, str[i]) \in Puttable
  <2>1. str[i] \in Bytes
    BY <1>1, ElementOfSeq
  <2>2. Good(Putc(t, str[i])) /\ ~NullWrite(Putc(t, str[i]))
    BY <2>1, PutcGood DEF Goods, Puttable
  <2>3. QED BY <2>2 DEF Good, Goods, Puttable
<1>4. PICK f : f = [i \in 1..n |-> [t \in Puttable |-> Putc(t, str[i])]]
  OBVIOUS
<1>5. f \in [1..n -> [Puttable -> Puttable]]
  BY <1>3, <1>4
<1>6. PICK g \in [0..n -> Puttable] : g[0] = s /\ \A i \in 1..n : g[i] = f[i][g[i - 1]]
  <2>1. \E g : Steps(g, n, Puttable, s, f)
    BY <1>2, <1>5, StepsExist, Zenon
  <2>2. QED BY <2>1 DEF Steps
<1>7. IsPut(g)
  <2>1. ASSUME NEW i \in 0..n, i # 0 PROVE f[i][g[i - 1]] = Putc(g[i - 1], str[i])
    <3>1. i \in 1..n /\ i - 1 \in 0..n
      BY <2>1
    <3>2. g[i - 1] \in Puttable
      BY <1>6, <3>1
    <3>3. QED BY <1>4, <3>1, <3>2
  <2>2. \A i \in 0..n : i = 0 \/ i \in 1..n
    OBVIOUS
  <2>3. \A i \in 0..n : g[i] = IF i = 0 THEN s ELSE Putc(g[i - 1], str[i])
    BY <1>6, <2>1, <2>2
  <2>4. QED BY <1>1, <1>6, <2>3
<1>8. IsPut(put)
  BY <1>7
<1>9. PutAll(s, str) = put[n]
  BY <1>1 DEF PutAll
<1> HIDE DEF put
<1>10. \A i \in 0..n : put[i] = IF i = 0 THEN s ELSE Putc(put[i - 1], str[i])
  BY <1>1, <1>8, Zenon
<1> DEFINE T == {i \in 0..n : put[i] \in Puttable}
<1>11. 0 \in T
  BY <1>2, <1>10
<1>12. ASSUME NEW i \in 1..n, i - 1 \in T PROVE i \in T
  <2>1. i \in 0..n /\ i # 0
    OBVIOUS
  <2>2. put[i] = Putc(put[i - 1], str[i])
    BY <1>10, <2>1
  <2>3. put[i - 1] \in Puttable
    BY <1>12
  <2>4. QED BY <1>3, <2>1, <2>2, <2>3
<1> HIDE DEF T
<1>13. \A i \in 0..n : i \in T
  BY <1>11, <1>12, UpTo
<1>14. \A i \in 0..n : Good(put[i]) /\ ~NullWrite(put[i])
  BY <1>13 DEF T, Goods, Puttable
<1>15. put[0] = s /\ \A i \in 1..n : put[i] = Putc(put[i - 1], str[i])
  <2>1. 0 \in 0..n /\ \A i \in 1..n : i \in 0..n /\ i # 0
    OBVIOUS
  <2>2. QED BY <1>10, <2>1
<1>16. PutRun(put, s, str, n)
  BY <1>9, <1>14, <1>15 DEF PutRun
<1>17. QED BY <1>16

LEMMA PutAllGood ==
  ASSUME NEW s, Good(s), ~NullWrite(s), NEW str \in Seq(Bytes)
  PROVE  Good(PutAll(s, str))
<1>1. PICK n \in Nat : n = Len(str)
  BY LenProperties
<1>2. n \in 0..n
  BY <1>1
<1>3. PICK put : PutRun(put, s, str, n)
  BY <1>1, PutAllSteps
<1>4. QED BY <1>2, <1>3 DEF PutRun

LEMMA ContentGood ==
  ASSUME NEW s, Good(s)
  PROVE  Content(s) \in Seq(Stored) /\ Len(Content(s)) \in Nat /\ (s.io # "PUT" => Content(s) = s.file)
<1>1. s \in Stream
  BY DEF Good
<1>2. /\ s.p \in 0..BufSize /\ s.most \in 0..BufSize /\ s.pb \in {0, BufSize} /\ s.posPut \in Nat
      /\ BufSize \in Nat /\ s.pb <= s.p /\ (s.pb = BufSize => s.most = 0) /\ s.file \in Seq(Stored)
  BY <1>1, StreamFields, Sizes DEF Good
<1>3. PICK w \in 0..BufSize : w = Waiting(s)
  BY <1>2 DEF Waiting, OutWaiting
<1>4. s.pb = BufSize => w = 0
  BY <1>2, <1>3 DEF Waiting, OutWaiting
<1>5. s.io # "PUT" => w = 0
  BY <1>4 DEF Good
<1>6. CASE w = 0
  <2>1. Content(s) = s.file
    BY <1>3, <1>6 DEF Content
  <2>2. QED BY <1>2, <2>1, LenProperties
<1>7. CASE w # 0
  <2>1. s.pb = 0
    BY <1>2, <1>4, <1>7
  <2>2. w \in Nat /\ Len(Span(s, 0, w)) = w /\ \A k \in 1..w : Span(s, 0, w)[k] = s.buf[0 + k - 1]
    BY <1>2, SpanLen
  <2>3. ASSUME NEW k \in 1..w PROVE Span(s, 0, w)[k] \in Stored
    <3>1. 0 + k - 1 \in 0..(BufSize - 1) /\ (0 + k - 1 < s.p \/ 0 + k - 1 < s.most)
      BY <1>2, <1>3, <2>1 DEF Waiting, OutWaiting
    <3>2. s.buf[0 + k - 1] \in Bytes
      BY <2>1, <3>1 DEF Good
    <3>3. QED BY <2>2, <3>2 DEF Stored
  <2>4. Content(s) = Overwrite(s.file, s.posPut, Span(s, 0, w))
    BY <1>3, <1>7, <2>1 DEF Content
  <2>5. Content(s) \in Seq(Stored)
    BY <1>2, <2>2, <2>3, <2>4, OverwriteTyped
  <2>6. QED BY <1>5, <1>7, <2>5, LenProperties
<1>8. QED BY <1>6, <1>7

LEMMA ClosedStored ==
  ASSUME NEW s, Good(s)
  PROVE  Closed(s) \in Seq(Stored)
<1>1. Good(Sync(s))
  BY SyncGood
<1>2. Sync(s) \in Stream
  BY <1>1 DEF Good
<1>3. QED BY <1>2, StreamFields DEF Closed

-----------------------------------------------------------------------------
(***************************************************************************)
(* Reading lines, and counting those that end.                             *)
(***************************************************************************)
\* How many lines end in the first n bytes of a file.
NewlineCount(f, n) == Cardinality(NewlinesTo(f, n))

LEMMA NewlinesFinite ==
  ASSUME NEW f, NEW n \in Nat
  PROVE  IsFiniteSet(NewlinesTo(f, n)) /\ NewlineCount(f, n) \in Nat
<1>1. IsFiniteSet(1..n)
  BY FS_Interval
<1>2. NewlinesTo(f, n) \in SUBSET (1..n)
  BY DEF NewlinesTo
<1>3. IsFiniteSet(NewlinesTo(f, n))
  BY <1>1, <1>2, FS_Subset
<1>4. QED BY <1>3, FS_CardinalityType DEF NewlineCount

LEMMA NewlinesFromStart == ASSUME NEW f PROVE NewlineCount(f, 0) = 0
<1>1. NewlinesTo(f, 0) = {}
  BY DEF NewlinesTo
<1>2. QED BY <1>1, FS_EmptySet DEF NewlineCount

LEMMA NextNewline ==
  ASSUME NEW f \in Seq(Stored), NEW n \in Nat, n + 1 \in 1..Len(f)
  PROVE  NewlineCount(f, n + 1) = NewlineCount(f, n) + IF f[n + 1] = Newline THEN 1 ELSE 0
<1>1. n + 1 \in DOMAIN f
  BY LenProperties
<1>2. CASE f[n + 1] = Newline
  <2>1. NewlinesTo(f, n + 1) = NewlinesTo(f, n) \union {n + 1}
    BY <1>1, <1>2 DEF NewlinesTo
  <2>2. n + 1 \notin NewlinesTo(f, n)
    BY DEF NewlinesTo
  <2>3. QED BY <1>2, <2>1, <2>2, NewlinesFinite, FS_AddElement DEF NewlineCount
<1>3. CASE f[n + 1] # Newline
  <2>1. NewlinesTo(f, n + 1) = NewlinesTo(f, n)
    BY <1>3 DEF NewlinesTo
  <2>2. NewlineCount(f, n) \in Nat
    BY NewlinesFinite
  <2>3. QED BY <1>3, <2>1, <2>2 DEF NewlineCount
<1>4. QED BY <1>2, <1>3

LEMMA MarksDiffer == EOF \notin Stored /\ Newline \in Stored /\ Newline # EOF
BY MarksAreNoBytes, StringsAreBytes DEF Stored, EOF, Hole

-----------------------------------------------------------------------------
\* What a read up to a newline has done after i steps, from a stream that is not written.
Read == [s : Goods, val : Seq(Stored), eof : BOOLEAN]
AtLine(r) == r.val # << >> /\ Last(r.val) = Newline
ReadSoFar(s, r, i) ==
  /\ r \in Read /\ r.s.io # "PUT" /\ r.s.file = s.file
  /\ NewlineCount(s.file, ReadPos(r.s)) = NewlineCount(s.file, ReadPos(s)) + IF AtLine(r) THEN 1 ELSE 0
  /\ r.val # << >> => ReadPos(r.s) <= Len(s.file)
  /\ r.eof => ~AtLine(r)
  /\ ~r.eof /\ ~AtLine(r) => ReadPos(r.s) = ReadPos(s) + i /\ (r.val = << >> => i = 0)

\* One more byte.
ReadStep(r, stop) ==
  IF r.eof \/ (r.val # << >> /\ Last(r.val) = stop) THEN r ELSE Taken(r.val, Getc(r.s))

LEMMA ReadStepTyped ==
  ASSUME NEW r \in Read, NEW stop
  PROVE  ReadStep(r, stop) \in Read
<1>1. CASE r.eof \/ (r.val # << >> /\ Last(r.val) = stop)
  BY <1>1 DEF ReadStep
<1>2. CASE ~(r.eof \/ (r.val # << >> /\ Last(r.val) = stop))
  <2>1. Good(r.s) /\ r.val \in Seq(Stored)
    BY DEF Read, Goods
  <2>2. PICK q : q = Getc(r.s)
    OBVIOUS
  <2>3. Good(q.s) /\ q.c \in Stored \union {EOF}
    BY <2>1, <2>2, GetcGood DEF Reads
  <2>4. q.s \in Goods
    BY <2>3 DEF Goods, Good
  <2>5. ReadStep(r, stop) = [s |-> q.s, eof |-> q.c = EOF, val |-> IF q.c = EOF THEN r.val ELSE Append(r.val, q.c)]
    BY <1>2, <2>2, Zenon DEF ReadStep, Taken
  <2>6. CASE q.c = EOF
    <3>1. ReadStep(r, stop) = [s |-> q.s, eof |-> TRUE, val |-> r.val]
      BY <2>5, <2>6
    <3>2. QED BY <2>1, <2>4, <3>1 DEF Read
  <2>7. CASE q.c # EOF
    <3>1. Append(r.val, q.c) \in Seq(Stored)
      BY <2>1, <2>3, <2>7, AppendProperties
    <3>2. ReadStep(r, stop) = [s |-> q.s, eof |-> FALSE, val |-> Append(r.val, q.c)]
      BY <2>5, <2>7
    <3>3. QED BY <2>4, <3>1, <3>2 DEF Read
  <2>8. QED BY <2>6, <2>7
<1>3. QED BY <1>1, <1>2

LEMMA ReadStepCounts ==
  ASSUME NEW s, Good(s), NEW i \in Nat, NEW r, ReadSoFar(s, r, i)
  PROVE  ReadSoFar(s, ReadStep(r, Newline), i + 1)
<1>1. r \in Read /\ Good(r.s) /\ r.val \in Seq(Stored) /\ ReadPos(r.s) \in Nat /\ ReadPos(s) \in Nat
  BY Pointers DEF ReadSoFar, Read, Goods
<1>2. CASE r.eof \/ AtLine(r)
  <2>1. ReadStep(r, Newline) = r
    BY <1>2 DEF ReadStep, AtLine
  <2>2. QED BY <1>2, <2>1 DEF ReadSoFar
<1>3. CASE ~(r.eof \/ AtLine(r))
  <2>1. PICK q : q = Getc(r.s)
    OBVIOUS
  <2>2. PICK t : t = ReadStep(r, Newline)
    OBVIOUS
  <2>3. t = [s |-> q.s, eof |-> q.c = EOF, val |-> IF q.c = EOF THEN r.val ELSE Append(r.val, q.c)]
    BY <1>3, <2>1, <2>2, Zenon DEF ReadStep, Taken, AtLine
  <2>4. t.s = q.s /\ t.eof = (q.c = EOF) /\ t.val = IF q.c = EOF THEN r.val ELSE Append(r.val, q.c)
    BY <2>3
  <2>5. t \in Read
    BY <1>1, <2>2, ReadStepTyped
  <2>6. r.s.io # "PUT" /\ r.s.file = s.file /\ s.file \in Seq(Stored) /\ Len(s.file) \in Nat
    <3>1. s \in Stream
      BY DEF Good
    <3>2. QED BY <3>1, StreamFields DEF ReadSoFar
  <2>7. PICK k : k = IF q.c = EOF THEN 0 ELSE 1
    OBVIOUS
  <2>8. Reads(r.s, q, k)
    BY <1>1, <2>1, <2>7, GetcGood
  <2>9. /\ q.s.io = "GET" /\ q.s.file = s.file /\ ReadPos(q.s) = ReadPos(r.s) + k /\ q.c \in Stored \union {EOF}
        /\ q.c = EOF <=> ReadPos(r.s) >= Len(s.file)
        /\ q.c # EOF => ReadPos(r.s) + 1 \in 1..Len(s.file) /\ q.c = s.file[ReadPos(r.s) + 1]
    BY <2>6, <2>8 DEF Reads
  <2>10. NewlineCount(s.file, ReadPos(r.s)) = NewlineCount(s.file, ReadPos(s))
         /\ NewlineCount(s.file, ReadPos(s)) \in Nat
    <3>1. NewlineCount(s.file, ReadPos(s)) \in Nat
      BY <1>1, NewlinesFinite
    <3>2. QED BY <1>3, <3>1 DEF ReadSoFar
  <2>11. CASE q.c = EOF
    <3>1. t.eof /\ t.val = r.val /\ t.s = q.s /\ ReadPos(t.s) = ReadPos(r.s)
      <4>1. t.eof /\ t.val = r.val /\ t.s = q.s
        BY <2>4, <2>11, Zenon
      <4>2. k = 0
        BY <2>7, <2>11
      <4>3. QED BY <1>1, <2>9, <4>1, <4>2
    <3>2. ~AtLine(t)
      BY <1>3, <3>1 DEF AtLine
    <3>3. NewlineCount(s.file, ReadPos(t.s)) = NewlineCount(s.file, ReadPos(s)) + 0
      BY <2>10, <3>1
    <3>4. t.val # << >> => ReadPos(t.s) <= Len(s.file)
      BY <3>1 DEF ReadSoFar
    <3>5. QED BY <2>2, <2>5, <2>9, <3>1, <3>2, <3>3, <3>4 DEF ReadSoFar
  <2>12. CASE q.c # EOF
    <3>1. q.c \in Stored
      BY <2>9, <2>12
    <3>2. t.eof = FALSE /\ t.val = Append(r.val, q.c) /\ t.s = q.s /\ ReadPos(t.s) = ReadPos(r.s) + 1
      BY <2>4, <2>7, <2>9, <2>12
    <3>3. t.val # << >> /\ Last(t.val) = q.c
      <4>1. PICK n \in Nat : n = Len(r.val)
        BY <1>1, LenProperties
      <4>2. Append(r.val, q.c) # << >> /\ Len(Append(r.val, q.c)) = n + 1 /\ Append(r.val, q.c)[n + 1] = q.c
        BY <1>1, <3>1, <4>1, AppendProperties
      <4>3. QED BY <3>2, <4>2 DEF Last
    <3>4. AtLine(t) <=> q.c = Newline
      BY <3>3 DEF AtLine
    <3>5. ReadPos(r.s) + 1 \in 1..Len(s.file) /\ q.c = s.file[ReadPos(r.s) + 1]
      BY <2>9, <2>12
    <3>6. NewlineCount(s.file, ReadPos(r.s) + 1)
            = NewlineCount(s.file, ReadPos(r.s)) + IF s.file[ReadPos(r.s) + 1] = Newline THEN 1 ELSE 0
      BY <1>1, <2>6, <3>5, NextNewline
    <3>7. NewlineCount(s.file, ReadPos(t.s)) = NewlineCount(s.file, ReadPos(s)) + IF AtLine(t) THEN 1 ELSE 0
      BY <2>10, <3>2, <3>4, <3>5, <3>6
    <3>8. ReadPos(t.s) <= Len(s.file)
      BY <3>2, <3>5
    <3>9. ReadPos(t.s) = ReadPos(s) + (i + 1)
      <4>1. ReadPos(r.s) = ReadPos(s) + i
        BY <1>3 DEF ReadSoFar
      <4>2. QED BY <1>1, <3>2, <4>1
    <3>10. QED BY <2>2, <2>5, <2>9, <3>2, <3>3, <3>7, <3>8, <3>9 DEF ReadSoFar
  <2>13. QED BY <2>11, <2>12
<1>4. QED BY <1>2, <1>3

\* get[i] is what GetUntil has done after i bytes.
GetRun(get, s, n, stop) ==
  /\ get[0] = [s |-> s, val |-> << >>, eof |-> FALSE] /\ GetUntil(s, n, stop) = get[n]
  /\ \A i \in 1..n : get[i] = ReadStep(get[i - 1], stop)
  /\ \A i \in 0..n : get[i] \in Read

LEMMA GetUntilSteps ==
  ASSUME NEW s, Good(s), NEW n \in Nat, NEW stop
  PROVE  \E get : GetRun(get, s, n, stop)
<1> DEFINE r0 == [s |-> s, val |-> << >>, eof |-> FALSE]
           IsGet(g) == g = [i \in 0..n |-> IF i = 0 THEN r0 ELSE ReadStep(g[i - 1], stop)]
           get == CHOOSE g : IsGet(g)
<1>1. r0 \in Read
  BY EmptySeq DEF Read, Goods, Good
<1>2. PICK f : f = [i \in 1..n |-> [r \in Read |-> ReadStep(r, stop)]]
  OBVIOUS
<1>3. f \in [1..n -> [Read -> Read]]
  BY <1>2, ReadStepTyped
<1>4. PICK g \in [0..n -> Read] : g[0] = r0 /\ \A i \in 1..n : g[i] = f[i][g[i - 1]]
  <2> HIDE DEF r0
  <2>1. \E g : Steps(g, n, Read, r0, f)
    BY <1>1, <1>3, StepsExist, Zenon
  <2>2. QED BY <2>1 DEF Steps
<1>5. IsGet(g)
  <2>1. ASSUME NEW i \in 1..n PROVE g[i] = ReadStep(g[i - 1], stop)
    <3>1. i - 1 \in 0..n
      OBVIOUS
    <3>2. g[i - 1] \in Read
      BY <1>4, <3>1
    <3>3. QED BY <1>2, <1>4, <3>2
  <2>2. \A i \in 0..n : i = 0 \/ i \in 1..n
    OBVIOUS
  <2> HIDE DEF r0
  <2>3. \A i \in 0..n : g[i] = IF i = 0 THEN r0 ELSE ReadStep(g[i - 1], stop)
    BY <1>4, <2>1, <2>2
  <2>4. QED BY <1>4, <2>3
<1>6. IsGet(get)
  BY <1>5
<1>7. GetUntil(s, n, stop) = get[n]
  BY DEF GetUntil, ReadStep
<1> HIDE DEF get
<1>8. \A i \in 0..n : get[i] = IF i = 0 THEN r0 ELSE ReadStep(get[i - 1], stop)
  BY <1>6, Zenon
<1>9. get[0] = r0 /\ \A i \in 1..n : get[i] = ReadStep(get[i - 1], stop) /\ i - 1 \in 0..n
  <2> HIDE DEF r0
  <2>1. 0 \in 0..n /\ \A i \in 1..n : i \in 0..n /\ i # 0 /\ i - 1 \in 0..n
    OBVIOUS
  <2>2. QED BY <1>8, <2>1
<1> DEFINE T == {i \in 0..n : get[i] \in Read}
<1>10. \A i \in 0..n : get[i] \in Read
  <2>1. 0 \in T
    BY <1>1, <1>9
  <2>2. ASSUME NEW i \in 1..n, i - 1 \in T PROVE i \in T
    <3>1. get[i] = ReadStep(get[i - 1], stop)
      BY <1>9
    <3>2. get[i - 1] \in Read /\ i \in 0..n
      BY <2>2
    <3>3. QED BY <3>1, <3>2, ReadStepTyped
  <2> HIDE DEF T
  <2>3. \A i \in 0..n : i \in T
    BY <2>1, <2>2, UpTo
  <2>4. QED BY <2>3 DEF T
<1>11. GetRun(get, s, n, stop)
  BY <1>7, <1>9, <1>10 DEF GetRun
<1>12. QED BY <1>11

LEMMA GetUntilCounts ==
  ASSUME NEW s, Good(s), s.io # "PUT", NEW n \in Nat
  PROVE  ReadSoFar(s, GetUntil(s, n, Newline), n)
<1>1. PICK get : /\ get[0] = [s |-> s, val |-> << >>, eof |-> FALSE] /\ GetUntil(s, n, Newline) = get[n]
                 /\ \A i \in 1..n : get[i] = ReadStep(get[i - 1], Newline)
                 /\ \A i \in 0..n : get[i] \in Read
  <2>1. PICK get : GetRun(get, s, n, Newline)
    BY GetUntilSteps
  <2>2. QED BY <2>1 DEF GetRun
<1> DEFINE T == {i \in 0..n : ReadSoFar(s, get[i], i)}
<1>2. 0 \in T
  <2>1. get[0].s = s /\ get[0].val = << >> /\ get[0].eof = FALSE /\ get[0] \in Read
    BY <1>1
  <2>2. ~AtLine(get[0])
    BY <2>1 DEF AtLine
  <2>3. ReadPos(s) \in Nat /\ NewlineCount(s.file, ReadPos(s)) \in Nat
    BY Pointers, NewlinesFinite
  <2>4. QED BY <2>1, <2>2, <2>3 DEF ReadSoFar
<1>3. ASSUME NEW i \in 1..n, i - 1 \in T PROVE i \in T
  <2>1. ReadSoFar(s, get[i - 1], i - 1) /\ i - 1 \in Nat /\ i \in 0..n /\ (i - 1) + 1 = i
    BY <1>3
  <2>2. ReadSoFar(s, ReadStep(get[i - 1], Newline), (i - 1) + 1)
    BY <2>1, ReadStepCounts, Zenon
  <2>3. QED BY <1>1, <2>1, <2>2
<1> HIDE DEF T
<1>4. \A i \in 0..n : i \in T
  BY <1>2, <1>3, UpTo
<1>5. n \in T
  BY <1>4
<1>6. QED BY <1>1, <1>5 DEF T

LEMMA GetUntilGood ==
  ASSUME NEW s, Good(s), NEW n \in Nat, NEW stop
  PROVE  /\ GetUntil(s, n, stop) \in Read
         /\ stop = Newline /\ s.io # "PUT" => ReadSoFar(s, GetUntil(s, n, stop), n)
<1>1. PICK get : GetRun(get, s, n, stop)
  BY GetUntilSteps
<1>2. n \in 0..n
  OBVIOUS
<1>3. GetUntil(s, n, stop) \in Read
  BY <1>1, <1>2 DEF GetRun
<1>4. QED BY <1>3, GetUntilCounts

\* A line that ends before the file does takes the read position past one newline, and
\* only then is it counted.
LEMMA ReadLineGood ==
  ASSUME NEW s, Good(s)
  PROVE  LET r == readLine(s)
         IN  /\ Good(r.s) /\ r.eof \in BOOLEAN
             /\ s.io # "PUT" =>
                  /\ r.s.io # "PUT" /\ r.s.file = s.file
                  /\ NewlineCount(s.file, ReadPos(r.s))
                       = NewlineCount(s.file, ReadPos(s)) + IF r.eof THEN 0 ELSE 1
<1>1. PICK n \in Nat : n = Len(Content(s))
  BY ContentGood
<1>2. n + 1 \in Nat
  OBVIOUS
<1>3. PICK r : r = GetUntil(s, n + 1, Newline)
  OBVIOUS
<1>4. r \in Read /\ (s.io # "PUT" => ReadSoFar(s, r, n + 1))
  BY <1>2, <1>3, GetUntilGood
<1>5. readLine(s) = Chomped(r)
  BY <1>1, <1>3 DEF readLine
<1>6. Chomped(r).s = r.s /\ Chomped(r).eof = r.eof
  BY <1>4 DEF Chomped, Read
<1>7. Good(r.s) /\ r.eof \in BOOLEAN
  BY <1>4 DEF Read, Goods
<1>8. ASSUME s.io # "PUT"
      PROVE  /\ r.s.io # "PUT" /\ r.s.file = s.file
             /\ NewlineCount(s.file, ReadPos(r.s)) = NewlineCount(s.file, ReadPos(s)) + IF r.eof THEN 0 ELSE 1
  <2>1. ReadSoFar(s, r, n + 1)
    BY <1>4, <1>8
  <2>2. AtLine(r) <=> ~r.eof
    <3>1. CASE ~r.eof /\ ~AtLine(r)
      <4>1. ReadPos(r.s) = ReadPos(s) + (n + 1) /\ (r.val = << >> => n + 1 = 0)
        BY <2>1, <3>1 DEF ReadSoFar
      <4>2. ReadPos(r.s) <= n
        <5>1. n = Len(s.file)
          BY <1>1, <1>8, ContentGood
        <5>2. r.val # << >>
          BY <4>1
        <5>3. QED BY <2>1, <5>1, <5>2 DEF ReadSoFar
      <4>3. ReadPos(s) \in Nat
        BY Pointers
      <4>4. QED BY <4>1, <4>2, <4>3
    <3>2. r.eof => ~AtLine(r)
      BY <2>1 DEF ReadSoFar
    <3>3. QED BY <3>1, <3>2
  <2>3. r.s.io # "PUT" /\ r.s.file = s.file
    BY <2>1 DEF ReadSoFar
  <2>4. NewlineCount(s.file, ReadPos(r.s)) = NewlineCount(s.file, ReadPos(s)) + IF AtLine(r) THEN 1 ELSE 0
    BY <2>1 DEF ReadSoFar
  <2>5. QED BY <2>2, <2>3, <2>4
<1>9. QED BY <1>5, <1>6, <1>7, <1>8

\* How far a search for a line has gone, from line l of a stream s that is not written;
\* when its last line is terminated, the lines it counts are those that end in between.
Going == [sb : Goods, line : Nat, atStart : BOOLEAN, eof : BOOLEAN]
GoneFrom(s, l, r) ==
  /\ r \in Going /\ r.sb.io # "PUT" /\ r.sb.file = s.file
  /\ Terminated(s.file) =>
       r.line + NewlineCount(s.file, ReadPos(s)) = l + NewlineCount(s.file, ReadPos(r.sb))
  /\ ~r.eof /\ ~r.atStart => ReadPos(r.sb) \in 1..Len(s.file) /\ s.file[ReadPos(r.sb)] # Newline

GoStep(r, to) == IF r.eof \/ r.line >= to THEN r ELSE Counted(r.line, Getc(r.sb), r.atStart)

LEMMA GoStepTyped ==
  ASSUME NEW r \in Going, NEW to \in Nat
  PROVE  GoStep(r, to) \in Going
<1>1. CASE r.eof \/ r.line >= to
  BY <1>1 DEF GoStep
<1>2. CASE ~(r.eof \/ r.line >= to)
  <2>1. Good(r.sb) /\ r.line \in Nat
    BY DEF Going, Goods
  <2>2. PICK q : q = Getc(r.sb)
    OBVIOUS
  <2>3. q.s \in Goods
    <3>1. Good(q.s)
      BY <2>1, <2>2, GetcGood DEF Reads
    <3>2. QED BY <3>1 DEF Goods, Good
  <2>4. PICK l \in Nat : l = IF q.c = Newline \/ (q.c = EOF /\ ~r.atStart) THEN r.line + 1 ELSE r.line
    BY <2>1
  <2>5. PICK a \in BOOLEAN, e \in BOOLEAN : a = (q.c = Newline) /\ e = (q.c = EOF)
    BY Zenon
  <2>6. GoStep(r, to) = [sb |-> q.s, atStart |-> a, eof |-> e, line |-> l]
    BY <1>2, <2>2, <2>4, <2>5, Zenon DEF GoStep, Counted
  <2>7. QED BY <2>3, <2>6 DEF Going
<1>3. QED BY <1>1, <1>2

LEMMA GoStepCounts ==
  ASSUME NEW s, Good(s), NEW l \in Nat, NEW to \in Nat, NEW r, GoneFrom(s, l, r)
  PROVE  GoneFrom(s, l, GoStep(r, to))
<1>1. /\ r \in Going /\ Good(r.sb) /\ r.line \in Nat /\ ReadPos(r.sb) \in Nat /\ ReadPos(s) \in Nat
      /\ r.sb.io # "PUT" /\ r.sb.file = s.file /\ r.atStart \in BOOLEAN
  BY Pointers DEF GoneFrom, Going, Goods
<1>2. CASE r.eof \/ r.line >= to
  BY <1>2 DEF GoStep
<1>3. CASE ~(r.eof \/ r.line >= to)
  <2>1. PICK q : q = Getc(r.sb)
    OBVIOUS
  <2>2. PICK t : t = GoStep(r, to)
    OBVIOUS
  <2>3. t = [sb |-> q.s, atStart |-> q.c = Newline, eof |-> q.c = EOF,
             line |-> IF q.c = Newline \/ (q.c = EOF /\ ~r.atStart) THEN r.line + 1 ELSE r.line]
    BY <1>3, <2>1, <2>2, Zenon DEF GoStep, Counted
  <2>4. /\ t.sb = q.s /\ (t.atStart <=> q.c = Newline) /\ (t.eof <=> q.c = EOF)
        /\ t.line = IF q.c = Newline \/ (q.c = EOF /\ ~r.atStart) THEN r.line + 1 ELSE r.line
    BY <2>3
  <2>5. t \in Going
    BY <1>1, <2>2, GoStepTyped
  <2>6. s.file \in Seq(Stored) /\ Len(s.file) \in Nat
    <3>1. s \in Stream
      BY DEF Good
    <3>2. QED BY <3>1, StreamFields
  <2>7. PICK k : k = IF q.c = EOF THEN 0 ELSE 1
    OBVIOUS
  <2>8. Reads(r.sb, q, k)
    BY <1>1, <2>1, <2>7, GetcGood
  <2>9. /\ q.s.io = "GET" /\ q.s.file = s.file /\ ReadPos(q.s) = ReadPos(r.sb) + k
        /\ q.c = EOF <=> ReadPos(r.sb) >= Len(s.file)
        /\ q.c # EOF => ReadPos(r.sb) + 1 \in 1..Len(s.file) /\ q.c = s.file[ReadPos(r.sb) + 1]
    BY <1>1, <2>8 DEF Reads
  <2>10. /\ NewlineCount(s.file, ReadPos(s)) \in Nat /\ NewlineCount(s.file, ReadPos(r.sb)) \in Nat
         /\ Terminated(s.file) => r.line + NewlineCount(s.file, ReadPos(s)) = l + NewlineCount(s.file, ReadPos(r.sb))
    BY <1>1, NewlinesFinite DEF GoneFrom
  <2>11. CASE q.c = EOF
    <3>1. Terminated(s.file) => r.atStart
      <4>1. CASE ~r.atStart /\ Terminated(s.file)
        <5>1. ReadPos(r.sb) \in 1..Len(s.file) /\ s.file[ReadPos(r.sb)] # Newline
          BY <1>3, <4>1 DEF GoneFrom
        <5>2. ReadPos(r.sb) = Len(s.file)
          BY <1>1, <2>6, <2>9, <2>11, <5>1
        <5>3. s.file # << >>
          BY <2>6, <5>1, EmptySeq
        <5>4. QED BY <4>1, <5>1, <5>2, <5>3 DEF Terminated
      <4>2. QED BY <1>1, <4>1
    <3>2. (Terminated(s.file) => t.line = r.line) /\ t.sb = q.s /\ t.eof
      BY <2>4, <2>11, <3>1, MarksDiffer
    <3>3. ReadPos(t.sb) = ReadPos(r.sb)
      BY <1>1, <2>7, <2>9, <2>11, <3>2
    <3>4. QED BY <2>2, <2>5, <2>9, <2>10, <3>2, <3>3 DEF GoneFrom
  <2>12. CASE q.c # EOF
    <3>1. /\ t.line = r.line + (IF q.c = Newline THEN 1 ELSE 0)
          /\ t.sb = q.s /\ (t.atStart <=> q.c = Newline)
          /\ ReadPos(t.sb) = ReadPos(r.sb) + 1
      BY <1>1, <2>4, <2>7, <2>9, <2>12
    <3>2. ReadPos(r.sb) + 1 \in 1..Len(s.file) /\ q.c = s.file[ReadPos(r.sb) + 1]
      BY <2>9, <2>12
    <3>3. NewlineCount(s.file, ReadPos(r.sb) + 1)
            = NewlineCount(s.file, ReadPos(r.sb)) + IF s.file[ReadPos(r.sb) + 1] = Newline THEN 1 ELSE 0
      BY <1>1, <2>6, <3>2, NextNewline
    <3>4. Terminated(s.file) => t.line + NewlineCount(s.file, ReadPos(s)) = l + NewlineCount(s.file, ReadPos(t.sb))
      BY <1>1, <2>10, <3>1, <3>2, <3>3
    <3>5. ~t.atStart => ReadPos(t.sb) \in 1..Len(s.file) /\ s.file[ReadPos(t.sb)] # Newline
      BY <3>1, <3>2
    <3>6. QED BY <2>2, <2>5, <2>9, <3>1, <3>4, <3>5 DEF GoneFrom
  <2>13. QED BY <2>11, <2>12
<1>4. QED BY <1>2, <1>3

\* Going to a line keeps the stream good, and its count true of the position it leaves.
\* The search for a line, n bytes long.
GoRun(s, l, to, n) ==
  LET go[i \in 0..n] == IF i = 0 THEN [sb |-> s, line |-> l, atStart |-> TRUE, eof |-> FALSE]
                        ELSE GoStep(go[i - 1], to)
  IN  go

LEMMA GoSteps ==
  ASSUME NEW s, Good(s), NEW l \in Nat, NEW to \in Nat, NEW n \in Nat, NEW run, run = GoRun(s, l, to, n)
  PROVE  /\ run[0] = [sb |-> s, line |-> l, atStart |-> TRUE, eof |-> FALSE]
         /\ \A i \in 1..n : run[i] = GoStep(run[i - 1], to)
         /\ \A i \in 0..n : run[i] \in Going
<1> DEFINE r0 == [sb |-> s, line |-> l, atStart |-> TRUE, eof |-> FALSE]
           IsGo(g) == g = [i \in 0..n |-> IF i = 0 THEN r0 ELSE GoStep(g[i - 1], to)]
           go == CHOOSE g : IsGo(g)
<1>1. r0 \in Going
  BY DEF Going, Goods, Good
<1>2. PICK f : f = [i \in 1..n |-> [r \in Going |-> GoStep(r, to)]]
  OBVIOUS
<1>3. f \in [1..n -> [Going -> Going]]
  BY <1>2, GoStepTyped
<1>4. PICK g \in [0..n -> Going] : g[0] = r0 /\ \A i \in 1..n : g[i] = f[i][g[i - 1]]
  <2> HIDE DEF r0
  <2>1. \E g : Steps(g, n, Going, r0, f)
    BY <1>1, <1>3, StepsExist, Zenon
  <2>2. QED BY <2>1 DEF Steps
<1>5. IsGo(g)
  <2>1. ASSUME NEW i \in 1..n PROVE g[i] = GoStep(g[i - 1], to)
    <3>1. i - 1 \in 0..n
      OBVIOUS
    <3>2. g[i - 1] \in Going
      BY <1>4, <3>1
    <3>3. QED BY <1>2, <1>4, <3>2
  <2>2. \A i \in 0..n : i = 0 \/ i \in 1..n
    OBVIOUS
  <2> HIDE DEF r0
  <2>3. \A i \in 0..n : g[i] = IF i = 0 THEN r0 ELSE GoStep(g[i - 1], to)
    BY <1>4, <2>1, <2>2
  <2>4. QED BY <1>4, <2>3
<1>6. IsGo(go)
  BY <1>5
<1> HIDE DEF go
<1>7. \A i \in 0..n : go[i] = IF i = 0 THEN r0 ELSE GoStep(go[i - 1], to)
  BY <1>6, Zenon
<1>8. go[0] = r0 /\ \A i \in 1..n : go[i] = GoStep(go[i - 1], to) /\ i - 1 \in 0..n
  <2> HIDE DEF r0
  <2>1. 0 \in 0..n /\ \A i \in 1..n : i \in 0..n /\ i # 0 /\ i - 1 \in 0..n
    OBVIOUS
  <2>2. QED BY <1>7, <2>1
<1> DEFINE T == {i \in 0..n : go[i] \in Going}
<1>9. \A i \in 0..n : go[i] \in Going
  <2>1. 0 \in T
    BY <1>1, <1>8
  <2>2. ASSUME NEW i \in 1..n, i - 1 \in T PROVE i \in T
    <3>1. go[i] = GoStep(go[i - 1], to)
      BY <1>8
    <3>2. go[i - 1] \in Going /\ i \in 0..n
      BY <2>2
    <3>3. QED BY <3>1, <3>2, GoStepTyped
  <2> HIDE DEF T
  <2>3. \A i \in 0..n : i \in T
    BY <2>1, <2>2, UpTo
  <2>4. QED BY <2>3 DEF T
<1>10. go[0] = r0 /\ (\A i \in 1..n : go[i] = GoStep(go[i - 1], to)) /\ \A i \in 0..n : go[i] \in Going
  BY <1>8, <1>9
<1>11. GoRun(s, l, to, n) = go
  BY DEF GoRun, go
<1>12. QED BY <1>10, <1>11

\* From where the lines are counted.
Rewound(sb, from, to, out) ==
  IF from <= to THEN sb ELSE IF out THEN SeekOut(sb, 0) ELSE SeekIn(sb, 0)

\* go[i] is what gotoLine has done after i bytes.
SearchRun(go, sb, s, from, to, out, n) ==
  /\ go[0] = [sb |-> s, line |-> IF from > to THEN 1 ELSE from, atStart |-> TRUE, eof |-> FALSE]
  /\ gotoLine(sb, from, to, out) = go[n]
  /\ \A i \in 1..n : go[i] = GoStep(go[i - 1], to)
  /\ \A i \in 0..n : go[i] \in Going

LEMMA GotoSteps ==
  ASSUME NEW sb, Good(sb), NEW from \in Nat, NEW to \in Nat, NEW out \in BOOLEAN,
         NEW n \in Nat, n = Len(Content(sb)) + 1, NEW s, s = Rewound(sb, from, to, out), Good(s)
  PROVE  \E go : SearchRun(go, sb, s, from, to, out, n)
<1>1. PICK l \in Nat : l = IF from > to THEN 1 ELSE from
  OBVIOUS
<1>2. gotoLine(sb, from, to, out) = GoRun(s, l, to, n)[n]
  BY <1>1 DEF gotoLine, GoStep, Rewound, GoRun
<1>3. PICK go : go = GoRun(s, l, to, n)
  OBVIOUS
<1>4. /\ go[0] = [sb |-> s, line |-> l, atStart |-> TRUE, eof |-> FALSE]
      /\ \A i \in 1..n : go[i] = GoStep(go[i - 1], to)
      /\ \A i \in 0..n : go[i] \in Going
  BY <1>3, GoSteps
<1>5. go[0] = [sb |-> s, line |-> IF from > to THEN 1 ELSE from, atStart |-> TRUE, eof |-> FALSE]
  BY <1>1, <1>4
<1>6. gotoLine(sb, from, to, out) = go[n]
  BY <1>2, <1>3
<1>7. SearchRun(go, sb, s, from, to, out, n)
  BY <1>4, <1>5, <1>6, Zenon DEF SearchRun
<1>8. QED BY <1>7

LEMMA GotoCounts ==
  ASSUME NEW sb, Good(sb), NEW from \in Nat, NEW to \in Nat, NEW out \in BOOLEAN,
         NEW s, s = Rewound(sb, from, to, out), Good(s), s.io # "PUT"
  PROVE  GoneFrom(s, IF from > to THEN 1 ELSE from, gotoLine(sb, from, to, out))
<1>1. PICK n \in Nat : n = Len(Content(sb)) + 1
  BY ContentGood
<1>2. PICK go : /\ go[0] = [sb |-> s, line |-> IF from > to THEN 1 ELSE from, atStart |-> TRUE, eof |-> FALSE]
                /\ gotoLine(sb, from, to, out) = go[n]
                /\ \A i \in 1..n : go[i] = GoStep(go[i - 1], to)
                /\ \A i \in 0..n : go[i] \in Going
  <2>1. PICK go : SearchRun(go, sb, s, from, to, out, n)
    BY <1>1, GotoSteps
  <2>2. QED BY <2>1 DEF SearchRun
<1>3. PICK l \in Nat : l = IF from > to THEN 1 ELSE from
  OBVIOUS
<1> DEFINE T == {i \in 0..n : GoneFrom(s, l, go[i])}
<1>4. 0 \in T
  <2>1. /\ go[0].sb = s /\ go[0].line = l /\ go[0].atStart = TRUE /\ go[0].eof = FALSE
        /\ go[0] \in Going
    BY <1>2, <1>3
  <2>2. GoneFrom(s, l, go[0])
    BY <1>3, <2>1 DEF GoneFrom
  <2>3. QED BY <2>2
<1>5. ASSUME NEW i \in 1..n, i - 1 \in T PROVE i \in T
  <2>1. GoneFrom(s, l, go[i - 1]) /\ i \in 0..n
    BY <1>5
  <2>2. GoneFrom(s, l, GoStep(go[i - 1], to))
    BY <2>1, GoStepCounts, Zenon
  <2>3. QED BY <1>2, <2>1, <2>2
<1> HIDE DEF T
<1>6. \A i \in 0..n : i \in T
  BY <1>4, <1>5, UpTo
<1>7. n \in T
  BY <1>6
<1>8. QED BY <1>2, <1>3, <1>7 DEF T

LEMMA GotoGood ==
  ASSUME NEW sb, Good(sb), NEW from \in Nat, NEW to \in Nat, NEW out \in BOOLEAN
  PROVE  LET r == gotoLine(sb, from, to, out)
         IN  /\ Good(r.sb) /\ r.line \in Nat
             /\ sb.io # "PUT" /\ ~out =>
                  /\ r.sb.io # "PUT" /\ r.sb.file = sb.file
                  /\ Terminated(sb.file) /\ from = 1 + NewlineCount(sb.file, ReadPos(sb)) =>
                       r.line = 1 + NewlineCount(sb.file, ReadPos(r.sb))
<1>1. PICK n \in Nat : n = Len(Content(sb)) + 1
  BY ContentGood
<1>2. PICK s : s = Rewound(sb, from, to, out) /\ s = IF from <= to THEN sb ELSE IF out THEN SeekOut(sb, 0) ELSE SeekIn(sb, 0)
  BY DEF Rewound
<1>3. PICK l \in Nat : l = IF from > to THEN 1 ELSE from
  OBVIOUS
<1>4. Good(s)
  BY <1>2, SeekInGood, SeekOutGood
<1>5. ASSUME sb.io # "PUT", ~out
      PROVE  /\ s.io # "PUT" /\ s.file = sb.file
             /\ from = 1 + NewlineCount(sb.file, ReadPos(sb)) => l = 1 + NewlineCount(sb.file, ReadPos(s))
  <2>1. CASE from <= to
    BY <1>2, <1>3, <1>5, <2>1
  <2>2. CASE ~(from <= to)
    <3>1. s = SeekIn(sb, 0) /\ l = 1
      BY <1>2, <1>3, <1>5, <2>2
    <3>2. 0 \in Nat /\ 0 # End
      BY DEF End
    <3>3. s.io # "PUT" /\ s.file = sb.file /\ ReadPos(s) = 0
      BY <1>5, <3>1, <3>2, SeekInGood
    <3>4. QED BY <3>1, <3>3, NewlinesFromStart
  <2>3. QED BY <2>1, <2>2
<1>6. PICK r : r = gotoLine(sb, from, to, out)
  OBVIOUS
<1>7. r \in Going
  <2>1. s = Rewound(sb, from, to, out)
    BY <1>2
  <2>2. PICK go : SearchRun(go, sb, s, from, to, out, n)
    BY <1>1, <1>4, <2>1, GotoSteps
  <2>3. n \in 0..n
    BY <1>1
  <2>4. QED BY <1>6, <2>2, <2>3 DEF SearchRun
<1>8. s.io # "PUT" => GoneFrom(s, l, r)
  BY <1>2, <1>3, <1>4, <1>6, GotoCounts
<1>9. Good(r.sb) /\ r.line \in Nat
  BY <1>7 DEF Going, Goods
<1>10. ASSUME sb.io # "PUT", ~out
       PROVE  /\ r.sb.io # "PUT" /\ r.sb.file = sb.file
              /\ Terminated(sb.file) /\ from = 1 + NewlineCount(sb.file, ReadPos(sb)) =>
                   r.line = 1 + NewlineCount(sb.file, ReadPos(r.sb))
  <2>1. GoneFrom(s, l, r) /\ s.file = sb.file
    BY <1>5, <1>8, <1>10
  <2>2. ASSUME Terminated(sb.file), from = 1 + NewlineCount(sb.file, ReadPos(sb))
        PROVE  r.line = 1 + NewlineCount(sb.file, ReadPos(r.sb))
    <3>1. l = 1 + NewlineCount(sb.file, ReadPos(s))
      BY <1>5, <1>10, <2>2
    <3>2. r.line + NewlineCount(sb.file, ReadPos(s)) = l + NewlineCount(sb.file, ReadPos(r.sb))
      BY <2>1, <2>2 DEF GoneFrom
    <3>3. ReadPos(s) \in Nat /\ ReadPos(r.sb) \in Nat
      BY <1>4, <1>9, Pointers
    <3>4. NewlineCount(sb.file, ReadPos(s)) \in Nat /\ NewlineCount(sb.file, ReadPos(r.sb)) \in Nat
      BY <3>3, NewlinesFinite
    <3>5. QED BY <1>9, <3>1, <3>2, <3>4
  <2>3. r.sb.io # "PUT" /\ r.sb.file = sb.file
    BY <2>1 DEF GoneFrom
  <2>4. QED BY <2>2, <2>3
<1>11. QED BY <1>6, <1>9, <1>10

-----------------------------------------------------------------------------
(***************************************************************************)
(* Entries: found, made, turned to be read or written.                     *)
(***************************************************************************)
Modes == {"READ", "WRITE", "READ_DENIED", "WRITE_DENIED", "WRITE_GRANTED"}

EntryTyped(e) ==
  /\ e \in [line : Nat, posSave : Nat, mode : SUBSET Modes, byLine : BOOLEAN, sb : Goods]
  /\ "READ" \in e.mode <=> "WRITE" \notin e.mode

\* A stream that only LINEIN has moved is read, and its line is the one of its position.
EntryCounted(e) ==
  e.byLine => /\ e.sb.io # "PUT" /\ "READ" \in e.mode
              /\ Terminated(e.sb.file) => e.line = 1 + NewlineCount(e.sb.file, ReadPos(e.sb))

Frame(s) ==
  /\ Table(s) /\ s.iCache >= -1 /\ DOMAIN s.ent = Known /\ DOMAIN s.disk = Names
  /\ \A n \in Names : s.disk[n] \in Seq(Stored) \union {Absent}

\* What every operation keeps.
Sound(s) ==
  /\ Frame(s)
  /\ \A id \in Files(s) : EntryTyped(s.ent[id]) /\ EntryCounted(s.ent[id])

\* The entry of id may have been turned to be written, or just made: it is then no longer
\* one that only LINEIN has moved, but is not marked so yet.
Nearly(s, id) ==
  /\ Frame(s) /\ id \in Files(s) /\ EntryTyped(s.ent[id])
  /\ \A k \in Files(s) : k # id => EntryTyped(s.ent[k]) /\ EntryCounted(s.ent[k])

\* t is s with the entry of id replaced.
Revised(s, t, id, e) ==
  /\ Alike(s, t) /\ t.disk = s.disk /\ DOMAIN t.ent = DOMAIN s.ent
  /\ t.ent[id] = e /\ \A k \in DOMAIN s.ent : k # id => t.ent[k] = s.ent[k]

LEMMA FilesKnown ==
  ASSUME NEW s, Frame(s), NEW id \in Files(s)
  PROVE  id \in Names /\ id \in Known /\ id \in DOMAIN s.ent
BY NamesKnown DEF Files, Frame

LEMMA SoundNearly == ASSUME NEW s, Sound(s), NEW id \in Files(s) PROVE Nearly(s, id)
BY DEF Sound, Nearly

LEMMA RevisedFrame ==
  ASSUME NEW s, Frame(s), NEW t, NEW id, NEW e, Revised(s, t, id, e)
  PROVE  Frame(t) /\ Files(t) = Files(s)
<1>1. Table(t)
  BY AlikeTable DEF Frame, Revised
<1>2. QED BY <1>1 DEF Frame, Revised, Alike, Files, Range

LEMMA RevisedSound ==
  ASSUME NEW s, NEW id, Nearly(s, id), NEW t, NEW e, Revised(s, t, id, e), EntryTyped(e), EntryCounted(e)
  PROVE  Sound(t)
<1>1. Frame(s) /\ Frame(t) /\ Files(t) = Files(s)
  BY RevisedFrame DEF Nearly
<1>2. ASSUME NEW k \in Files(t) PROVE EntryTyped(t.ent[k]) /\ EntryCounted(t.ent[k])
  <2>1. k \in Files(s) /\ k \in DOMAIN s.ent
    BY <1>1, FilesKnown
  <2>2. CASE k = id
    BY <2>2 DEF Revised
  <2>3. CASE k # id
    BY <2>1, <2>3 DEF Revised, Nearly
  <2>4. QED BY <2>2, <2>3
<1>3. QED BY <1>1, <1>2 DEF Sound

LEMMA RevisedNearly ==
  ASSUME NEW s, NEW id, Nearly(s, id), NEW t, NEW e, Revised(s, t, id, e), EntryTyped(e)
  PROVE  Nearly(t, id)
<1>1. Frame(s) /\ Frame(t) /\ Files(t) = Files(s)
  BY RevisedFrame DEF Nearly
<1>2. ASSUME NEW k \in Files(t), k # id PROVE EntryTyped(t.ent[k]) /\ EntryCounted(t.ent[k])
  <2>1. k \in Files(s) /\ k \in DOMAIN s.ent
    BY <1>1, FilesKnown
  <2>2. QED BY <1>2, <2>1 DEF Revised, Nearly
<1>3. id \in Files(t) /\ t.ent[id] = e
  BY <1>1 DEF Nearly, Revised
<1>4. QED BY <1>1, <1>2, <1>3 DEF Nearly

\* What becomes of the entry of a console stream is not looked at.
LEMMA RevisedConsole ==
  ASSUME NEW s, Sound(s), NEW t, NEW id, NEW e, id \notin Names, Revised(s, t, id, e)
  PROVE  Sound(t)
<1>1. Frame(s) /\ Frame(t) /\ Files(t) = Files(s)
  BY RevisedFrame DEF Sound
<1>2. ASSUME NEW k \in Files(t) PROVE EntryTyped(t.ent[k]) /\ EntryCounted(t.ent[k])
  <2>1. k \in Files(s) /\ k \in DOMAIN s.ent /\ k # id
    BY <1>1, FilesKnown
  <2>2. QED BY <2>1 DEF Revised, Sound
<1>3. QED BY <1>1, <1>2 DEF Sound

\* An EXCEPT of one entry revises it.
LEMMA EntryRevised ==
  ASSUME NEW s, Frame(s), NEW id \in Known, NEW e
  PROVE  Revised(s, [s EXCEPT !.ent[id] = e], id, e)
BY DEF Revised, Alike, Frame, Table, Fields

LEMMA EntryFields ==
  ASSUME NEW e, EntryTyped(e)
  PROVE  /\ e.line \in Nat /\ e.posSave \in Nat /\ e.mode \in SUBSET Modes /\ e.byLine \in BOOLEAN
         /\ Good(e.sb) /\ e.sb \in Goods /\ ReadPos(e.sb) \in Nat /\ WritePos(e.sb) \in Nat
<1>1. /\ e.line \in Nat /\ e.posSave \in Nat /\ e.mode \in SUBSET Modes /\ e.byLine \in BOOLEAN
      /\ e.sb \in Goods
  BY DEF EntryTyped
<1>2. Good(e.sb)
  BY <1>1 DEF Goods
<1>3. ReadPos(e.sb) \in Nat /\ WritePos(e.sb) \in Nat
  BY <1>2, Pointers
<1>4. QED BY <1>1, <1>2, <1>3

LEMMA GoodGoods == ASSUME NEW s, Good(s) PROVE s \in Goods
BY DEF Good, Goods

\* An entry moved by LINEIN, or by nothing.
LEMMA EntryRead ==
  ASSUME NEW e, EntryTyped(e), EntryCounted(e), NEW sb, Good(sb), NEW l \in Nat,
         e.byLine => /\ sb.io # "PUT"
                     /\ Terminated(sb.file) => l = 1 + NewlineCount(sb.file, ReadPos(sb))
  PROVE  LET f == [e EXCEPT !.sb = sb, !.line = l] IN EntryTyped(f) /\ EntryCounted(f)
<1>1. PICK f : f = [e EXCEPT !.sb = sb, !.line = l]
  OBVIOUS
<1>2. sb \in Goods
  BY GoodGoods
<1>3. f \in [line : Nat, posSave : Nat, mode : SUBSET Modes, byLine : BOOLEAN, sb : Goods]
  BY <1>1, <1>2 DEF EntryTyped
<1>4. f.mode = e.mode /\ f.byLine = e.byLine /\ f.sb = sb /\ f.line = l
  BY <1>1 DEF EntryTyped
<1>5. EntryTyped(f)
  BY <1>3, <1>4 DEF EntryTyped
<1>6. EntryCounted(f)
  BY <1>4 DEF EntryCounted
<1>7. QED BY <1>1, <1>5, <1>6

\* An entry moved by something else.
LEMMA EntryMoved ==
  ASSUME NEW e, EntryTyped(e), NEW sb, Good(sb), NEW l \in Nat
  PROVE  LET f == [e EXCEPT !.sb = sb, !.line = l, !.byLine = FALSE] IN EntryTyped(f) /\ EntryCounted(f)
<1>1. PICK f : f = [e EXCEPT !.sb = sb, !.line = l, !.byLine = FALSE]
  OBVIOUS
<1>2. sb \in Goods
  BY GoodGoods
<1>3. f \in [line : Nat, posSave : Nat, mode : SUBSET Modes, byLine : BOOLEAN, sb : Goods]
  BY <1>1, <1>2 DEF EntryTyped
<1>4. f.mode = e.mode /\ f.byLine = FALSE
  BY <1>1 DEF EntryTyped
<1>5. EntryTyped(f)
  BY <1>3, <1>4 DEF EntryTyped
<1>6. EntryCounted(f)
  BY <1>4 DEF EntryCounted
<1>7. QED BY <1>1, <1>5, <1>6

LEMMA FindSound ==
  ASSUME NEW s, Sound(s), NEW name \in Known
  PROVE  LET r == Find(s, name)
         IN  /\ Sound(r.m)
             /\ \/ r.id = name /\ name \in Range(r.m.entries) /\ r.m.iCache >= 0 /\ r.m.cache = name
                \/ r.id = NoEntry /\ r.m = s /\ name \notin Range(s.entries)
<1> DEFINE hits == {ix \in 1..Len(s.entries) : s.entries[ix] = name}
<1>1. Frame(s) /\ Table(s) /\ s.entries \in Seq(Known) /\ DOMAIN s.entries = 1..Len(s.entries)
  BY LenProperties DEF Sound, Frame, Table
<1>2. Located(s, name, Find(s, name))
  BY <1>1, FindLocates
<1>3. CASE s.iCache >= 0 /\ s.cache = name
  <2>1. Find(s, name) = [m |-> s, id |-> name]
    BY <1>3 DEF Find
  <2>2. s.iCache + 1 \in 1..Len(s.entries) /\ s.entries[s.iCache + 1] = name
    BY <1>1, <1>3, LenProperties DEF Table
  <2>3. name \in Range(s.entries)
    BY <1>1, <2>2 DEF Range
  <2>4. QED BY <1>3, <2>1, <2>3
<1>4. CASE ~(s.iCache >= 0 /\ s.cache = name) /\ hits = {}
  <2>1. Find(s, name) = [m |-> s, id |-> NoEntry]
    BY <1>4 DEF Find
  <2>2. name \notin Range(s.entries)
    BY <1>1, <1>4 DEF Range
  <2>3. QED BY <2>1, <2>2
<1>5. CASE ~(s.iCache >= 0 /\ s.cache = name) /\ hits # {}
  <2>1. PICK k : k = Min(hits) - 1
    OBVIOUS
  <2>2. PICK t : t = [s EXCEPT !.cache = name, !.iCache = k]
    OBVIOUS
  <2>3. Find(s, name) = [m |-> t, id |-> name]
    BY <1>5, <2>1, <2>2, Zenon DEF Find
  <2>4. Find(s, name).m = t /\ Find(s, name).id = name /\ name # NoEntry
    BY <2>3, NamesKnown
  <2>5. Table(t) /\ t.iCache >= 0
    BY <1>2, <2>4 DEF Located
  <2>6. t.entries = s.entries /\ t.cache = name /\ t.disk = s.disk /\ t.ent = s.ent
    BY <1>1, <2>2 DEF Table, Fields
  <2>7. t.iCache >= -1
    BY <2>5 DEF Table
  <2>8. Sound(t)
    BY <2>5, <2>6, <2>7 DEF Sound, Frame, Files
  <2>9. name \in Range(t.entries)
    BY <1>1, <1>5, <2>6 DEF Range
  <2>10. QED BY <2>4, <2>5, <2>6, <2>8, <2>9
<1>6. QED BY <1>3, <1>4, <1>5

LEMMA MakeSound ==
  ASSUME NEW s, Sound(s), NEW name \in Known, NEW out \in BOOLEAN, name \notin Range(s.entries)
  PROVE  LET r == Make(s, name, out)
         IN  /\ r.id \notin Names => Sound(r.m)
             /\ r.id \in Names => Nearly(r.m, r.id)
             /\ r.id \in Names /\ ~out => EntryCounted(r.m.ent[r.id])
<1>1. Frame(s) /\ Table(s) /\ s.entries \in Seq(Known) /\ DOMAIN s.entries = 1..Len(s.entries)
      /\ Len(s.entries) \in Nat
  BY LenProperties DEF Sound, Frame, Table
<1>2. \A i \in 1..Len(s.entries) : s.entries[i] # name
  BY <1>1 DEF Range
<1>3. Table(Make(s, name, out).m)
  BY <1>1, <1>2, MakeKeeps
<1>4. PICK file : file = IF s.disk[name] = Absent THEN << >> ELSE s.disk[name]
  OBVIOUS
<1>5. PICK good : good = (IF out THEN name \notin s.ro ELSE s.disk[name] # Absent)
  OBVIOUS
<1>6. PICK e0 : e0 = FileEntry(IF out THEN {"WRITE", "WRITE_GRANTED"} ELSE {"READ"}, file)
  OBVIOUS
<1>7. PICK e : e = IF out THEN [e0 EXCEPT !.sb = SeekOut(@, End)] ELSE e0
  OBVIOUS
<1>8. CASE ~good
  <2>1. Make(s, name, out) = [m |-> s, id |-> NoEntry]
    BY <1>5, <1>8 DEF Make
  <2>2. Make(s, name, out).m = s /\ Make(s, name, out).id \notin Names
    BY <2>1, NoNameIsNoEntry
  <2>3. QED BY <2>2
<1>9. CASE good
  <2>1. PICK t : t = [s EXCEPT !.entries = Append(@, name), !.cache = name,
                               !.iCache = Len(s.entries), !.disk[name] = InUse, !.ent[name] = e]
    OBVIOUS
  <2>2. Make(s, name, out) = [m |-> t, id |-> name]
    BY <1>4, <1>5, <1>6, <1>7, <1>9, <2>1, Zenon DEF Make
  <2>3. Make(s, name, out).m = t /\ Make(s, name, out).id = name
    BY <2>2
  <2>4. /\ t.entries = Append(s.entries, name) /\ t.iCache = Len(s.entries)
        /\ t.disk = [s.disk EXCEPT ![name] = InUse] /\ t.ent = [s.ent EXCEPT ![name] = e]
    BY <1>1, <2>1 DEF Table, Fields
  <2>5. /\ DOMAIN t.ent = Known /\ DOMAIN t.disk = Names /\ t.ent[name] = e
        /\ \A k \in Known : k # name => t.ent[k] = s.ent[k]
    BY <1>1, <2>4 DEF Frame
  <2>6. ASSUME NEW n \in Names PROVE t.disk[n] \in Seq(Stored) \union {Absent}
    <3>1. CASE n = name
      <4>1. InUse \in Seq(Stored)
        BY EmptySeq DEF InUse
      <4>2. t.disk[n] = InUse
        BY <1>1, <2>4, <3>1 DEF Frame
      <4>3. QED BY <4>1, <4>2
    <3>2. CASE n # name
      BY <1>1, <2>4, <3>2 DEF Frame
    <3>3. QED BY <3>1, <3>2
  <2>7. t.iCache >= -1
    BY <1>1, <2>4
  <2>8. Frame(t)
    BY <1>3, <2>3, <2>5, <2>6, <2>7 DEF Frame
  <2>9. Range(t.entries) = Range(s.entries) \union {name}
    <3>1. PICK n \in Nat : n = Len(s.entries)
      BY <1>1
    <3>2. /\ t.entries \in Seq(Known) /\ Len(t.entries) = n + 1 /\ t.entries[n + 1] = name
          /\ \A i \in 1..n : t.entries[i] = s.entries[i]
      BY <1>1, <2>4, <3>1, AppendProperties
    <3>3. DOMAIN t.entries = 1..(n + 1)
      BY <3>2, LenProperties
    <3>4. \A i \in 1..(n + 1) : i \in 1..n \/ i = n + 1
      OBVIOUS
    <3>5. n + 1 \in 1..(n + 1) /\ \A i \in 1..n : i \in 1..(n + 1)
      OBVIOUS
    <3>6. QED BY <1>1, <3>1, <3>2, <3>3, <3>4, <3>5 DEF Range
  <2>10. ASSUME NEW k \in Files(t), k # name PROVE EntryTyped(t.ent[k]) /\ EntryCounted(t.ent[k])
    <3>1. k \in Files(s) /\ k \in Known
      BY <2>9, <2>10, NamesKnown DEF Files
    <3>2. QED BY <2>5, <2>10, <3>1 DEF Sound
  <2>11. CASE name \notin Names
    <3>1. name \notin Files(t)
      BY <2>11 DEF Files
    <3>2. QED BY <2>3, <2>8, <2>10, <2>11, <3>1 DEF Sound
  <2>12. CASE name \in Names
    <3>1. file \in Seq(Stored)
      <4>1. s.disk[name] \in Seq(Stored) \union {Absent}
        BY <1>1, <2>12 DEF Frame
      <4>2. QED BY <1>4, <4>1, EmptySeq
    <3>2. PICK sb : sb = Opened(file)
      OBVIOUS
    <3>3. Good(sb) /\ sb.io = "NONE" /\ ReadPos(sb) = 0 /\ sb \in Goods
      BY <3>1, <3>2, OpenedGood, GoodGoods DEF ReadPos, InAvail
    <3>4. PICK mode : mode = IF out THEN {"WRITE", "WRITE_GRANTED"} ELSE {"READ"}
      OBVIOUS
    <3>5. mode \in SUBSET Modes /\ ("READ" \in mode <=> "WRITE" \notin mode) /\ (~out => "READ" \in mode)
      BY <3>4 DEF Modes
    <3>6. e0 = [line |-> 1, posSave |-> 0, mode |-> mode, byLine |-> TRUE, sb |-> sb]
      BY <1>6, <3>2, <3>4 DEF FileEntry
    <3>7. Good(SeekOut(sb, End))
      BY <3>3, SeekOutGood
    <3>8. PICK sc : sc = IF out THEN SeekOut(sb, End) ELSE sb
      OBVIOUS
    <3>9. sc \in Goods
      BY <3>3, <3>7, <3>8, GoodGoods
    <3>10. e = [line |-> 1, posSave |-> 0, mode |-> mode, byLine |-> TRUE, sb |-> sc]
      BY <1>7, <3>6, <3>8
    <3>11. EntryTyped(e)
      BY <3>5, <3>9, <3>10 DEF EntryTyped
    <3>12. ~out => EntryCounted(e)
      BY <3>3, <3>5, <3>8, <3>10, NewlinesFromStart DEF EntryCounted
    <3>13. name \in Files(t)
      BY <2>9, <2>12 DEF Files
    <3>14. Nearly(t, name)
      BY <2>5, <2>8, <2>10, <3>11, <3>13 DEF Nearly
    <3>15. QED BY <2>3, <2>5, <2>12, <3>12, <3>14
  <2>13. QED BY <2>11, <2>12
<1>10. good \in BOOLEAN
  BY <1>5
<1>11. QED BY <1>8, <1>9, <1>10

LEMMA ReopenedGood ==
  ASSUME NEW s, Good(s)
  PROVE  Good(Reopened(s)) /\ Reopened(s).io = "NONE" /\ (s.io # "PUT" => Reopened(s).file = s.file)
<1>1. Closed(s) \in Seq(Stored)
  BY ClosedStored
<1>2. s.io # "PUT" => Closed(s) = s.file
  BY SyncGood DEF Closed
<1>3. QED BY <1>1, <1>2, OpenedGood DEF Reopened

LEMMA EntryToReadSound ==
  ASSUME NEW s, Sound(s), NEW id \in Known, id \in Range(s.entries)
  PROVE  LET r == EntryToRead(s, id)
         IN  Sound(r.m) /\ (r.id \in Names => r.id \in Files(r.m))
<1>1. Frame(s) /\ NoEntry \notin Names
  BY NoNameIsNoEntry DEF Sound
<1>2. PICK e : e = s.ent[id]
  OBVIOUS
<1>3. CASE "READ" \in e.mode
  <2>1. EntryToRead(s, id) = [m |-> s, id |-> id]
    BY <1>2, <1>3 DEF EntryToRead
  <2>2. EntryToRead(s, id).m = s /\ EntryToRead(s, id).id = id
    BY <2>1
  <2>3. QED BY <2>2 DEF Files
<1>4. CASE "READ" \notin e.mode /\ "READ_DENIED" \in e.mode
  <2>1. EntryToRead(s, id) = [m |-> s, id |-> NoEntry]
    BY <1>2, <1>4 DEF EntryToRead
  <2>2. EntryToRead(s, id).m = s /\ EntryToRead(s, id).id = NoEntry
    BY <2>1
  <2>3. QED BY <1>1, <2>2
<1>5. CASE "READ" \notin e.mode /\ "READ_DENIED" \notin e.mode
  <2>1. PICK f : f = [e EXCEPT !.posSave = WritePos(e.sb), !.sb = SeekIn(@, e.posSave),
                               !.mode = (@ \ {"WRITE"}) \union {"READ"}]
    OBVIOUS
  <2>2. PICK t : t = [s EXCEPT !.ent[id] = f]
    OBVIOUS
  <2>3. EntryToRead(s, id) = [m |-> t, id |-> id]
    BY <1>2, <1>5, <2>1, <2>2, Zenon DEF EntryToRead
  <2>4. EntryToRead(s, id).m = t /\ EntryToRead(s, id).id = id
    BY <2>3
  <2>5. Revised(s, t, id, f)
    BY <1>1, <2>2, EntryRevised
  <2>6. CASE id \notin Names
    <3>1. Sound(t)
      BY <2>5, <2>6, RevisedConsole
    <3>2. QED BY <2>4, <2>6, <3>1
  <2>7. CASE id \in Names
    <3>1. id \in Files(s) /\ EntryTyped(e) /\ EntryCounted(e)
      BY <1>2, <2>7 DEF Files, Sound
    <3>2. e.byLine = FALSE
      BY <1>5, <3>1, EntryFields DEF EntryCounted
    <3>3. PICK sb : sb = SeekIn(e.sb, e.posSave)
      OBVIOUS
    <3>4. Good(sb)
      BY <3>1, <3>3, EntryFields, SeekInGood
    <3>5. sb \in Goods
      BY <3>4, GoodGoods
    <3>6. PICK w \in Nat : w = WritePos(e.sb)
      BY <3>1, EntryFields
    <3>7. PICK mode : mode = (e.mode \ {"WRITE"}) \union {"READ"}
      OBVIOUS
    <3>8. mode \in SUBSET Modes /\ "READ" \in mode /\ "WRITE" \notin mode
      BY <3>1, <3>7, EntryFields DEF Modes
    <3>9. f = [e EXCEPT !.posSave = w, !.sb = sb, !.mode = mode]
      BY <2>1, <3>1, <3>3, <3>6, <3>7 DEF EntryTyped
    <3>10. EntryTyped(f) /\ f.byLine = FALSE
      BY <3>1, <3>2, <3>5, <3>8, <3>9 DEF EntryTyped
    <3>11. EntryCounted(f)
      BY <3>10 DEF EntryCounted
    <3>12. Nearly(s, id)
      BY <3>1, SoundNearly
    <3>13. Sound(t)
      BY <2>5, <3>10, <3>11, <3>12, RevisedSound
    <3>14. id \in Files(t)
      BY <1>1, <2>5, <3>1, RevisedFrame
    <3>15. QED BY <2>4, <3>13, <3>14
  <2>8. QED BY <2>6, <2>7
<1>6. QED BY <1>3, <1>4, <1>5

\* A stream that is refused stays as it was, its read position and its line too.
LEMMA EntryToWriteSound ==
  ASSUME NEW s, Sound(s), NEW id \in Known, id \in Range(s.entries)
  PROVE  LET r == EntryToWrite(s, id)
         IN  /\ r.id \notin Names => Sound(r.m)
             /\ r.id \in Names => Nearly(r.m, r.id)
<1>1. Frame(s) /\ NoEntry \notin Names
  BY NoNameIsNoEntry DEF Sound
<1>2. PICK e : e = s.ent[id]
  OBVIOUS
<1>3. id \in Names => id \in Files(s) /\ EntryTyped(e) /\ EntryCounted(e) /\ Nearly(s, id)
  <2>1. id \in Names => id \in Files(s)
    BY DEF Files
  <2>2. QED BY <1>2, <2>1, SoundNearly DEF Sound
<1> DEFINE saved  == ReadPos(e.sb)
           nowOut == [e EXCEPT !.posSave = saved, !.mode = (@ \ {"READ"}) \union {"WRITE"}]
<1>4. CASE "WRITE" \in e.mode
  <2>1. EntryToWrite(s, id) = [m |-> s, id |-> id]
    BY <1>2, <1>4 DEF EntryToWrite
  <2>2. EntryToWrite(s, id).m = s /\ EntryToWrite(s, id).id = id
    BY <2>1
  <2>3. QED BY <1>3, <2>2
<1>5. CASE "WRITE" \notin e.mode /\ "WRITE_DENIED" \in e.mode
  <2>1. EntryToWrite(s, id) = [m |-> s, id |-> NoEntry]
    BY <1>2, <1>5 DEF EntryToWrite
  <2>2. EntryToWrite(s, id).m = s /\ EntryToWrite(s, id).id = NoEntry
    BY <2>1
  <2>3. QED BY <1>1, <2>2
<1>6. ASSUME NEW f, NEW t, t = [s EXCEPT !.ent[id] = f], EntryToWrite(s, id) = [m |-> t, id |-> id],
             id \in Names => EntryTyped(f)
      PROVE  LET r == EntryToWrite(s, id)
             IN  /\ r.id \notin Names => Sound(r.m)
                 /\ r.id \in Names => Nearly(r.m, r.id)
  <2>1. EntryToWrite(s, id).m = t /\ EntryToWrite(s, id).id = id
    BY <1>6
  <2>2. Revised(s, t, id, f)
    BY <1>1, <1>6, EntryRevised
  <2>3. CASE id \notin Names
    BY <2>1, <2>2, <2>3, RevisedConsole
  <2>4. CASE id \in Names
    <3>1. Nearly(t, id)
      BY <1>3, <1>6, <2>2, <2>4, RevisedNearly
    <3>2. QED BY <2>1, <2>4, <3>1
  <2>5. QED BY <2>3, <2>4
<1>7. ASSUME id \in Names, NEW sb, Good(sb), NEW x \in SUBSET {"WRITE_GRANTED"},
             NEW f, f = [e EXCEPT !.posSave = saved, !.mode = (e.mode \ {"READ"}) \union {"WRITE"} \union x, !.sb = sb]
      PROVE  EntryTyped(f)
  <2>1. EntryTyped(e) /\ sb \in Goods /\ saved \in Nat
    BY <1>3, <1>7, GoodGoods, EntryFields
  <2>2. PICK mode : mode = (e.mode \ {"READ"}) \union {"WRITE"} \union x
    OBVIOUS
  <2>3. mode \in SUBSET Modes /\ "WRITE" \in mode /\ "READ" \notin mode
    BY <2>1, <2>2, EntryFields DEF Modes
  <2>4. PICK p \in Nat : p = saved
    BY <2>1
  <2>5. f = [e EXCEPT !.posSave = p, !.mode = mode, !.sb = sb]
    BY <1>7, <2>2, <2>4
  <2>6. QED BY <2>1, <2>3, <2>5 DEF EntryTyped
<1>8. CASE "WRITE" \notin e.mode /\ "WRITE_DENIED" \notin e.mode /\ "WRITE_GRANTED" \in e.mode
  <2>1. PICK f : f = [nowOut EXCEPT !.sb = SeekOut(@, e.posSave)]
    OBVIOUS
  <2>2. PICK t : t = [s EXCEPT !.ent[id] = f]
    OBVIOUS
  <2>3. EntryToWrite(s, id) = [m |-> t, id |-> id]
    BY <1>2, <1>8, <2>1, <2>2, Zenon DEF EntryToWrite
  <2>4. ASSUME id \in Names PROVE EntryTyped(f)
    <3>1. EntryTyped(e)
      BY <1>3, <2>4
    <3>2. PICK sb : sb = SeekOut(e.sb, e.posSave)
      OBVIOUS
    <3>3. Good(sb)
      BY <3>1, <3>2, EntryFields, SeekOutGood
    <3>4. f = [e EXCEPT !.posSave = saved, !.mode = (e.mode \ {"READ"}) \union {"WRITE"} \union {}, !.sb = sb]
      <4> DEFINE mode == (e.mode \ {"READ"}) \union {"WRITE"}
      <4>1. f = [e EXCEPT !.posSave = saved, !.mode = mode, !.sb = sb]
        BY <2>1, <3>1, <3>2 DEF EntryTyped
      <4>2. mode = (e.mode \ {"READ"}) \union {"WRITE"} \union {}
        OBVIOUS
      <4>3. QED BY <4>1, <4>2
    <3>5. QED BY <1>7, <2>4, <3>3, <3>4
  <2>5. QED BY <1>6, <2>2, <2>3, <2>4
<1>9. CASE /\ "WRITE" \notin e.mode /\ "WRITE_DENIED" \notin e.mode /\ "WRITE_GRANTED" \notin e.mode
           /\ id \notin s.ro
  <2>1. PICK f : f = [nowOut EXCEPT !.sb = SeekOut(Reopened(@), End), !.mode = @ \union {"WRITE_GRANTED"}]
    OBVIOUS
  <2>2. PICK t : t = [s EXCEPT !.ent[id] = f]
    OBVIOUS
  <2>3. EntryToWrite(s, id) = [m |-> t, id |-> id]
    BY <1>2, <1>9, <2>1, <2>2, Zenon DEF EntryToWrite
  <2>4. ASSUME id \in Names PROVE EntryTyped(f)
    <3>1. EntryTyped(e)
      BY <1>3, <2>4
    <3>2. PICK sb : sb = SeekOut(Reopened(e.sb), End)
      OBVIOUS
    <3>3. Good(sb)
      BY <3>1, <3>2, EntryFields, ReopenedGood, SeekOutGood
    <3>4. f = [e EXCEPT !.posSave = saved, !.mode = (e.mode \ {"READ"}) \union {"WRITE"} \union {"WRITE_GRANTED"},
                        !.sb = sb]
      BY <2>1, <3>1, <3>2 DEF EntryTyped
    <3>5. QED BY <1>7, <2>4, <3>3, <3>4
  <2>5. QED BY <1>6, <2>2, <2>3, <2>4
<1>10. CASE /\ "WRITE" \notin e.mode /\ "WRITE_DENIED" \notin e.mode /\ "WRITE_GRANTED" \notin e.mode
            /\ id \in s.ro
  <2>1. PICK sb : sb = SeekIn(Reopened(e.sb), saved)
    OBVIOUS
  <2>2. PICK mode : mode = e.mode \union {"WRITE_DENIED"}
    OBVIOUS
  <2>3. PICK f : f = [e EXCEPT !.sb = sb, !.mode = mode]
    OBVIOUS
  <2>4. PICK t : t = [s EXCEPT !.ent[id] = f]
    OBVIOUS
  <2>5. EntryToWrite(s, id) = [m |-> t, id |-> NoEntry]
    <3>1. EntryToWrite(s, id) = [m |-> [s EXCEPT !.ent[id].sb = SeekIn(Reopened(@), saved),
                                                 !.ent[id].mode = @ \union {"WRITE_DENIED"}],
                                 id |-> NoEntry]
      BY <1>2, <1>10, Zenon DEF EntryToWrite
    <3>2. [s EXCEPT !.ent[id].sb = SeekIn(Reopened(@), saved), !.ent[id].mode = @ \union {"WRITE_DENIED"}] = t
      BY <1>1, <1>2, <2>1, <2>2, <2>3, <2>4 DEF Frame, Table, Fields
    <3>3. QED BY <3>1, <3>2
  <2>6. EntryToWrite(s, id).m = t /\ EntryToWrite(s, id).id = NoEntry
    BY <2>5
  <2>7. Revised(s, t, id, f)
    BY <1>1, <2>4, EntryRevised
  <2>8. CASE id \notin Names
    <3>1. Sound(t)
      BY <2>7, <2>8, RevisedConsole
    <3>2. QED BY <1>1, <2>6, <3>1
  <2>9. CASE id \in Names
    <3>1. EntryTyped(e) /\ EntryCounted(e) /\ Nearly(s, id)
      BY <1>3, <2>9
    <3>2. Good(e.sb) /\ saved \in Nat /\ e.mode \in SUBSET Modes
      BY <3>1, EntryFields
    <3>3. PICK o : o = Reopened(e.sb)
      OBVIOUS
    <3>4. Good(o) /\ o.io # "PUT" /\ (e.sb.io # "PUT" => o.file = e.sb.file)
      BY <3>2, <3>3, ReopenedGood
    <3>5. saved # End
      BY <3>2 DEF End
    <3>6. Good(sb) /\ sb.io # "PUT" /\ sb.file = o.file /\ ReadPos(sb) = saved
      BY <2>1, <3>2, <3>3, <3>4, <3>5, SeekInGood
    <3>7. sb \in Goods
      BY <3>6, GoodGoods
    <3>8. mode \in SUBSET Modes /\ ("READ" \in mode <=> "READ" \in e.mode) /\ ("WRITE" \in mode <=> "WRITE" \in e.mode)
      BY <2>2, <3>2 DEF Modes
    <3>9. EntryTyped(f)
      BY <2>3, <3>1, <3>7, <3>8 DEF EntryTyped
    <3>10. f.byLine = e.byLine /\ f.mode = mode /\ f.sb = sb /\ f.line = e.line
      BY <2>3, <3>1 DEF EntryTyped
    <3>11. EntryCounted(f)
      <4>1. SUFFICES ASSUME e.byLine
                     PROVE  /\ f.sb.io # "PUT" /\ "READ" \in f.mode
                            /\ Terminated(f.sb.file) => f.line = 1 + NewlineCount(f.sb.file, ReadPos(f.sb))
        BY <3>10 DEF EntryCounted
      <4>2. /\ e.sb.io # "PUT" /\ "READ" \in e.mode
            /\ Terminated(e.sb.file) => e.line = 1 + NewlineCount(e.sb.file, ReadPos(e.sb))
        BY <3>1, <4>1 DEF EntryCounted
      <4>3. f.sb.file = e.sb.file /\ ReadPos(f.sb) = ReadPos(e.sb)
        BY <3>4, <3>6, <3>10, <4>2
      <4>4. QED BY <3>6, <3>8, <3>10, <4>2, <4>3
    <3>12. Sound(t)
      BY <2>7, <3>1, <3>9, <3>11, RevisedSound
    <3>13. QED BY <1>1, <2>6, <3>12
  <2>10. QED BY <2>8, <2>9
<1>11. QED BY <1>4, <1>5, <1>8, <1>9, <1>10

LEMMA EnsureReadSound ==
  ASSUME NEW s, Sound(s), NEW name \in Known
  PROVE  LET r == ensureRead(s, name)
         IN  Sound(r.m) /\ (IsFile(r) => r.id \in Files(r.m))
<1>1. PICK f : f = Find(s, name)
  OBVIOUS
<1>2. /\ Sound(f.m)
      /\ \/ f.id = name /\ name \in Range(f.m.entries)
         \/ f.id = NoEntry /\ f.m = s /\ name \notin Range(s.entries)
  BY <1>1, FindSound
<1>3. CASE f.id = NoEntry
  <2>1. PICK r : r = Make(s, name, FALSE)
    OBVIOUS
  <2>2. name # NoEntry
    BY NamesKnown
  <2>3. ensureRead(s, name) = r
    BY <1>1, <1>2, <1>3, <2>1, <2>2 DEF ensureRead
  <2>4. /\ r.id \notin Names => Sound(r.m)
        /\ r.id \in Names => Nearly(r.m, r.id) /\ EntryCounted(r.m.ent[r.id])
    BY <1>2, <1>3, <2>1, <2>2, MakeSound
  <2>5. r.id \in Names => Sound(r.m) /\ r.id \in Files(r.m)
    BY <2>4 DEF Nearly, Sound
  <2>6. QED BY <2>3, <2>4, <2>5 DEF IsFile
<1>4. CASE f.id # NoEntry
  <2>1. ensureRead(s, name) = EntryToRead(f.m, name)
    BY <1>1, <1>2, <1>4 DEF ensureRead
  <2>2. QED BY <1>2, <1>4, <2>1, EntryToReadSound DEF IsFile
<1>5. QED BY <1>3, <1>4

LEMMA EnsureWriteSound ==
  ASSUME NEW s, Sound(s), NEW name \in Known
  PROVE  LET r == ensureWrite(s, name)
         IN  /\ ~IsFile(r) => Sound(r.m)
             /\ IsFile(r) => Nearly(r.m, r.id)
<1>1. PICK f : f = Find(s, name)
  OBVIOUS
<1>2. /\ Sound(f.m)
      /\ \/ f.id = name /\ name \in Range(f.m.entries)
         \/ f.id = NoEntry /\ f.m = s /\ name \notin Range(s.entries)
  BY <1>1, FindSound
<1>3. CASE f.id = NoEntry
  <2>1. name # NoEntry
    BY NamesKnown
  <2>2. ensureWrite(s, name) = Make(s, name, TRUE)
    BY <1>1, <1>2, <1>3, <2>1 DEF ensureWrite
  <2>3. QED BY <1>2, <1>3, <2>1, <2>2, MakeSound DEF IsFile
<1>4. CASE f.id # NoEntry
  <2>1. ensureWrite(s, name) = EntryToWrite(f.m, name)
    BY <1>1, <1>2, <1>4 DEF ensureWrite
  <2>2. QED BY <1>2, <1>4, <2>1, EntryToWriteSound DEF IsFile
<1>5. QED BY <1>3, <1>4

-----------------------------------------------------------------------------
(***************************************************************************)
(* The operations keep the manager sound.                                  *)
(***************************************************************************)
\* The four ways in which an operation leaves an entry.
LEMMA LineSet ==
  ASSUME NEW s, Sound(s), NEW id \in Files(s), NEW sb, Good(sb), NEW l \in Nat,
         s.ent[id].byLine => /\ sb.io # "PUT"
                             /\ Terminated(sb.file) => l = 1 + NewlineCount(sb.file, ReadPos(sb))
  PROVE  Sound([s EXCEPT !.ent[id].sb = sb, !.ent[id].line = l])
<1>1. Frame(s) /\ id \in Known /\ Nearly(s, id)
  BY FilesKnown, SoundNearly DEF Sound
<1>2. PICK e : e = s.ent[id]
  OBVIOUS
<1>3. EntryTyped(e) /\ EntryCounted(e)
  BY <1>2 DEF Sound
<1>4. PICK f : f = [e EXCEPT !.sb = sb, !.line = l]
  OBVIOUS
<1>5. EntryTyped(f) /\ EntryCounted(f)
  BY <1>2, <1>3, <1>4, EntryRead
<1>6. PICK t : t = [s EXCEPT !.ent[id] = f]
  OBVIOUS
<1>7. Sound(t)
  BY <1>1, <1>5, <1>6, EntryRevised, RevisedSound
<1>8. [s EXCEPT !.ent[id].sb = sb, !.ent[id].line = l] = t
  BY <1>1, <1>2, <1>4, <1>6 DEF Frame, Table, Fields
<1>9. QED BY <1>7, <1>8

LEMMA StreamSet ==
  ASSUME NEW s, Sound(s), NEW id \in Files(s), NEW sb, Good(sb),
         s.ent[id].sb.io # "PUT" => /\ sb.io # "PUT" /\ sb.file = s.ent[id].sb.file
                                    /\ ReadPos(sb) = ReadPos(s.ent[id].sb)
  PROVE  Sound(WithStream(s, id, sb))
<1>1. Frame(s) /\ id \in Known
  BY FilesKnown DEF Sound
<1>2. PICK e : e = s.ent[id]
  OBVIOUS
<1>3. EntryTyped(e) /\ EntryCounted(e)
  BY <1>2 DEF Sound
<1>4. PICK l \in Nat : l = e.line
  BY <1>3, EntryFields
<1>5. e.byLine => /\ sb.io # "PUT"
                  /\ Terminated(sb.file) => l = 1 + NewlineCount(sb.file, ReadPos(sb))
  BY <1>2, <1>3, <1>4 DEF EntryCounted
<1>6. Sound([s EXCEPT !.ent[id].sb = sb, !.ent[id].line = l])
  BY <1>2, <1>5, LineSet
<1>7. WithStream(s, id, sb) = [s EXCEPT !.ent[id].sb = sb, !.ent[id].line = l]
  <2>1. [e EXCEPT !.sb = sb] = [e EXCEPT !.sb = sb, !.line = l]
    BY <1>3, <1>4 DEF EntryTyped
  <2>2. WithStream(s, id, sb) = [s EXCEPT !.ent[id] = [e EXCEPT !.sb = sb]]
    BY <1>1, <1>2 DEF WithStream, Frame, Table, Fields
  <2>3. [s EXCEPT !.ent[id].sb = sb, !.ent[id].line = l] = [s EXCEPT !.ent[id] = [e EXCEPT !.sb = sb, !.line = l]]
    BY <1>1, <1>2 DEF Frame, Table, Fields
  <2>4. QED BY <2>1, <2>2, <2>3
<1>8. QED BY <1>6, <1>7

LEMMA WrittenSet ==
  ASSUME NEW s, NEW id, Nearly(s, id), NEW sb, Good(sb), NEW l \in Nat
  PROVE  Sound([s EXCEPT !.ent[id].sb = sb, !.ent[id].line = l, !.ent[id].byLine = FALSE])
<1>1. Frame(s) /\ id \in Files(s)
  BY DEF Nearly
<1>2. id \in Known
  BY <1>1, FilesKnown
<1>3. PICK e : e = s.ent[id]
  OBVIOUS
<1>4. EntryTyped(e)
  BY <1>3 DEF Nearly
<1>5. PICK f : f = [e EXCEPT !.sb = sb, !.line = l, !.byLine = FALSE]
  OBVIOUS
<1>6. EntryTyped(f) /\ EntryCounted(f)
  BY <1>4, <1>5, EntryMoved
<1>7. PICK t : t = [s EXCEPT !.ent[id] = f]
  OBVIOUS
<1>8. Sound(t)
  BY <1>1, <1>2, <1>6, <1>7, EntryRevised, RevisedSound
<1>9. [s EXCEPT !.ent[id].sb = sb, !.ent[id].line = l, !.ent[id].byLine = FALSE] = t
  BY <1>1, <1>2, <1>3, <1>5, <1>7 DEF Frame, Table, Fields
<1>10. QED BY <1>8, <1>9

LEMMA MovedSet ==
  ASSUME NEW s, NEW id, Nearly(s, id), NEW sb, Good(sb)
  PROVE  Sound([s EXCEPT !.ent[id].sb = sb, !.ent[id].byLine = FALSE])
<1>1. Frame(s) /\ id \in Files(s)
  BY DEF Nearly
<1>2. id \in Known
  BY <1>1, FilesKnown
<1>3. PICK e : e = s.ent[id]
  OBVIOUS
<1>4. EntryTyped(e)
  BY <1>3 DEF Nearly
<1>5. PICK l \in Nat : l = e.line
  BY <1>4, EntryFields
<1>6. Sound([s EXCEPT !.ent[id].sb = sb, !.ent[id].line = l, !.ent[id].byLine = FALSE])
  BY WrittenSet
<1>7. [s EXCEPT !.ent[id].sb = sb, !.ent[id].byLine = FALSE]
        = [s EXCEPT !.ent[id].sb = sb, !.ent[id].line = l, !.ent[id].byLine = FALSE]
  <2>1. [e EXCEPT !.sb = sb, !.byLine = FALSE] = [e EXCEPT !.sb = sb, !.line = l, !.byLine = FALSE]
    BY <1>4, <1>5 DEF EntryTyped
  <2>2. [s EXCEPT !.ent[id].sb = sb, !.ent[id].byLine = FALSE]
          = [s EXCEPT !.ent[id] = [e EXCEPT !.sb = sb, !.byLine = FALSE]]
    BY <1>1, <1>2, <1>3 DEF Frame, Table, Fields
  <2>3. [s EXCEPT !.ent[id].sb = sb, !.ent[id].line = l, !.ent[id].byLine = FALSE]
          = [s EXCEPT !.ent[id] = [e EXCEPT !.sb = sb, !.line = l, !.byLine = FALSE]]
    BY <1>1, <1>2, <1>3 DEF Frame, Table, Fields
  <2>4. QED BY <2>1, <2>2, <2>3
<1>8. QED BY <1>6, <1>7

LEMMA DoneSound == ASSUME NEW s, NEW r, Sound(s), Done(s, r) PROVE Sound(m)'
BY DEF Done

LEMMA InitSound == Init => Sound(m)
<1>1. SUFFICES ASSUME Init PROVE Sound(m)
  OBVIOUS
<1>2. PICK disk \in [Names -> UNION {Contents[n] : n \in Names}], ro \in SUBSET (Names \ Idle) :
       /\ \A n \in Names : disk[n] \in Contents[n]
       /\ m = [entries |-> Std, iCache |-> 0, cache |-> "in", disk |-> disk, ro |-> ro,
               ent |-> [name \in Names \union Range(Std) |->
                 IF name = "in" THEN ConsoleEntry({"READ", "WRITE_DENIED"})
                 ELSE IF name \in Names THEN Free ELSE ConsoleEntry({"WRITE", "READ_DENIED"})]]
  BY <1>1, Zenon DEF Init
<1>3. m.entries = Std /\ m.iCache = 0 /\ m.disk = disk /\ DOMAIN m.ent = Known
  BY <1>2 DEF Known
<1>4. ASSUME NEW n \in Names PROVE m.disk[n] \in Seq(Stored) \union {Absent}
  <2>1. m.disk[n] \in Seq(Bytes) \union {Absent}
    BY <1>2, <1>3, ContentsAreBytes
  <2>2. ASSUME NEW f \in Seq(Bytes) PROVE f \in Seq(Stored)
    <3>1. PICK k \in Nat : k = Len(f)
      BY LenProperties
    <3>2. f \in [1..k -> Bytes]
      BY <3>1, LenProperties
    <3>3. f \in [1..k -> Stored]
      BY <3>2 DEF Stored
    <3>4. QED BY <3>3, SeqDef
  <2>3. QED BY <2>1, <2>2
<1>5. Frame(m)
  BY <1>1, <1>2, <1>3, <1>4, InitTable DEF Frame
<1>6. Files(m) = {}
  <2>1. Range(Std) = {"in", "out", "err"}
    BY DEF Range, Std
  <2>2. QED BY <1>3, <2>1, NamesAreNotTheConsole DEF Files
<1>7. QED BY <1>5, <1>6 DEF Sound

LEMMA GoodEntry ==
  ASSUME NEW s, NEW id, Nearly(s, id)
  PROVE  /\ Good(s.ent[id].sb) /\ s.ent[id].line \in Nat
         /\ ReadPos(s.ent[id].sb) \in Nat /\ s.ent[id].byLine \in BOOLEAN
<1>1. EntryTyped(s.ent[id])
  BY DEF Nearly
<1>2. QED BY <1>1, EntryFields

LEMMA OpenSound == ASSUME Sound(m), NEW name \in Known, Open(name) PROVE Sound(m)'
<1>1. PICK f : f = Find(m, name)
  OBVIOUS
<1>2. /\ Sound(f.m)
      /\ \/ f.id = name
         \/ f.id = NoEntry /\ f.m = m /\ name \notin Range(m.entries)
  BY <1>1, FindSound
<1>3. PICK r : r = IF f.id = NoEntry THEN Make(m, name, FALSE) ELSE f
  OBVIOUS
<1>4. Sound(r.m)
  <2>1. CASE f.id = NoEntry
    <3>1. name # NoEntry
      BY NamesKnown
    <3>2. /\ r.id \notin Names => Sound(r.m)
          /\ r.id \in Names => Nearly(r.m, r.id) /\ EntryCounted(r.m.ent[r.id])
      BY <1>2, <1>3, <2>1, <3>1, MakeSound
    <3>3. QED BY <3>2 DEF Nearly, Sound
  <2>2. CASE f.id # NoEntry
    BY <1>2, <1>3, <2>2
  <2>3. QED BY <2>1, <2>2
<1>5. NotFile(r) \/ Done(r.m, None)
  BY <1>1, <1>3 DEF Open, Opening
<1>6. QED BY <1>4, <1>5, DoneSound DEF NotFile

LEMMA StateSound == ASSUME Sound(m), NEW name \in Known, State(name) PROVE Sound(m)'
<1>1. PICK r : r = ensureRead(m, name)
  OBVIOUS
<1>2. Sound(r.m)
  BY <1>1, EnsureReadSound
<1>3. NotFile(r) \/ Done(r.m, None)
  BY <1>1 DEF State
<1>4. QED BY <1>2, <1>3, DoneSound DEF NotFile

LEMMA CloseSound == ASSUME Sound(m), NEW name \in Names, Close(name) PROVE Sound(m)'
<1>1. PICK r : r = Find(m, name)
  OBVIOUS
<1>2. /\ name \in Known /\ Sound(r.m)
      /\ \/ r.id = name /\ name \in Range(r.m.entries) /\ r.m.iCache >= 0 /\ r.m.cache = name
         \/ r.id = NoEntry /\ r.m = m /\ name \notin Range(m.entries)
  BY <1>1, FindSound, NamesKnown
<1>3. CASE r.id = NoEntry
  <2>1. Done(r.m, None)
    BY <1>1, <1>3 DEF Close
  <2>2. QED BY <1>2, <2>1, DoneSound
<1>4. CASE r.id # NoEntry
  <2>1. /\ r.id = name /\ r.m.iCache >= 0 /\ r.m.cache = name /\ name \in Files(r.m) /\ Frame(r.m)
        /\ Table(r.m) /\ Nearly(r.m, name)
    <3>1. name \in Files(r.m)
      BY <1>2, <1>4 DEF Files
    <3>2. QED BY <1>2, <1>4, <3>1, SoundNearly DEF Sound, Frame
  <2>2. PICK file \in Seq(Stored) : file = Closed(r.m.ent[name].sb)
    BY <2>1, GoodEntry, ClosedStored
  <2>3. PICK t : t = [r.m EXCEPT !.entries = RemoveAt(@, r.m.iCache + 1), !.iCache = -1,
                                 !.disk[name] = file, !.ent[name] = Free]
    OBVIOUS
  <2>4. Done(t, None)
    <3>1. Done([r.m EXCEPT !.entries = RemoveAt(@, r.m.iCache + 1), !.iCache = -1,
                           !.disk[name] = Closed(r.m.ent[r.id].sb), !.ent[r.id] = Free], None)
      BY <1>1, <1>4, Zenon DEF Close
    <3>2. QED BY <2>1, <2>2, <2>3, <3>1
  <2>5. /\ DOMAIN t = Fields /\ t.iCache = -1 /\ t.cache = r.m.cache
        /\ t.entries = RemoveAt(r.m.entries, r.m.iCache + 1)
        /\ t.disk = [r.m.disk EXCEPT ![name] = file] /\ t.ent = [r.m.ent EXCEPT ![name] = Free]
    BY <2>1, <2>3 DEF Table, Fields
  <2>6. Table(t) /\ name \notin Range(t.entries) /\ Range(t.entries) \subseteq Range(r.m.entries)
    BY <2>1, <2>5, RemoveKeeps
  <2>7. /\ DOMAIN t.ent = Known /\ DOMAIN t.disk = Names
        /\ \A k \in Known : k # name => t.ent[k] = r.m.ent[k]
    BY <2>1, <2>5 DEF Frame
  <2>8. ASSUME NEW n \in Names PROVE t.disk[n] \in Seq(Stored) \union {Absent}
    <3>1. CASE n = name
      BY <2>1, <2>5, <3>1 DEF Frame
    <3>2. CASE n # name
      BY <2>1, <2>5, <3>2 DEF Frame
    <3>3. QED BY <3>1, <3>2
  <2>9. Frame(t)
    BY <2>5, <2>6, <2>7, <2>8 DEF Frame
  <2>10. ASSUME NEW k \in Files(t) PROVE EntryTyped(t.ent[k]) /\ EntryCounted(t.ent[k])
    <3>1. k \in Files(r.m) /\ k # name /\ k \in Known
      BY <2>6, NamesKnown DEF Files
    <3>2. QED BY <1>2, <2>7, <3>1 DEF Sound
  <2>11. Sound(t)
    BY <2>9, <2>10 DEF Sound
  <2>12. QED BY <2>4, <2>11, DoneSound
<1>5. QED BY <1>3, <1>4

LEMMA FlushSound == ASSUME Sound(m), NEW name \in Known, Flush(name) PROVE Sound(m)'
<1>1. PICK r : r = Find(m, name)
  OBVIOUS
<1>2. Sound(r.m) /\ (r.id \in {name, NoEntry}) /\ (r.id # NoEntry => name \in Range(r.m.entries))
  BY <1>1, FindSound
<1>3. CASE NotFile(r)
  BY <1>2, <1>3, DoneSound DEF NotFile
<1>4. CASE IsFile(r) /\ Done(WithStream(r.m, r.id, Sync(r.m.ent[r.id].sb)), None)
  <2>1. r.id \in Files(r.m)
    BY <1>2, <1>4, NoNameIsNoEntry DEF IsFile, Files
  <2>2. Good(r.m.ent[r.id].sb)
    BY <1>2, <2>1, SoundNearly, GoodEntry
  <2>3. Sound(WithStream(r.m, r.id, Sync(r.m.ent[r.id].sb)))
    BY <1>2, <2>1, <2>2, SyncGood, StreamSet
  <2>4. QED BY <1>4, <2>3, DoneSound
<1>5. QED BY <1>1, <1>3, <1>4 DEF Flush

LEMMA ResetSound == ASSUME Sound(m), NEW name \in Known, Reset(name) PROVE Sound(m)'
<1>1. PICK r : r = Find(m, name)
  OBVIOUS
<1>2. Sound(r.m) /\ (r.id \in {name, NoEntry}) /\ (r.id # NoEntry => name \in Range(r.m.entries))
  BY <1>1, FindSound
<1>3. CASE NotFile(r)
  BY <1>2, <1>3, DoneSound DEF NotFile
<1>4. CASE IsFile(r) /\ Done([r.m EXCEPT !.ent[r.id].sb = SeekIn(@, 0), !.ent[r.id].byLine = FALSE], None)
  <2>1. r.id \in Files(r.m)
    BY <1>2, <1>4, NoNameIsNoEntry DEF IsFile, Files
  <2>2. Nearly(r.m, r.id)
    BY <1>2, <2>1, SoundNearly
  <2>3. PICK sb : sb = SeekIn(r.m.ent[r.id].sb, 0)
    OBVIOUS
  <2>4. Good(sb)
    BY <2>2, <2>3, GoodEntry, SeekInGood
  <2>5. Sound([r.m EXCEPT !.ent[r.id].sb = sb, !.ent[r.id].byLine = FALSE])
    BY <2>2, <2>4, MovedSet
  <2>6. [r.m EXCEPT !.ent[r.id].sb = SeekIn(@, 0), !.ent[r.id].byLine = FALSE]
          = [r.m EXCEPT !.ent[r.id].sb = sb, !.ent[r.id].byLine = FALSE]
    BY <2>3
  <2>7. QED BY <1>4, <2>5, <2>6, DoneSound
<1>5. QED BY <1>1, <1>3, <1>4 DEF Reset

LEMMA ReadFound ==
  ASSUME Sound(m), NEW name \in Known
  PROVE  LET r == ensureRead(m, name)
         IN  /\ Sound(r.m)
             /\ IsFile(r) => /\ r.id \in Files(r.m) /\ Nearly(r.m, r.id) /\ Good(r.m.ent[r.id].sb)
                             /\ ReadPos(r.m.ent[r.id].sb) \in Nat /\ r.m.ent[r.id].line \in Nat
                             /\ EntryTyped(r.m.ent[r.id]) /\ EntryCounted(r.m.ent[r.id])
<1>1. PICK r : r = ensureRead(m, name)
  OBVIOUS
<1>2. Sound(r.m) /\ (IsFile(r) => r.id \in Files(r.m))
  BY <1>1, EnsureReadSound
<1>3. ASSUME IsFile(r)
      PROVE  /\ r.id \in Files(r.m) /\ Nearly(r.m, r.id) /\ Good(r.m.ent[r.id].sb)
             /\ ReadPos(r.m.ent[r.id].sb) \in Nat /\ r.m.ent[r.id].line \in Nat
             /\ EntryTyped(r.m.ent[r.id]) /\ EntryCounted(r.m.ent[r.id])
  <2>1. r.id \in Files(r.m) /\ Nearly(r.m, r.id)
    BY <1>2, <1>3, SoundNearly
  <2>2. EntryTyped(r.m.ent[r.id]) /\ EntryCounted(r.m.ent[r.id])
    BY <1>2, <2>1 DEF Sound
  <2>3. QED BY <2>1, <2>2, GoodEntry
<1>4. QED BY <1>1, <1>2, <1>3

\* CHARS and LINES put the read position back.
LEMMA CharsSound == ASSUME Sound(m), NEW name \in Known, Chars(name) PROVE Sound(m)'
<1>1. PICK r : r = ensureRead(m, name)
  OBVIOUS
<1>2. /\ Sound(r.m)
      /\ IsFile(r) => /\ r.id \in Files(r.m) /\ Good(r.m.ent[r.id].sb)
                      /\ ReadPos(r.m.ent[r.id].sb) \in Nat
  BY <1>1, ReadFound
<1>3. CASE NotFile(r)
  BY <1>2, <1>3, DoneSound DEF NotFile
<1>4. CASE IsFile(r) /\ \E end \in {SeekIn(r.m.ent[r.id].sb, End)}, at \in {ReadPos(r.m.ent[r.id].sb)} :
                          Done(WithStream(r.m, r.id, SeekIn(end, at)), Number(ReadPos(end) - at))
  <2>1. PICK sb : sb = r.m.ent[r.id].sb
    OBVIOUS
  <2>2. PICK end, at, n : /\ end = SeekIn(sb, End) /\ at = ReadPos(sb)
                          /\ Done(WithStream(r.m, r.id, SeekIn(end, at)), n)
    <3>1. PICK end \in {SeekIn(sb, End)}, at \in {ReadPos(sb)} :
            Done(WithStream(r.m, r.id, SeekIn(end, at)), Number(ReadPos(end) - at))
      BY <1>4, <2>1, Zenon
    <3>2. end = SeekIn(sb, End) /\ at = ReadPos(sb)
      BY <3>1, Zenon
    <3>3. QED BY <3>1, <3>2, Zenon
  <2>3. Good(sb) /\ at \in Nat /\ at # End /\ End \in Nat \union {End}
    <3>1. Good(sb) /\ at \in Nat /\ End \in Nat \union {End}
      BY <1>2, <1>4, <2>1, <2>2, Zenon
    <3>2. at # End
      BY <3>1 DEF End
    <3>3. QED BY <3>1, <3>2
  <2>4. Good(end) /\ (sb.io # "PUT" => end.io # "PUT" /\ end.file = sb.file)
    BY <2>2, <2>3, SeekInGood
  <2>5. PICK back : back = SeekIn(end, at)
    OBVIOUS
  <2>6. Good(back) /\ (end.io # "PUT" => back.io # "PUT" /\ back.file = end.file /\ ReadPos(back) = at)
    BY <2>3, <2>4, <2>5, SeekInGood
  <2>7. sb.io # "PUT" => back.io # "PUT" /\ back.file = sb.file /\ ReadPos(back) = ReadPos(sb)
    BY <2>2, <2>4, <2>6
  <2>8. Sound(WithStream(r.m, r.id, back))
    BY <1>2, <1>4, <2>1, <2>6, <2>7, StreamSet
  <2>9. QED BY <2>2, <2>5, <2>8, DoneSound
<1>5. QED BY <1>1, <1>3, <1>4 DEF Chars

LEMMA LinesSound == ASSUME Sound(m), NEW name \in Known, Lines(name) PROVE Sound(m)'
<1>1. PICK r : r = ensureRead(m, name)
  OBVIOUS
<1>2. /\ Sound(r.m)
      /\ IsFile(r) => /\ r.id \in Files(r.m) /\ Good(r.m.ent[r.id].sb)
                      /\ ReadPos(r.m.ent[r.id].sb) \in Nat
  BY <1>1, ReadFound
<1>3. CASE NotFile(r)
  BY <1>2, <1>3, DoneSound DEF NotFile
<1>4. CASE /\ IsFile(r)
           /\ \E sb \in {r.m.ent[r.id].sb} :
                \E last \in {gotoLine(sb, 0, Len(Content(sb)) + 2, FALSE)} :
                  Done(WithStream(r.m, r.id, SeekIn(last.sb, ReadPos(sb))), Number(last.line))
  <2>1. PICK sb, last, n : /\ sb = r.m.ent[r.id].sb
                           /\ last = gotoLine(sb, 0, Len(Content(sb)) + 2, FALSE)
                           /\ Done(WithStream(r.m, r.id, SeekIn(last.sb, ReadPos(sb))), n)
    <3>1. PICK sb \in {r.m.ent[r.id].sb} :
            \E last \in {gotoLine(sb, 0, Len(Content(sb)) + 2, FALSE)} :
              Done(WithStream(r.m, r.id, SeekIn(last.sb, ReadPos(sb))), Number(last.line))
      BY <1>4, Zenon
    <3>2. sb = r.m.ent[r.id].sb
      BY <3>1, Zenon
    <3>3. PICK last \in {gotoLine(sb, 0, Len(Content(sb)) + 2, FALSE)} :
            Done(WithStream(r.m, r.id, SeekIn(last.sb, ReadPos(sb))), Number(last.line))
      BY <3>1, Zenon
    <3>4. last = gotoLine(sb, 0, Len(Content(sb)) + 2, FALSE)
      BY <3>3, Zenon
    <3>5. QED BY <3>2, <3>3, <3>4, Zenon
  <2>2. Good(sb) /\ ReadPos(sb) \in Nat /\ ReadPos(sb) # End
    <3>1. Good(sb) /\ ReadPos(sb) \in Nat
      BY <1>2, <1>4, <2>1, Zenon
    <3>2. ReadPos(sb) # End
      BY <3>1 DEF End
    <3>3. QED BY <3>1, <3>2
  <2>3. PICK to \in Nat : to = Len(Content(sb)) + 2
    BY <2>2, ContentGood
  <2>4. 0 \in Nat /\ FALSE \in BOOLEAN /\ last = gotoLine(sb, 0, to, FALSE)
    BY <2>1, <2>3
  <2>5. Good(last.sb) /\ (sb.io # "PUT" => last.sb.io # "PUT" /\ last.sb.file = sb.file)
    BY <2>2, <2>4, GotoGood
  <2>6. PICK back : back = SeekIn(last.sb, ReadPos(sb))
    OBVIOUS
  <2>7. /\ Good(back)
        /\ last.sb.io # "PUT" => back.io # "PUT" /\ back.file = last.sb.file /\ ReadPos(back) = ReadPos(sb)
    BY <2>2, <2>5, <2>6, SeekInGood
  <2>8. Sound(WithStream(r.m, r.id, back))
    BY <1>2, <1>4, <2>1, <2>5, <2>7, StreamSet
  <2>9. QED BY <2>1, <2>6, <2>8, DoneSound
<1>5. QED BY <1>1, <1>3, <1>4 DEF Lines

LEMMA CharInSound ==
  ASSUME Sound(m), NEW name \in Known, NEW start \in Nat, NEW count \in Nat, CharIn(name, start, count)
  PROVE  Sound(m)'
<1>1. PICK r : r = ensureRead(m, name)
  OBVIOUS
<1>2. /\ Sound(r.m)
      /\ IsFile(r) => Nearly(r.m, r.id) /\ Good(r.m.ent[r.id].sb)
  BY <1>1, ReadFound
<1>3. CASE NotFile(r)
  BY <1>2, <1>3, DoneSound DEF NotFile
<1>4. CASE /\ IsFile(r)
           /\ \E sb \in {r.m.ent[r.id].sb} :
                \E got \in {GetUntil(IF start > 0 THEN SeekIn(sb, start - 1) ELSE sb, count, EOF)} :
                  Done([r.m EXCEPT !.ent[r.id].sb = got.s, !.ent[r.id].byLine = FALSE], Got(got.val))
  <2>1. PICK sb, at, got : /\ sb = r.m.ent[r.id].sb /\ at = IF start > 0 THEN SeekIn(sb, start - 1) ELSE sb
                           /\ got = GetUntil(at, count, EOF)
                           /\ Done([r.m EXCEPT !.ent[r.id].sb = got.s, !.ent[r.id].byLine = FALSE], Got(got.val))
    BY <1>4
  <2>2. Good(at)
    <3>1. start > 0 => start - 1 \in Nat
      OBVIOUS
    <3>2. QED BY <1>2, <1>4, <2>1, <3>1, SeekInGood
  <2>3. Good(got.s)
    BY <2>1, <2>2, GetUntilGood DEF Read, Goods
  <2>4. Sound([r.m EXCEPT !.ent[r.id].sb = got.s, !.ent[r.id].byLine = FALSE])
    BY <1>2, <1>4, <2>3, MovedSet
  <2>5. QED BY <2>1, <2>4, DoneSound
<1>5. QED BY <1>1, <1>3, <1>4 DEF CharIn

\* The line that is taken is counted, and none is at the end of the file.
LEMMA TakeLineSound ==
  ASSUME NEW r, Sound(r.m), r.id \in Files(r.m), NEW at, Good(at.sb), at.line \in Nat, NEW count,
         r.m.ent[r.id].byLine => /\ at.sb.io # "PUT"
                                 /\ Terminated(at.sb.file) =>
                                      at.line = 1 + NewlineCount(at.sb.file, ReadPos(at.sb)),
         TakeLine(r, at, count)
  PROVE  Sound(m)'
<1>1. CASE Done([r.m EXCEPT !.ent[r.id].sb = at.sb, !.ent[r.id].line = at.line], Got(<< >>))
  <2>1. Sound([r.m EXCEPT !.ent[r.id].sb = at.sb, !.ent[r.id].line = at.line])
    BY LineSet
  <2>2. QED BY <1>1, <2>1, DoneSound
<1>2. CASE \E got \in {readLine(at.sb)} :
             Done([r.m EXCEPT !.ent[r.id].sb = got.s,
                              !.ent[r.id].line = IF got.eof THEN at.line ELSE at.line + 1],
                  Got(got.val))
  <2>1. PICK got, l : /\ got = readLine(at.sb) /\ l = IF got.eof THEN at.line ELSE at.line + 1
                      /\ Done([r.m EXCEPT !.ent[r.id].sb = got.s, !.ent[r.id].line = l], Got(got.val))
    BY <1>2
  <2>2. /\ Good(got.s) /\ got.eof \in BOOLEAN
        /\ at.sb.io # "PUT" =>
             /\ got.s.io # "PUT" /\ got.s.file = at.sb.file
             /\ NewlineCount(at.sb.file, ReadPos(got.s))
                  = NewlineCount(at.sb.file, ReadPos(at.sb)) + IF got.eof THEN 0 ELSE 1
    BY <2>1, ReadLineGood
  <2>3. l \in Nat
    BY <2>1
  <2>4. ASSUME r.m.ent[r.id].byLine
        PROVE  /\ got.s.io # "PUT"
               /\ Terminated(got.s.file) => l = 1 + NewlineCount(got.s.file, ReadPos(got.s))
    <3>1. got.s.io # "PUT" /\ got.s.file = at.sb.file
      BY <2>2, <2>4
    <3>2. ASSUME Terminated(got.s.file) PROVE l = 1 + NewlineCount(got.s.file, ReadPos(got.s))
      <4>1. at.line = 1 + NewlineCount(at.sb.file, ReadPos(at.sb))
        BY <2>4, <3>1, <3>2
      <4>2. NewlineCount(at.sb.file, ReadPos(at.sb)) \in Nat
        BY Pointers, NewlinesFinite
      <4>3. NewlineCount(at.sb.file, ReadPos(got.s))
              = NewlineCount(at.sb.file, ReadPos(at.sb)) + IF got.eof THEN 0 ELSE 1
        BY <2>2, <2>4
      <4>4. QED BY <2>1, <2>2, <3>1, <4>1, <4>2, <4>3
    <3>3. QED BY <3>1, <3>2
  <2>5. Sound([r.m EXCEPT !.ent[r.id].sb = got.s, !.ent[r.id].line = l])
    BY <2>2, <2>3, <2>4, LineSet
  <2>6. QED BY <2>1, <2>5, DoneSound
<1>3. QED BY <1>1, <1>2 DEF TakeLine

LEMMA LineInSound ==
  ASSUME Sound(m), NEW name \in Known, NEW line \in Nat, NEW count, LineIn(name, line, count)
  PROVE  Sound(m)'
<1>1. PICK r : r = ensureRead(m, name)
  OBVIOUS
<1>2. PICK e : e = r.m.ent[r.id]
  OBVIOUS
<1>3. /\ Sound(r.m)
      /\ IsFile(r) => /\ r.id \in Files(r.m) /\ Good(e.sb) /\ ReadPos(e.sb) \in Nat /\ e.line \in Nat
                      /\ EntryCounted(e)
  BY <1>1, <1>2, ReadFound
<1>4. CASE NotFile(r)
  BY <1>3, <1>4, DoneSound DEF NotFile
<1>5. CASE IsFile(r) /\ TakeLine(r, [sb |-> e.sb, line |-> e.line], count)
  <2>1. PICK at : at = [sb |-> e.sb, line |-> e.line]
    OBVIOUS
  <2>2. at.sb = e.sb /\ at.line = e.line /\ TakeLine(r, at, count)
    BY <1>5, <2>1
  <2>3. e.byLine => /\ at.sb.io # "PUT"
                    /\ Terminated(at.sb.file) => at.line = 1 + NewlineCount(at.sb.file, ReadPos(at.sb))
    BY <1>3, <1>5, <2>2 DEF EntryCounted
  <2>4. QED BY <1>2, <1>3, <1>5, <2>2, <2>3, TakeLineSound
<1>6. CASE /\ IsFile(r)
           /\ \E at \in {gotoLine(e.sb, e.line, line, FALSE)} :
                \E here \in {Peek(at.sb)} :
                  TakeLine(r, [sb |-> here.s, line |-> at.line], IF here.c = EOF THEN 0 ELSE count)
  <2>1. PICK to, here, n : /\ to = gotoLine(e.sb, e.line, line, FALSE) /\ here = Peek(to.sb)
                           /\ TakeLine(r, [sb |-> here.s, line |-> to.line], n)
    BY <1>6
  <2>2. PICK at : at = [sb |-> here.s, line |-> to.line]
    OBVIOUS
  <2>3. at.sb = here.s /\ at.line = to.line /\ TakeLine(r, at, n)
    BY <2>1, <2>2
  <2>4. /\ Good(to.sb) /\ to.line \in Nat
        /\ e.sb.io # "PUT" =>
             /\ to.sb.io # "PUT" /\ to.sb.file = e.sb.file
             /\ Terminated(e.sb.file) /\ e.line = 1 + NewlineCount(e.sb.file, ReadPos(e.sb)) =>
                  to.line = 1 + NewlineCount(e.sb.file, ReadPos(to.sb))
    <3>1. FALSE \in BOOLEAN /\ Good(e.sb) /\ e.line \in Nat
      BY <1>3, <1>6
    <3>2. QED BY <2>1, <3>1, GotoGood
  <2>5. Reads(to.sb, here, 0) /\ ReadPos(to.sb) \in Nat
    BY <2>1, <2>4, PeekGood, Pointers
  <2>6. /\ Good(here.s) /\ here.s.io = "GET" /\ ReadPos(here.s) = ReadPos(to.sb)
        /\ to.sb.io # "PUT" => here.s.file = to.sb.file
    BY <2>5 DEF Reads
  <2>7. e.byLine => /\ at.sb.io # "PUT"
                    /\ Terminated(at.sb.file) => at.line = 1 + NewlineCount(at.sb.file, ReadPos(at.sb))
    BY <1>3, <1>6, <2>3, <2>4, <2>6 DEF EntryCounted
  <2>8. Good(at.sb) /\ at.line \in Nat
    BY <2>3, <2>4, <2>6
  <2>9. QED BY <1>2, <1>3, <1>6, <2>3, <2>7, <2>8, TakeLineSound
<1>7. QED BY <1>1, <1>2, <1>4, <1>5, <1>6, Zenon DEF LineIn

LEMMA StringsGood == Strings \union {<< >>} \subseteq Seq(Bytes) /\ Newline \in Bytes
BY StringsAreBytes, EmptySeq

LEMMA CrashSound == ASSUME Sound(m), Crash PROVE Sound(m)'
BY DEF Crash

\* A write that the stream can take.
LEMMA PutString ==
  ASSUME NEW s, Good(s), NEW str \in Seq(Bytes), str = << >> \/ ~NullWrite(s)
  PROVE  Good(IF str = << >> THEN s ELSE Sync(PutAll(s, str)))
BY PutAllGood, SyncGood

LEMMA CharOutSound ==
  ASSUME Sound(m), NEW name \in Known, NEW str \in Seq(Bytes), NEW start \in Nat, CharOut(name, str, start)
  PROVE  Sound(m)'
<1>1. PICK r \in {ensureWrite(m, name)} :
        \/ NotFile(r)
        \/ /\ IsFile(r)
           /\ \E sb \in {IF start > 0 THEN SeekOut(r.m.ent[r.id].sb, start - 1)
                        ELSE r.m.ent[r.id].sb} :
                IF str # << >> /\ NullWrite(sb) THEN Crash
                ELSE Done([r.m EXCEPT !.ent[r.id].sb = IF str = << >> THEN sb ELSE Sync(PutAll(sb, str)),
                                      !.ent[r.id].byLine = FALSE], None)
  BY Zenon DEF CharOut
<1>2. (~IsFile(r) => Sound(r.m)) /\ (IsFile(r) => Nearly(r.m, r.id))
  BY <1>1, EnsureWriteSound
<1>3. CASE NotFile(r)
  BY <1>2, <1>3, DoneSound DEF NotFile
<1>4. CASE /\ IsFile(r)
           /\ \E sb \in {IF start > 0 THEN SeekOut(r.m.ent[r.id].sb, start - 1)
                        ELSE r.m.ent[r.id].sb} :
                IF str # << >> /\ NullWrite(sb) THEN Crash
                ELSE Done([r.m EXCEPT !.ent[r.id].sb = IF str = << >> THEN sb ELSE Sync(PutAll(sb, str)),
                                      !.ent[r.id].byLine = FALSE], None)
  <2>1. PICK sb \in {IF start > 0 THEN SeekOut(r.m.ent[r.id].sb, start - 1) ELSE r.m.ent[r.id].sb} :
               IF str # << >> /\ NullWrite(sb) THEN Crash
               ELSE Done([r.m EXCEPT !.ent[r.id].sb = IF str = << >> THEN sb ELSE Sync(PutAll(sb, str)),
                                     !.ent[r.id].byLine = FALSE], None)
    BY <1>4, Zenon
  <2>2. PICK put : put = IF str = << >> THEN sb ELSE Sync(PutAll(sb, str))
    OBVIOUS
  <2>3. IF str # << >> /\ NullWrite(sb) THEN Crash
        ELSE Done([r.m EXCEPT !.ent[r.id].sb = put, !.ent[r.id].byLine = FALSE], None)
    BY <2>1, <2>2, Zenon
  <2>4. CASE Crash
    BY <2>4, CrashSound
  <2>5. CASE ~(str # << >> /\ NullWrite(sb))
    <3>1. Good(sb)
      <4>1. start > 0 => start - 1 \in Nat \union {End}
        OBVIOUS
      <4>2. Good(r.m.ent[r.id].sb)
        BY <1>2, <1>4, GoodEntry
      <4>3. QED BY <2>1, <4>1, <4>2, SeekOutGood
    <3>2. Good(put)
      BY <2>2, <2>5, <3>1, PutString
    <3>3. Sound([r.m EXCEPT !.ent[r.id].sb = put, !.ent[r.id].byLine = FALSE])
      BY <1>2, <1>4, <3>2, MovedSet
    <3>4. QED BY <2>3, <2>5, <3>3, DoneSound
  <2>6. QED BY <2>3, <2>4, <2>5, Zenon
<1>5. QED BY <1>1, <1>3, <1>4, Zenon

LEMMA LineOutSound ==
  ASSUME Sound(m), NEW name \in Known, NEW str \in Seq(Bytes), NEW line \in Nat, LineOut(name, str, line)
  PROVE  Sound(m)'
<1>1. PICK r \in {ensureWrite(m, name)} :
        \/ NotFile(r)
        \/ /\ IsFile(r)
           /\ \E e \in {r.m.ent[r.id]} :
              \E at \in {IF line > 0 THEN gotoLine(e.sb, e.line, line, TRUE)
                         ELSE [sb |-> e.sb, line |-> e.line]} :
                IF NullWrite(at.sb) THEN Crash
                ELSE Done([r.m EXCEPT !.ent[r.id].sb = PutAll(at.sb, Append(str, Newline)),
                                      !.ent[r.id].line = at.line + 1, !.ent[r.id].byLine = FALSE], None)
  BY Zenon DEF LineOut
<1>2. (~IsFile(r) => Sound(r.m)) /\ (IsFile(r) => Nearly(r.m, r.id))
  BY <1>1, EnsureWriteSound
<1>3. CASE NotFile(r)
  BY <1>2, <1>3, DoneSound DEF NotFile
<1>4. CASE /\ IsFile(r)
           /\ \E e \in {r.m.ent[r.id]} :
              \E at \in {IF line > 0 THEN gotoLine(e.sb, e.line, line, TRUE)
                         ELSE [sb |-> e.sb, line |-> e.line]} :
                IF NullWrite(at.sb) THEN Crash
                ELSE Done([r.m EXCEPT !.ent[r.id].sb = PutAll(at.sb, Append(str, Newline)),
                                      !.ent[r.id].line = at.line + 1, !.ent[r.id].byLine = FALSE], None)
  <2>1. PICK e, at : /\ e = r.m.ent[r.id]
                     /\ at = IF line > 0 THEN gotoLine(e.sb, e.line, line, TRUE)
                             ELSE [sb |-> e.sb, line |-> e.line]
                     /\ IF NullWrite(at.sb) THEN Crash
                        ELSE Done([r.m EXCEPT !.ent[r.id].sb = PutAll(at.sb, Append(str, Newline)),
                                              !.ent[r.id].line = at.line + 1, !.ent[r.id].byLine = FALSE], None)
    BY <1>4, Zenon
  <2>2. Good(e.sb) /\ e.line \in Nat /\ TRUE \in BOOLEAN
    BY <1>2, <1>4, <2>1, GoodEntry
  <2>3. Good(at.sb) /\ at.line \in Nat
    <3>1. CASE line > 0
      <4>1. at = gotoLine(e.sb, e.line, line, TRUE)
        BY <2>1, <3>1
      <4>2. QED BY <2>2, <4>1, GotoGood
    <3>2. CASE ~(line > 0)
      <4>1. at = [sb |-> e.sb, line |-> e.line]
        BY <2>1, <3>2
      <4>2. QED BY <2>2, <4>1
    <3>3. QED BY <3>1, <3>2
  <2>4. PICK text \in Seq(Bytes) : text = Append(str, Newline)
    BY StringsGood, AppendProperties
  <2>5. PICK put : put = PutAll(at.sb, text)
    OBVIOUS
  <2>6. PICK l \in Nat : l = at.line + 1
    BY <2>3
  <2>7. IF NullWrite(at.sb) THEN Crash
        ELSE Done([r.m EXCEPT !.ent[r.id].sb = put, !.ent[r.id].line = l, !.ent[r.id].byLine = FALSE], None)
    BY <2>1, <2>4, <2>5, <2>6, Zenon
  <2>8. CASE Crash
    BY <2>8, CrashSound
  <2>9. CASE ~NullWrite(at.sb)
    <3>1. Good(put)
      BY <2>3, <2>5, <2>9, PutAllGood
    <3>2. Sound([r.m EXCEPT !.ent[r.id].sb = put, !.ent[r.id].line = l, !.ent[r.id].byLine = FALSE])
      BY <1>2, <1>4, <2>6, <3>1, WrittenSet
    <3>3. QED BY <2>7, <2>9, <3>2, DoneSound
  <2>10. QED BY <2>7, <2>8, <2>9, Zenon
<1>5. QED BY <1>1, <1>3, <1>4, Zenon

-----------------------------------------------------------------------------
LEMMA NextSound == Sound(m) /\ [Next]_vars => Sound(m)'
<1> SUFFICES ASSUME Sound(m), [Next]_vars PROVE Sound(m)'
  OBVIOUS
<1>1. Names \subseteq Known /\ Names \ Idle \subseteq Known /\ Consoles \subseteq Known
  BY NamesAreNotTheConsole DEF Known, Range, Std
<1>2. /\ Starts \subseteq Nat /\ Counts \subseteq Nat /\ Strings \subseteq Seq(Bytes) /\ << >> \in Seq(Bytes)
      /\ 0 \in Nat
  BY StartsAreNat, StringsGood
<1>3. CASE \E name \in Names : \/ call' = <<"open", name>> /\ Open(name)
                               \/ call' = <<"close", name>> /\ Close(name)
  <2>1. PICK name \in Names : Open(name) \/ Close(name)
    BY <1>3, Zenon
  <2>2. QED BY <1>1, <2>1, OpenSound, CloseSound
<1>4. CASE \E name \in Names \ Idle :
             \/ call' = <<"state", name>> /\ State(name)
             \/ call' = <<"flush", name>> /\ Flush(name)
             \/ call' = <<"reset", name>> /\ Reset(name)
             \/ call' = <<"chars", name>> /\ Chars(name)
             \/ call' = <<"lines", name>> /\ Lines(name)
  <2>1. PICK name \in Names \ Idle : State(name) \/ Flush(name) \/ Reset(name) \/ Chars(name) \/ Lines(name)
    BY <1>4, Zenon
  <2>2. QED BY <1>1, <2>1, StateSound, FlushSound, ResetSound, CharsSound, LinesSound
<1>5. CASE \E name \in Names \ Idle : \E start \in Starts :
             \/ \E n \in Counts : call' = <<"charin", name, start, n>> /\ CharIn(name, start, n)
             \/ \E n \in {0, 1} : call' = <<"linein", name, start, n>> /\ LineIn(name, start, n)
             \/ \E str \in Strings :
                  \/ call' = <<"charout", name, start, str>> /\ CharOut(name, str, start)
                  \/ call' = <<"lineout", name, start, str>> /\ LineOut(name, str, start)
  <2>1. PICK name \in Names \ Idle, start \in Starts :
             \/ \E n \in Counts : CharIn(name, start, n)
             \/ \E n \in {0, 1} : LineIn(name, start, n)
             \/ \E str \in Strings : CharOut(name, str, start) \/ LineOut(name, str, start)
    BY <1>5
  <2>2. name \in Known /\ start \in Nat
    BY <1>1, <1>2
  <2>3. CASE \E n \in Counts : CharIn(name, start, n)
    BY <1>2, <2>2, <2>3, CharInSound
  <2>4. CASE \E n \in {0, 1} : LineIn(name, start, n)
    BY <2>2, <2>4, LineInSound
  <2>5. CASE \E str \in Strings : CharOut(name, str, start) \/ LineOut(name, str, start)
    BY <1>2, <2>2, <2>5, CharOutSound, LineOutSound
  <2>6. QED BY <2>1, <2>3, <2>4, <2>5
<1>6. CASE \E name \in Consoles :
             \/ call' = <<"open", name>> /\ Open(name)
             \/ call' = <<"linein", name, 0, 1>> /\ LineIn(name, 0, 1)
             \/ call' = <<"lineout", name, 0, << >> >> /\ LineOut(name, << >>, 0)
  <2>1. PICK name \in Consoles : Open(name) \/ LineIn(name, 0, 1) \/ LineOut(name, << >>, 0)
    BY <1>6, Zenon
  <2>2. name \in Known
    BY <1>1
  <2>3. QED BY <1>2, <2>1, <2>2, OpenSound, LineInSound, LineOutSound
<1>7. CASE UNCHANGED vars
  <2>1. m' = m
    BY <1>7 DEF vars
  <2>2. QED BY <2>1
<1>8. QED BY <1>3, <1>4, <1>5, <1>6, <1>7, Zenon DEF Next, Operation

\* Sound says what TypeOK says, and more.
LEMMA SoundTyped == Sound(m) => TypeOK
<1>1. SUFFICES ASSUME Sound(m) PROVE TypeOK
  OBVIOUS
<1>2. Frame(m) /\ Table(m) /\ m.entries \in Seq(Known) /\ Len(m.entries) \in Nat /\ m.iCache \in Int
      /\ m.cache \in Known /\ DOMAIN m.ent = Known /\ m.iCache >= -1
  BY <1>1, LenProperties DEF Sound, Frame, Table
<1>3. Range(m.entries) \subseteq Known
  BY <1>2, ElementOfSeq, LenProperties DEF Range
<1>4. m.iCache \in -1..(Len(m.entries) - 1)
  BY <1>2 DEF Table
<1>5. ASSUME NEW id \in Files(m)
      PROVE  /\ m.ent[id].sb \in Stream
             /\ Cardinality(m.ent[id].mode \intersect {"READ", "WRITE"}) = 1
             /\ m.ent[id].sb.g <= m.ent[id].sb.eg
             /\ m.ent[id].sb.io = "PUT" => m.ent[id].sb.eg = 0
             /\ m.ent[id].sb.io # "PUT" => m.ent[id].sb.p = BufSize /\ m.ent[id].sb.most = 0
             /\ ~m.ent[id].sb.has => m.ent[id].sb.eg = 0 /\ m.ent[id].sb.p = BufSize
  <2>1. PICK e : e = m.ent[id]
    OBVIOUS
  <2>2. EntryTyped(e)
    BY <1>1, <2>1 DEF Sound
  <2>3. PICK sb : sb = e.sb
    OBVIOUS
  <2>4. Good(sb) /\ sb \in Stream
    BY <2>2, <2>3, EntryFields DEF Good
  <2>5. sb.p \in 0..BufSize /\ BufSize \in Nat
    BY <2>4, StreamFields, Sizes
  <2>6. /\ sb.pb = BufSize => sb.p = BufSize /\ sb.most = 0
        /\ sb.io # "PUT" => sb.pb = BufSize
        /\ ~sb.has => sb.eg = 0 /\ sb.pb = BufSize
    BY <2>4, <2>5 DEF Good
  <2>7. sb.g <= sb.eg /\ (sb.io = "PUT" => sb.eg = 0)
    BY <2>4 DEF Good
  <2>8. e.mode \intersect {"READ", "WRITE"} = {"READ"} \/ e.mode \intersect {"READ", "WRITE"} = {"WRITE"}
    BY <2>2 DEF EntryTyped
  <2>9. Cardinality(e.mode \intersect {"READ", "WRITE"}) = 1
    BY <2>8, FS_Singleton
  <2>10. QED BY <2>1, <2>3, <2>4, <2>6, <2>7, <2>9
<1>6. QED BY <1>2, <1>3, <1>4, <1>5 DEF TypeOK

LEMMA SoundCounted == Sound(m) => LineCounted
<1>1. SUFFICES ASSUME Sound(m), NEW id \in Files(m), m.ent[id].byLine, Terminated(Content(m.ent[id].sb))
               PROVE  m.ent[id].line = 1 + Cardinality(NewlinesTo(Content(m.ent[id].sb), ReadPos(m.ent[id].sb)))
  BY DEF LineCounted
<1>2. PICK e : e = m.ent[id]
  OBVIOUS
<1>3. EntryTyped(e) /\ EntryCounted(e)
  BY <1>1, <1>2 DEF Sound
<1>4. e.sb.io # "PUT" /\ (Terminated(e.sb.file) => e.line = 1 + NewlineCount(e.sb.file, ReadPos(e.sb)))
  BY <1>1, <1>2, <1>3 DEF EntryCounted
<1>5. Content(e.sb) = e.sb.file
  BY <1>3, <1>4, EntryFields, ContentGood
<1>6. QED BY <1>1, <1>2, <1>4, <1>5 DEF NewlineCount

\* The state has its type: the pointers of every open stream allow what is buffered, in one
\* direction at a time, and an entry is read or written.
THEOREM StreamsTypeCorrect == Spec => []TypeOK
<1>1. Init => Sound(m)
  BY InitSound
<1>2. Sound(m) /\ [Next]_vars => Sound(m)'
  BY NextSound
<1>3. Sound(m) => TypeOK
  BY SoundTyped
<1>4. QED BY <1>1, <1>2, <1>3, PTL DEF Spec

\* As long as nothing but LINEIN has moved a stream, m_line is the line read next, whatever
\* the buffer and the file.
THEOREM LinesAlwaysCounted == Spec => []LineCounted
<1>1. Init => Sound(m)
  BY InitSound
<1>2. Sound(m) /\ [Next]_vars => Sound(m)'
  BY NextSound
<1>3. Sound(m) => LineCounted
  BY SoundCounted
<1>4. QED BY <1>1, <1>2, <1>3, PTL DEF Spec

=============================================================================
