# Yaxx: specification, model checking and proofs

TLA+ models of the Rexx interpreter of this repository and of what runs beside it:
the stacks of the interpreter, its variable pool, its external data queue, its
streams over buffered files, and the two Android parts where threads meet, the
console and the speech service. TLC checks the models on small instances; TLAPS
proves the invariants and two refinements for every value of the constants. Paths
below are relative to the repository.

## 1. The system

Yaxx compiles a Rexx program to byte code and interprets it. One thread runs
the interpreter; on Android a UI thread, a speech service and Java callbacks run
beside it.

| Part | State it keeps | Operations | Hard behaviour | What makes it correct |
|---|---|---|---|---|
| `rexxlib/Interpreter`, `Routines` | code position, operand stack `m_top`, stack of routines and interpreted strings, traps, pending conditions | the opcodes; start/end of routines and strings; `recoverFromException` | an exception may leave the loop at any opcode, inside any nesting of routines, `INTERPRET` and interactive pauses | the stacks stay in step; no exit takes an operand of the code it returns to |
| `rexxlib/Tracer` | the trace setting, a stack of saved ones, the level of interactive strings | start/end of routine and string, `TRACE`, the pause | kept in step with `Routines` only by the order of the calls | a caller finds its setting again; signals are disabled in interactive strings only |
| `rexxlib/VariableHandler`, `Variable`, `Symbol`, `HashMap` | a stack of scopes (name to variable), tails of stems, the variable each symbol caches | load, create, assign, drop, `PROCEDURE EXPOSE`, `VALUE`, setting RC/RESULT/SIGL | caches and exposed variables point into memory that DROP and RETURN delete | a cache that is believed is right; one owner per variable; a routine touches what it exposes |
| `rexxlib/DataQueueMgr`, `toolslib/LinkedList`, `Interpreter::execCommand` | a list of lists of lines; file descriptors 0 and 1 | PUSH, QUEUE, PULL, MAKEBUF, DROPBUF, DESBUF, redirected commands | order through lists and files; partial failure of redirection, down to a full table of descriptors | the order of PULL; the console comes back |
| `rexxlib/IOMgr` | the list of open streams, a cached index, one position for two per stream, the number of the next line | open, state, close, flush, reset, chars, lines, charin, charout, linein, lineout | a removal shifts indices; a first write reopens the file, which may fail | an operation does to the file and its two positions what the program is told |
| `toolslib/FileStreamBuf`, `StdFileStream` | one buffer and one file offset for reading ahead and writing behind | peek, get, put, sync, seeks in the buffer or out of it | changes of direction with bytes read ahead or waiting, or with no buffer yet | (the same, through `IOMgr`) |
| `rexxlib/Compiler`, `Tokenizer`, `Clauses`, `CodeBuffer`, `Label` | the code buffer, labels, clauses | compilation, `LOAD`, compilation of a string at run time | 16-bit code positions | the code is balanced |
| `rexxlib/BuiltIn`, `RexxString`, `TimeClock`, ... | none, or data | pure functions | numeric edges | the values they return |
| other `toolslib` | URIs, strings, lists | wrappers | none of its own | |
| Android: `RexxConsole.java`, `androidlib/JConsole`, `JRexx` | key buffer, output buffer, the JNI environment | get, put, flush, onKey, system | two threads, one lock, one buffer outside it | keys once and in order; a prompt is shown; a waiting get returns |
| Android: `Speaker.java`, `Speech.java` | message queue, looper, state flags | say, connect, close, onCreate, onInit, onDestroy, the messages | four threads, waits with and without limit | nothing is spoken twice or out of order; no thread stays stuck |
| `decnblib`, `yasp3lib`, `palmiolib`, `stdiolib`, `reslib`, `mwerks` | - | arithmetic, SGML parser, ports, tables | third-party, or sequential | |

How they interact: `Interpreter` owns the others and calls them from
`mainLoop`. A condition or an error is a C++ exception (`RecoverableException`)
thrown by any of them and caught in `Interpreter::run`, which calls
`recoverFromException`; `FatalException` ends the program. `Routines`, `Tracer`
and `VariableHandler` each have a stack of their own, and no common one: the
sequence of calls keeps them in step. A command leaves the interpreter for the
shell, with its standard input and output taken from and given to
`DataQueueMgr`; on Android it goes to `RexxConsole.system` instead. SAY and PULL
end in the console, which on Android is written by the interpreter thread and
shown by the main thread; what a script says through the speaker stream passes
from the interpreter thread to the main thread, to the worker of the service and
to the engine.

`PROJECT.json` lists every component with its status, and the hazards: what can
go wrong at which line, and the property that looks for it.

## 2. The modules

| Module | Models | Checked with | Proofs |
|---|---|---|---|
| `RexxQueue` | the queue a Rexx program may rely on (abstract) | refined by `DataQueueMgr` | |
| `DataQueueMgr` | `DataQueueMgr.cpp`, `LinkedList.cpp`, `Interpreter::execCommand` | `MCDataQueueMgr` | `DataQueueMgrProofs` |
| `Interpreter` | `Interpreter.cpp`, `Routines.*`, the stacks of `Tracer.*` | `MCInterpreter` | `InterpreterProofs` |
| `VariableHandler` | `VariableHandler.*`, `Variable.*`, `Symbol.*`, `HashMap.*` | `MCVariableHandler` | `VariableHandlerProofs`, `VariableHeapProofs` |
| `RexxStreams` | the streams a Rexx program is told of (abstract) | refined by `IOMgr` | |
| `FileStreamBuf` | `FileStreamBuf.*`, `StdFileStream.*`: operators on a stream | through `IOMgr` | |
| `IOMgr` | `IOMgr.*` over `FileStreamBuf` | `MCIOMgr` | `IOMgrProofs`, `RexxStreamsProofs` |
| `RexxConsole` | `RexxConsole.java`, `JConsole.*` | `MCRexxConsole` | `RexxConsoleProofs` |
| `Speech` | `Speaker.java`, `Speech.java` | `MCSpeech` | `SpeechProofs` |

Each definition's source lines are in `map` of `PROJECT.json`. An operator
`MutX`, written before `X`, is `X` with a plausible mistake in it; putting it
in X's place makes one property fail, which is how each property is known to
depend on the code it is about.

### Interpreter

The three stacks are `rtn`, `aRtne` (Routines), `buf`, `level` (Tracer) and
`scopes` (a count). The program is arbitrary: at each step the interpreter may
meet any opcode its position allows. A position is one of

* `clause`, `procLabel`: before the opcode of a clause or label, where pending
  conditions are raised and the pause of `TRACE ?` happens; `procLabel` is the
  label of a routine whose first instruction is PROCEDURE, `proc` is past it;
* `body`: inside a clause; `string`: inside an interpreted string, which has no
  clause opcodes (`OnTimeCompiler::onNewClause` is empty);
* `operand`: an opcode was refused before its operand was read.

The operand stack is its height. `floor` is the height below which the code now
running does not pop: the compiler emits balanced code, which is the only thing
assumed of it (`pop`, `call`, `return`... have `top > rtn.floor` as a guard).

An exception is two steps, so that what the handler sees is what the thrower
left: `throw` records the condition and sets `doing = "recover"`; `unwind` ends
the strings of the routine one at a time, as do both RETURN opcodes; then one of
`pursue`, `signalOn`, `callOn`, `labelNotFound` is taken. Four values of `doing`
are ends: `ended`, `fatal` (message, exit), `escaped` (an exception thrown by the
handler of `run` itself) and `undefined` (the operand stack is overrun, or an
operand is executed as an opcode). Nothing is said of what follows these.

Values, arguments, environments, wording, skip counts and NUMERIC settings are
left out. So are the parsing templates, whose operands have a stack pointer of
their own (`processTemplate`), and `LOAD`.

### VariableHandler

One simple symbol `RC`, one stem `S.`, one compound `S.RC` and the handler's own
symbol `rc` are the least that has all kinds of lookups: a compound part that is
cached, a stem found through a cache, and a variable two symbols denote. A
variable is an address with a value, a source (itself, or what it exposes) and a
map of tails. `delete` makes it dead; using a dead one sets `bad`, and the
behaviour goes no further, as the C++ would be undefined. Only the value of RC
is kept, since it decides which tail `S.RC` is.

PROCEDURE EXPOSE takes any list of symbols, the same one twice too, as the compiler
does (`Compiler.cpp:704-720`). `expose()` looks for the tail of `S.RC` under the new
scope's RC and puts it under the caller's, and `HashMap::put` keeps what a map has
already: the variable that a second `S.RC` makes may be in no map, and is never
deleted. `left` is the set of these. `OwnedOnce` says that nothing else is left
behind, and that what is left is an exposure, so that no value is lost with it.

An assignment is two steps, as in the code: `createVar` puts the address of the
variable on the operand stack, the expression is evaluated (any other actions,
calls included), then `assign` writes through the address. One assignment is
pending at a time; SIGNAL out of it is not modelled.

### DataQueueMgr and RexxQueue

`queues` is the list of lists. `execCommand` is five steps, `redirectIn` to
`restoreOut`, with a result for each system call that the code tests or should
test. `RexxQueue` has one sequence of lines in PULL order, cut into buffers, and
says in one line each what PUSH, QUEUE, PULL and redirection do to it; the
refinement maps the list of lists to it by reversing each list and joining them,
newest first.

`fd` is the table of descriptors of the process, of which the program's other
streams (`openStream`, `closeStream`) have some; `Lowest`, `Dup`, `Dup2` and
`Closing` do to it what the system calls do. When it is full, `dup(0)` and `dup(1)`
return -1, which the code does not test: the restore then closes 0 or 1, and `dup2`
of -1 fails, so that the console is lost, and the next file opened takes its place.
The model follows this too (the lines still come in the right order) and `lost`
records that a `dup` has failed: `ConsoleRestored` says that nothing else, no file
that could not be created or opened, loses the console or leaks a descriptor.

The build modelled is the Makefile's (`-D NDEBUG`): the assertion in `pull()`
(`DataQueueMgr.cpp:85`) that there is one queue is not executed, and PULL reads the
console when the current buffer is empty, though older ones may hold lines (its
comment says "from any data queue"). `RexxQueue` says what the code does, in
`PullConsole`.

### FileStreamBuf, IOMgr and RexxStreams

A stream is a record of the members of `FileStreamBuf` (pointers as indices into
the buffer, the two positions, the direction, `m_maxOutWaiting`), with the file
and the offset of the descriptor; each method is an operator from a stream to the
stream it leaves. A position moved inside what the buffer covers moves a pointer
only; any other seek writes what waits and gives the buffer up. Bytes of the
buffer that no pointer covers are `Junk`: if one ever reached a file or a program,
the refinement would fail. The buffer is allocated by the first read or write (`has`), but
not by a write to a stream that was sought for reading (`NullWrite`): there
`overflow` stores the byte at address 0, which ends the process (`Crash`). Reads and
writes of the descriptor are complete and never fail; a file may refuse to be opened for
writing (`ro`) or not exist.

`IOMgr` keeps the list of entries, the cached entry and index, and for each entry
its mode, the position of the other mode (`posSave`) and the line number. A name
stands for the entry that bears it, which `CacheFound` justifies: no name has two.
An action is a call of a program, found or refused, and `ret` what it returns.
The entries of the console are looked up and refused in the wrong direction; what
passes through them is the console's.

`RexxStreams` is the documentation (`docs/palmos/filesAndDBs.html:202-250`): a
content, a read and a write position per file, the first at the start and the
second at the end when it is first used, each moved by its own operations only.
Every value read and every number returned must agree. It gives the code four
liberties, all at places where the code leaves what the documentation says:

* `Jump`: a write position moved back over bytes that still wait to be written
  goes to their end when they are flushed (`m_maxOutWaiting`);
* a line number given to LINEIN or LINEOUT moves the position to *some* place.
  When LINEIN is right is the invariant `LineCounted` of `IOMgr`: nothing else has
  moved the positions, and the last line is terminated. CHARIN, CHAROUT and
  LINEOUT move them and leave `m_line` as it was, after which the count is wrong;
* positions are counted from 1 (`IOMgr.cpp:489`), so that
  `Charout(path, '', Chars(path))` leaves the write position one byte before the end,
  where the documentation says "at the end of the file";
* `Crash`: any write but the first one that an open file is given may end the process.

### RexxConsole

Two threads, `rexx` and `ui`, each with a program counter; `pc` and `ret` stand
for a call of `flush` and its return. The keys are under the lock of `m_inBuf`, so
`OnKey` and one turn of the loop in `get` are one step each. `m_tmpBuf` and
`m_tmpBufPos` are under no lock: the test of `put`, its read of the index, the
increment, the store, and the test, copy and reset of `flush` are steps that
interleave with the other thread's. Each thread sees the other's writes at once;
Java promises less, which adds behaviours only where the threads meet.
`overlapped` records that both have been in that code together: from then on
positions are still followed (they may pass the end of the buffer, which ends the
application: `crashed`) but the characters are not, since nothing holds of them.
`system` runs a command that must end before its output is read; the pipe between
them has a size.

A wait ends by a notification, a time-out or for no reason (`GetTimeout`), and no
property relies on the last two: there is no fairness on `GetTimeout`.

### Speech

The interpreter thread (`rexx`), the main thread with one callback at a time
(`main` is the callback that waits or loops: `create`, `drain`, `destroy`), the
worker of the service with its looper (`msgs`, `quit`), and the engine
(external). A message is a number, in the order it was said. `m_isAlive` and
`m_speech` are read without the lock by `say`: `AliveRead` is the set of values
the read may return to a thread that has not synchronised with the writer, and a
null `m_speech` loses the message.

The answer of the engine is two steps, as `onInit` sets `m_isInited` (`OnInit`) before
`m_isTtsAvailable` (`OnInitDone`), and the worker reads both without the lock. `seen`
says what it is sure to read: everything, once it has waited for the answer under the
lock or has taken a message that the main thread sent after it; before that, either
field may still be read as false (`ReadFalse`). A message handled then may be
dropped though the engine works: `dropped` has those, and `SpokenInFull` says
that nothing else is lost, and nothing at all once `seen` is "yes". One life of a Speaker and of its service is
modelled, from its construction to the end of `onDestroy`.

## 3. The runs

All constants named `Max...` are bounds of the instance; the guards that use
them keep TLC's state space finite, and cut no action out.

| Run | Instance | Shows |
|---|---|---|
| `data_queue` | 2 lines, 3 buffers, 3 queued lines, commands of up to 2 lines, descriptors 0 to 5 but for 2 | `BaseQueueStays`, `ConsoleRestored`; `DataQueueMgr` implements `RexxQueue` |
| `interpreter` | conditions ERROR and NOTREADY, STACK_SIZE 3, two traps or TRACE set, two interrupted routines or strings, one argument | `ScopesMatch`, `SettingsMatch`, `LevelMatch`, `OperandsKept` |
| `variables` | one value, 6 variables alive or pointed at (4 once the third scope was pushed), 3 scopes, two exposed symbols per PROCEDURE | `CacheSound`, `SourcesLive`, `OwnedOnce`, `CallerIsolated`, `ExposureKept` |
| `streams` | file `f` of at most 3 bytes, absent or two lines long at first, through a buffer of 2; file `g` is opened and closed only; line numbers and positions 0 to 2 | `CacheFound`, `LineCounted`; `IOMgr` implements `RexxStreams` |
| `console` | output buffer and pipe of 2, three characters written, two keys, a command that prints 2 or 3 characters | `KeysOnceInOrder`, `OutputOnceInOrder`; under fairness `KeyDelivered`, `PromptShown`, `SystemReturns` |
| `speech` | four things said | `HandlerReady`, `SpokenInOrder`; under fairness `SpokenInFull`, `MainReturns`, `WorkerEnds` |

Why the bounds are enough: reversing an order shows with two lines; a buffer
that must survive shows with a third. Two conditions give two pending at once;
two levels of nesting give a string inside a routine, a routine inside a string,
and a PROCEDURE inside either, all of which can be left by all exits. Two sets
are a trap and the interactive setting, which is what disabling needs. Three
scopes are a variable, its exposure, and an exposure of the exposure; two exposed
symbols are one repeated, and a compound exposed before, after or with its stem or its
tail; six variables are more than a caller with all kinds and a routine that exposes
twice need. Descriptors 3 to 5 are the console saved twice and a file, with none left,
or fewer when other streams are open. A file one
byte longer than the buffer has seeks inside and outside of what is buffered,
a buffer that is full and wraps, and bytes waiting while others are read ahead;
two lines of which one is empty have a line number that is wrong by one in either
direction; the second file moves the entries under the cached index. Three
characters overflow a buffer of two, in `put` and in the pipe alike; two keys are
a key taken while another comes. Four sayings are one on its way at each stage
between the script and the engine: in the queue of the Speaker, in the looper, in
the hand of the worker, in the engine.

In the run `variables`, states that differ only in which addresses the variables have
are taken for one (`WithoutAddresses`: an address is known by the first place it
is found in); so are those that differ in caches with an identifier no scope has,
since identifiers are never used again (`++m_idMax`) and no lookup reads them; and so
are the states after a use of deleted memory, which has no step. In the run `interpreter` programs that have
ended the same way are taken for one (`WithoutEnds`). In `streams` states that
differ in the last call, its result, or in a cached entry without a valid index
are taken for one (`WithoutCall`): no operation reads them, and the refinement is
a property of steps.

Deadlock is checked for the queue. It is not for the others: a program ends, a
user need not type, a service is destroyed, and the bounds stop the rest. That
nothing waits for ever where it should not is what the liveness properties say.

### Fairness

Only `RexxConsole` and `Speech` have liveness properties; the other modules are
sequential programs whose steps an arbitrary program chooses.

* Threads: weak fairness on what each thread has begun (`Continue`,
  `Output("ui")`; `Rexx`, `Main`, `Worker`), because the operating system
  schedules a thread that can run. What a script begins (`Put`, `Get`, `System`,
  `Say`, `Finish`) and what a user does (`OnKey`, `Stop`) has none.
* The main thread's queue: posted texts are shown (`Show`) and callbacks run
  (within `Main`), because Android's main looper serves its queue in order.
* Outside: a running command goes on printing if its pipe has room
  (`ProcWrites`), the engine answers the request to initialise (`OnInit`, `OnInitDone`,
  in `Main`) and speaks what it has (`Speak`).
* Waits: the ten seconds of `onDestroy` do end (`DestroyTimeout`, in `Main`), and
  `WorkerEnds` depends on it: the worker may be waiting for an answer that only
  the waiting thread can deliver. The ten seconds of `RexxConsole.get` are not
  relied upon.

### Runs that expect a violation

Six runs each check one sentence of a comment, of the documentation or of an error
message; the finding in `PROJECT.json` quotes it.

| Run | Property | What the code does |
|---|---|---|
| `null_write` | `NeverCrashes` | a write to a file sought for reading that has no buffer yet goes through null |
| `procedure_first` | `RefusedIsNotFirst` | a condition pending at a CALL makes the first PROCEDURE an error |
| `disabled_syntax` | `DisabledIsSyntaxOnly` | a CALL ON condition is lost in an interactive string |
| `signal_value` | `JumpsToValue` | SIGNAL VALUE reads another slot than its expression's |
| `variable_cache` | `CachedIsRight` | after DROP RC, the next return code goes to deleted memory |
| `drop_exposed` | `DropFreesOnlyData` | DROP of an exposed stem leaves dangling tails |

## 4. The proofs

Assumed everywhere: the ASSUMEs of the modules (bounds are naturals, the console
is no line, an empty name is no file, conditions are Rexx conditions), which TLC
evaluates on every run. Each theorem holds for every value of the constants.

`DataQueueMgrProofs` proves `TypeOK`, `BaseQueueStays` and `ConsoleRestored`. The
invariant is not inductive without `FdInv`: at each step of `execCommand`, what is
held in `saved` and what is in `fd` is determined by the step and the modes, as long as
no `dup` has failed; after that nothing is claimed of the table but its type.

Its second part proves `ImplementsRexxQueue`. The
difficulty is in the refinement mapping: `Joined` and `Sizes` are recursive or
reversed functions of the list of queues. Each recursive function is shown to exist,
then unfolded one queue at a time (`JoinedAppend`, `SumAppend`); that DROPBUF(k)
takes away the first `Sum` of the k newest lengths is an induction over k, by the
least counterexample (`NewestHoldFirst`). `Split` then says what RexxQueue sees of a
state as the older queues and the current one, and there is one lemma per action: a
step of `RexxQueue`, or a stutter for the steps that only move descriptors. Besides
`IInv` it needs `Quiet`: between two commands nothing is left in the two files.

`InterpreterProofs` proves `TypeOK`, `ScopesMatch`, `SettingsMatch`, `LevelMatch`
and `PendingIsCallable` for any conditions, stack size, depth and argument
counts. Each of the three matches says that a counter of one class equals a
number of frames of another. They are not inductive: what an `endInternal` or
`endInterpret` takes off is decided by the fields of the frame that ends. `IInv`
adds `Well` (only the first frame is a COMMAND, a string is not a PROCEDURE, only
callable conditions are in `callons`) and, for each frame, that it is disabled
exactly when it or one below it is an interactive string. `Counted` restates the
counts for the interrupted frames and the current one separately, so that
starting and ending a frame is one lemma on cardinalities (`CountAppend`,
`Popped`). Then: `InternalStarts`, `InternalEnds`, `StringStarts`, `StringEnds`
are one lemma per stack operation, and `ClauseStep`, `SetStep`, `RaiseStep`... one
per group of actions.

Its second part proves `OperandsKept`. What an end or a jump leaves on the
operand stack was fixed when the routine or string started, so `FloorsOK` says of
each frame that what it will leave is above the floor of the one it interrupted,
and `HeightOK` says from when to when the running code is above its own floor: also
between the throwing of a CALL condition and the call of its routine, but not after
an error in code where signals are disabled, which goes on with whatever is there.

`VariableHandlerProofs` proves `CacheSound`. `Pool` adds to it that scopes have
different identifiers, up to `idMax`. What the heap holds does not matter: every
operation of the handler leaves scopes and caches alone, or caches what the map
has, or puts a variable where there was none, or removes one and uncaches it, and
each is followed through the lookups in the order of the code. PROCEDURE EXPOSE is
a recursive function over the list of exposed symbols: that what it computes keeps
`Pool` is an induction over the list, by the least index at which it would fail
(`HasLeast`, from the well-foundedness of the naturals).

`VariableHeapProofs` proves `TypeOK`, `SourcesLive`, `OwnedOnce` and the action
properties `ExposureKept` and `CallerIsolated`, about the variables themselves. None is inductive: which
variable a DROP frees or a RETURN leaves behind depends on all the scopes and all
the stems at once. `Forest` describes that heap: a live variable is in the map of
one scope under its own name, or in that of one live stem; only a stem that exposes
nothing has tails; what an entry exposes, the same entry of the scope below has for
source too, so on down to the scope that owns it; a tail that exposes another is
above it; what `put()` left out (`left`) is in no map and exposes another. `HeapInv` adds the types and the bounds. `Forest` is claimed only while no
deleted variable was used (`bad`) and the bound on variables was not met (`Fits`);
the types hold always. The operators of the module are then followed in the order
of the code, with three relations between the memory before and after: `SameShape`
(only values change), `Grows` (entries and tails are added, what was there is kept)
and `Shrinks` (an entry of the last scope and its tails, the tails of the stem the
last scope exposes, or the last scope go, and nothing that exposes changes). They
compose, so there is one lemma per operator and one line per action (`NextHeap`).
PROCEDURE EXPOSE is again an induction over the list, with `Grows` from each element
to the next.
`CallerIsolated` needs more, as two pointers are kept outside the maps: the cache of
the handler's own RC, which no DROP clears, and the address that an assignment has
left on the operand stack while routines run. `Pointed`, a part of `HeapInv`, says
where they lead: to a dead variable, or to one of the scope they were taken from,
which `StillPointed` carries through everything that adds or deletes (a new variable
takes the address of neither). Then each operator is followed once more: what it
changes is new, or reached from the current scope (`Within`).

`IOMgrProofs` proves `CacheFound`, by `Table`: the entries, the cached name and the
cached index are the only parts of the manager that matter; `Find` moves the cache,
`Make` adds an entry for a name that has none, `Close` removes the one just cached.

It also proves `TypeOK` and `LineCounted`, of the open streams. Neither is
inductive: what a read returns depends on what an earlier one left in the buffer.
`Sound` adds to them, for each stream, `Good`: bytes were read ahead, they are a
piece of the file that ends where the descriptor is, and nothing waits; or bytes wait to
be written, nothing was read ahead, and they go where the descriptor is or where a
seek moved it; with no buffer yet, neither. Each method of `FileStreamBuf` (`peek`, `get`, `put`, `sync`, the seeks)
is a lemma: it keeps `Good`, leaves `Content` as it must be and moves the read position
by what it returns. `PutAll`, `GetUntil` and `gotoLine` repeat them in recursive
functions: that each exists and keeps what a step keeps is proved once (`StepsExist`,
`UpTo`, by the least index at which it would fail). A line read then adds as many
newlines as it adds to the count (`EntryCounted`), and an entry just turned to be
written counts no longer (`Nearly`). The last line must be terminated: `gotoLine`
takes the end of the file for the end of a line. Assumed: the marks `EOF`,
`Junk` and `Hole` are no bytes, and strings and contents are sequences of bytes.

`RexxStreamsProofs` proves that `IOMgr` implements `RexxStreams` (`FileView`,
`ReadView` and `WriteView` are the mapping). The two sides keep the same thing in
different places: for `RexxStreams` a file is bytes and two positions; the manager has
the bytes partly in the buffer, and the position of the direction the stream is not
used in, in the entry. The proof goes up the layers of the code:

* the buffer: each method of `FileStreamBuf` leaves `Content`, the file with what
  waits over it (`Bytewise` writes it out byte by byte), or puts one byte over it at the
  write position. Flushing leaves the write position, or moves it to the end of what
  waited when a seek had gone back over that (`Settled`): `RexxStreams` allows that
  jump, and the proof shows that it stays within the file;
* the loops: what they have done after i steps (`Over`, `Took`, `Went`, `Counting`) is
  kept by a step. A read is a piece of the content, up to a newline or not; a write
  leaves the content with the bytes over it; LINES counts what is left;
* the entries: `ensureRead` and `ensureWrite` leave the file open in the direction
  asked, where it was left (`Readable`, `Writable`), and everything else alone, or
  refuse. `Modal` is the invariant: an entry is written only after that was granted,
  which a read-only file never is; a file that is not open has no mode; the streams of
  the console stay;
* the actions: one lemma each, a step of `RexxStreams` or a stutter; a write through
  null is a `Crash` of a file that was given a write before (`CrashImplements`).

Assumed besides: no byte is the mark of a file that does not exist (`AbsentIsNoFile`).

`RexxConsoleProofs` proves `KeysOnceInOrder` (`KeyInv`), `OutputOnceInOrder` and
`TypeOK`, which bounds the position of the output buffer: it passes the end only after the threads have met
in the output code, and then by two at most. `BufferInv` has four parts: the shape of
the data; what each thread holds at each place (`Begun`); how far the position
can be, counting the threads between their test and their increment (`Positions`);
and what is true while only one thread is there (`Alone`).

`OutputOnceInOrder` is about `OutputSeq`, every character between `put` and the
screen in the order it would be shown: shown, posted, in the hand of the thread that
posts, in the buffer, in the hand of the one that puts. While the threads have not met
(`Calm`), `Places` says in which of these parts a character is at each step of `put`,
`flush` and `system`, and what a thread has read of the buffer is still what is there;
then a step of `put` or `flush` moves a character or a text from one part to the next,
and the whole is the same (`Moves`). Only three actions add to it (`Put`, `OnKey` and
the output of a command, `Assign`), and only the echo of a key that the main thread
shows at once, before texts posted to it, changes its order (`TextsSwapped`).
`FlattenSeq`, by which texts are put together, is unfolded by a least counterexample
(`FlattenAppend`, `FlattenTail`).

`SpeechProofs` proves `TypeOK`, `HandlerReady` and `SpokenInOrder`. `StartInv` says
what has been passed at each place of the worker, and of the engine's answer. `OrderInv` takes the six stages
between the script and the engine as one sequence of sequences (`Pipe`): everything
in a later stage was said before everything in an earlier one, and within each the
order is that of saying; a step moves one element to the next stage, adds a new one
at the beginning, or drops some.

Model-checked only: all liveness, and what needs ENABLED (out of the prover's
reach). No module uses RECURSIVE operators;
recursion is by recursive functions.

## 5. Not modelled, and why

* `Compiler`, `Tokenizer`, `BuiltIn`, `RexxString`, `TimeClock`, `decnblib`,
  `yasp3lib`: sequential translation or arithmetic on data; unit tests reach them.
  Together with the tables of `toolslib` (`uc2euc.h`, `uc2sjis.h`), the vendored
  `dlmalloc.c` and the ports, they are most of the lines of the repository, and
  there is no state or order in them that a model checker would explore better than
  a test does.
* `palmiolib`, `mwerks`: ports to a platform no longer built.
* `toolslib` but its buffered files: wrappers; `LinkedList` is modelled where it is
  used.
* Raising HALT and FAILURE: `Routines` traps them and no code raises them. The
  model has the traps, and raises what the code raises (`Raised`, `commandFails`).
* Streams: a full disk, short transfers, devices; carriage returns; malformed names;
  closing one of the console's three streams, which deletes an entry the manager's
  destructor and `get(IX_STDIN)` count on.
* Console: the interruption of the wait in `get` (`RexxConsole.java:172-175`), as nothing
  interrupts that thread; the parsing of a command; characters of several bytes, which a flush may
  split; the JNI environment `g_jniEnv`, which a second script would share.
* Speech: wake-ups for no reason in `onCreate`, which the code does not guard
  against; interruptions; languages; a second client of the service.
* Activities, the script database, preferences: calls of Android's user interface.

Seen while modelling and left without a property, as no behaviour of several steps
is behind them: `Symbol.cpp:121`, `SystemContext.cpp:68`, `Tracer.cpp:217` (TRACE
with a wrong setting has already toggled the interactive mode when it fails),
`Compiler.cpp:318` (CALL ON with NAME leaves the name on the stack),
`Interpreter.cpp:135`, `Interpreter.cpp:1465`, `VariableHandler.cpp:480`,
`Routines.cpp:80`, `OnTimeCompiler.cpp:27`.

## 6. The plan

Done: the queue, the interpreter, the variable pool, the streams, the console and
the speech service, each with its proofs; the refinements of the queue and of the streams, proved.

Next, in this order:

1. `VariablePool`, the abstract pool (scopes as functions from names to values,
   exposure as sharing), with `VariableHandler` shown to implement it until DROP
   of an exposed stem or of RC, using the values of stems and two exposed symbols.
2. Composition of `Interpreter` with `VariableHandler` (a scope per PROCEDURE
   rather than a count), if its states stay within reach.
