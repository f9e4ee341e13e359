---------------------------- MODULE RexxConsole ----------------------------
(***************************************************************************)
(* The console of the Android application (RexxConsole.java, called by the *)
(* interpreter through JConsole.cpp).                                      *)
(*                                                                         *)
(* Two threads use it: "rexx", the interpreter, writes characters, reads   *)
(* keys and runs commands; "ui", the main thread, receives the keys, echoes*)
(* them, and shows the text that flush posts to it.  The keys are under a  *)
(* lock; the output buffer is under none, and every access of a thread to  *)
(* m_tmpBuf or m_tmpBufPos is a step of its own here, in the order of the  *)
(* accesses of the code (the threads see each other's writes at once).     *)
(*                                                                         *)
(* A character is <<who, i>>, the i-th one of the program ("rexx"), of the *)
(* user ("key") or of a command ("proc").                                  *)
(*                                                                         *)
(* Definitions named Mut... are wrong variants of the one that follows.    *)
(***************************************************************************)
EXTENDS Integers, SequencesExt

CONSTANTS Size,        \* TMP_BUFSIZE
          PipeSize,    \* what a command may print before it is read
          Lengths,      \* how many characters a command may print
          MaxOut,      \* bound: characters the program writes
          MaxKeys,     \* bound: keys the user types
          MaxCommands  \* bound: commands the program runs

ASSUME SizesAreNat ==
  /\ {Size, PipeSize} \subseteq Nat \ {0}
  /\ {MaxOut, MaxKeys, MaxCommands} \union Lengths \subseteq Nat

VARIABLES pos,             \* m_tmpBufPos
          data,            \* the characters: in m_tmpBuf, put, flushed, posted, shown
          inBuf,           \* m_inBuf
          pc, ret,         \* where each thread is; where flush returns to
          reg,             \* of each thread: the index or length it has read
          proc,            \* the command that runs: what it printed, what it will
          crashed,         \* an index was out of the buffer: the application ends
          \* of the past:
          typed, got,      \* how many keys were typed; those REXX has read
          written, commands, \* how many characters were put; how many commands started
          overlapped,      \* the threads were in the output code at the same time
          overtaken        \* the echo of a key was shown before text that was posted

outVars  == <<pos, reg, written>>
keyVars  == <<inBuf, typed, got>>
procVars == <<proc, commands>>
vars == <<outVars, data, keyVars, pc, ret, procVars, crashed, overlapped, overtaken>>

Threads == {"rexx", "ui"}
Nothing == <<"none", 0>>
NoProc  == [pipe |-> << >>, left |-> 0, printed |-> 0, isRexx |-> FALSE]
NoData  == [buf |-> [i \in 0..(Size - 1) |-> Nothing],     \* m_tmpBuf
            char |-> [t \in Threads |-> Nothing],          \* the argument of put
            text |-> [t \in Threads |-> << >>],            \* the local `out` of flush
            posted |-> << >>,                              \* texts for the main thread to show
            shown |-> << >>]                               \* m_outBuf

Init ==
  /\ pos = 0 /\ data = NoData /\ inBuf = << >>
  /\ pc = [t \in Threads |-> "run"] /\ ret = [t \in Threads |-> "run"]
  /\ reg = [t \in Threads |-> 0]
  /\ proc = NoProc /\ crashed = FALSE
  /\ typed = 0 /\ got = << >> /\ written = 0 /\ commands = 0
  /\ overlapped = FALSE /\ overtaken = FALSE

\* The places where a thread uses the output buffer.
Busy(p) == p \notin {"run", "key", "wait", "start", "waitFor", "done"}

\* Thread t goes from p to q.
Goto(t, p, q) ==
  /\ ~crashed /\ pc[t] = p
  /\ pc' = [pc EXCEPT ![t] = q]
  /\ overlapped' = (overlapped \/ \A u \in Threads : Busy(pc'[u]))

Step(t, p, q) == Goto(t, p, q) /\ ret' = ret

\* Thread t calls flush at p, to come back to q.
Call(t, p, q) == Goto(t, p, "flush") /\ ret' = [ret EXCEPT ![t] = q]

\* Once the threads have met in the output code nothing is said of the characters:
\* positions go on, what they point at is no longer recorded.
Hold(d) == data' = IF overlapped' THEN NoData ELSE d

-----------------------------------------------------------------------------
(***************************************************************************)
(* put: if (pos >= SIZE) flush(); buf[pos++] = ch.                         *)
(***************************************************************************)
\* The test for a full buffer is forgotten.
MutPutTest(t) ==
  /\ Step(t, "put", "index") /\ Hold(data)
  /\ UNCHANGED <<outVars, keyVars, procVars, crashed, overtaken>>

PutTest(t) ==
  /\ IF pos >= Size THEN Call(t, "put", "index") ELSE Step(t, "put", "index")
  /\ Hold(data)
  /\ UNCHANGED <<outVars, keyVars, procVars, crashed, overtaken>>

PutIndex(t) ==
  /\ Step(t, "index", "bump") /\ Hold(data)
  /\ reg' = [reg EXCEPT ![t] = pos]
  /\ UNCHANGED <<pos, written, keyVars, procVars, crashed, overtaken>>

PutBump(t) ==
  /\ Step(t, "bump", "store") /\ Hold(data)
  /\ pos' = reg[t] + 1
  /\ UNCHANGED <<reg, written, keyVars, procVars, crashed, overtaken>>

\* The echo of a key is flushed at once.
PutStore(t) ==
  /\ IF t = "ui" THEN Call(t, "store", "run") ELSE Step(t, "store", "run")
  /\ crashed' = (reg[t] \notin 0..(Size - 1))
  /\ Hold(IF crashed' THEN data
          ELSE [data EXCEPT !.buf[reg[t]] = data.char[t], !.char[t] = Nothing])
  /\ reg' = [reg EXCEPT ![t] = 0]
  /\ UNCHANGED <<pos, written, keyVars, procVars, overtaken>>

-----------------------------------------------------------------------------
(***************************************************************************)
(* flush: if (pos > 0) { out = new String(buf, 0, pos); pos = 0; post }.   *)
(* A wrong length throws, and the exception is ignored.                    *)
(***************************************************************************)
FlushTest(t) ==
  /\ Step(t, "flush", IF pos > 0 THEN "copy" ELSE ret[t]) /\ Hold(data)
  /\ UNCHANGED <<outVars, keyVars, procVars, crashed, overtaken>>

FlushCopy(t) ==
  /\ Step(t, "copy", IF pos \in 0..Size THEN "reset" ELSE ret[t])
  /\ Hold([data EXCEPT !.text[t] = [i \in 1..pos |-> data.buf[i - 1]]])
  /\ UNCHANGED <<outVars, keyVars, procVars, crashed, overtaken>>

\* The position is left where it was.
MutFlushReset(t) ==
  /\ Step(t, "reset", "post") /\ Hold(data)
  /\ UNCHANGED <<outVars, keyVars, procVars, crashed, overtaken>>

FlushReset(t) ==
  /\ Step(t, "reset", "post") /\ Hold(data)
  /\ pos' = 0
  /\ UNCHANGED <<reg, written, keyVars, procVars, crashed, overtaken>>

\* runOnUiThread: at once on the main thread, later from another.
FlushPost(t) ==
  /\ Step(t, "post", ret[t])
  /\ Hold(IF t = "ui" THEN [data EXCEPT !.shown = @ \o data.text[t], !.text[t] = << >>]
          ELSE [data EXCEPT !.posted = Append(@, data.text[t]), !.text[t] = << >>])
  /\ overtaken' = (overtaken \/ (t = "ui" /\ data.posted # << >>))
  /\ UNCHANGED <<outVars, keyVars, procVars, crashed>>

-----------------------------------------------------------------------------
(***************************************************************************)
(* The main thread: it shows what was posted, and receives keys.           *)
(***************************************************************************)
Show ==
  /\ pc["ui"] = "run" /\ ~crashed /\ data.posted # << >>
  /\ data' = [data EXCEPT !.shown = @ \o Head(data.posted), !.posted = Tail(@)]
  /\ UNCHANGED <<outVars, keyVars, procVars, pc, ret, crashed, overlapped, overtaken>>

\* Nobody is notified.
MutOnKey ==
  /\ typed < MaxKeys /\ ~crashed /\ pc["ui"] = "run"
  /\ typed' = typed + 1 /\ got' = got
  /\ inBuf' = Append(inBuf, <<"key", typed'>>)
  /\ pc' = [pc EXCEPT !["ui"] = "put"]
  /\ overlapped' = (overlapped \/ Busy(pc["rexx"]))
  /\ Hold([data EXCEPT !.char["ui"] = <<"key", typed'>>])
  /\ UNCHANGED <<outVars, procVars, ret, crashed, overtaken>>

\* onKey: the key is appended and the waiting thread notified, under the lock;
\* then it is put and flushed.
OnKey ==
  /\ typed < MaxKeys /\ ~crashed /\ pc["ui"] = "run"
  /\ typed' = typed + 1 /\ got' = got
  /\ inBuf' = Append(inBuf, <<"key", typed'>>)
  /\ pc' = [ui |-> "put", rexx |-> IF pc["rexx"] = "wait" THEN "key" ELSE pc["rexx"]]
  /\ overlapped' = (overlapped \/ Busy(pc["rexx"]))
  /\ Hold([data EXCEPT !.char["ui"] = <<"key", typed'>>])
  /\ UNCHANGED <<outVars, procVars, ret, crashed, overtaken>>

-----------------------------------------------------------------------------
(***************************************************************************)
(* The interpreter thread.                                                 *)
(***************************************************************************)
Put ==
  /\ written < MaxOut
  /\ Step("rexx", "run", "put")
  /\ written' = written + 1
  /\ Hold([data EXCEPT !.char["rexx"] = <<"rexx", written'>>])
  /\ UNCHANGED <<pos, reg, keyVars, procVars, crashed, overtaken>>

\* The prompt is left in the buffer.
MutGet ==
  /\ Step("rexx", "run", "key") /\ Hold(data)
  /\ UNCHANGED <<outVars, keyVars, procVars, crashed, overtaken>>

Get ==
  /\ Call("rexx", "run", "key") /\ Hold(data)
  /\ UNCHANGED <<outVars, keyVars, procVars, crashed, overtaken>>

\* A wait that ends is taken for a key.
MutGetKey ==
  /\ Step("rexx", "key", "run") /\ Hold(data)
  /\ got' = Append(got, IF inBuf = << >> THEN Nothing ELSE Head(inBuf))
  /\ inBuf' = IF inBuf = << >> THEN inBuf ELSE Tail(inBuf)
  /\ UNCHANGED <<outVars, typed, procVars, crashed, overtaken>>

\* One turn of the loop of get, with the lock: a key is taken, or the thread waits.
GetKey ==
  /\ Step("rexx", "key", IF inBuf = << >> THEN "wait" ELSE "run") /\ Hold(data)
  /\ IF inBuf = << >> THEN UNCHANGED <<inBuf, got>>
     ELSE got' = Append(got, Head(inBuf)) /\ inBuf' = Tail(inBuf)
  /\ UNCHANGED <<outVars, typed, procVars, crashed, overtaken>>

\* wait(10000) times out, or is woken for no reason.
GetTimeout ==
  /\ Step("rexx", "wait", "key") /\ Hold(data)
  /\ UNCHANGED <<outVars, keyVars, procVars, crashed, overtaken>>

\* The script ends: run() flushes, and the activity finishes.
Finish ==
  /\ Call("rexx", "run", "done") /\ Hold(data)
  /\ UNCHANGED <<outVars, keyVars, procVars, crashed, overtaken>>

-----------------------------------------------------------------------------
(***************************************************************************)
(* system: the command runs to its end before its output is read into the  *)
(* output buffer; that of a REXX script started as an activity is not read.*)
(***************************************************************************)
System ==
  /\ commands < MaxCommands
  /\ Call("rexx", "run", "start") /\ Hold(data)
  /\ UNCHANGED <<outVars, keyVars, procVars, crashed, overtaken>>

Start ==
  /\ Step("rexx", "start", "waitFor") /\ Hold(data)
  /\ \E n \in Lengths, isRexx \in BOOLEAN :
       proc' = [pipe |-> << >>, left |-> n, printed |-> 0, isRexx |-> isRexx]
  /\ commands' = commands + 1
  /\ UNCHANGED <<outVars, keyVars, crashed, overtaken>>

\* The command cannot be started: the exception is logged.
StartFails ==
  /\ Step("rexx", "start", "run") /\ Hold(data)
  /\ commands' = commands + 1 /\ proc' = proc
  /\ UNCHANGED <<outVars, keyVars, crashed, overtaken>>

\* The command, outside of the application.
ProcWrites ==
  /\ pc["rexx"] = "waitFor" /\ proc.left > 0 /\ Len(proc.pipe) < PipeSize
  /\ proc' = [proc EXCEPT !.pipe = Append(@, <<"proc", proc.printed + 1>>),
                          !.left = @ - 1, !.printed = @ + 1]
  /\ UNCHANGED <<outVars, data, keyVars, commands, pc, ret, crashed, overlapped, overtaken>>

WaitFor ==
  /\ proc.left = 0
  /\ Step("rexx", "waitFor", IF proc.isRexx THEN "run" ELSE "read") /\ Hold(data)
  /\ proc' = IF proc.isRexx THEN NoProc ELSE proc
  /\ UNCHANGED <<outVars, keyVars, commands, crashed, overtaken>>

\* in.read(buf) and then pos = what it returned; -1 at the end of the output.
Read ==
  /\ Step("rexx", "read", "assign")
  /\ LET n == IF Len(proc.pipe) < Size THEN Len(proc.pipe) ELSE Size
     IN  /\ Hold([data EXCEPT !.buf = [i \in DOMAIN @ |-> IF i < n THEN proc.pipe[i + 1] ELSE @[i]]])
         /\ reg' = [reg EXCEPT !["rexx"] = IF n = 0 THEN -1 ELSE n]
         /\ proc' = [proc EXCEPT !.pipe = SubSeq(@, n + 1, Len(@))]
  /\ UNCHANGED <<pos, written, keyVars, commands, crashed, overtaken>>

\* The end of the output is looked for where it never shows.
MutAssign ==
  /\ Call("rexx", "assign", "read") /\ Hold(data)
  /\ pos' = IF reg["rexx"] = -1 THEN 0 ELSE reg["rexx"]
  /\ reg' = [reg EXCEPT !["rexx"] = 0]
  /\ UNCHANGED <<written, keyVars, procVars, crashed, overtaken>>

Assign ==
  /\ IF reg["rexx"] = -1 THEN Step("rexx", "assign", "readDone") ELSE Call("rexx", "assign", "read")
  /\ Hold(data)
  /\ pos' = reg["rexx"] /\ reg' = [reg EXCEPT !["rexx"] = 0]
  /\ UNCHANGED <<written, keyVars, procVars, crashed, overtaken>>

ReadDone ==
  /\ Step("rexx", "readDone", "run") /\ Hold(data)
  /\ pos' = 0 /\ proc' = NoProc
  /\ UNCHANGED <<reg, written, keyVars, commands, crashed, overtaken>>

-----------------------------------------------------------------------------
Output(t) ==
  \/ PutTest(t) \/ PutIndex(t) \/ PutBump(t) \/ PutStore(t)
  \/ FlushTest(t) \/ FlushCopy(t) \/ FlushReset(t) \/ FlushPost(t)

\* What REXX does next is the program's; what it has begun goes on.
Begin    == Put \/ Get \/ System \/ Finish
Continue == Output("rexx") \/ GetKey \/ Start \/ StartFails
            \/ WaitFor \/ Read \/ Assign \/ ReadDone

Next == Begin \/ Continue \/ GetTimeout \/ ProcWrites \/ Output("ui") \/ Show \/ OnKey

\* Both threads and a command that can run do so. The user need not type, nor the
\* program begin anything; and nothing relies on the time-out of the wait.
Spec ==
  /\ Init /\ [][Next]_vars
  /\ WF_vars(Continue) /\ WF_vars(ProcWrites) /\ WF_vars(Output("ui")) /\ WF_vars(Show)

-----------------------------------------------------------------------------
(***************************************************************************)
(* Properties.                                                             *)
(***************************************************************************)
Chars == {"rexx", "key", "proc", "none"} \X Nat
RexxPlaces == {"run", "key", "wait", "start", "waitFor", "done", "read", "assign", "readDone"}
PutPlaces  == {"put", "index", "bump", "store", "flush", "copy", "reset", "post"}

\* The shape of the state. Only threads that met in the output code push the position
\* past the buffer, by one each, or write there and end the application.
TypeOK ==
  /\ data.buf \in [0..(Size - 1) -> Chars] /\ pos \in -1..(Size + 2)
  /\ pos > Size \/ crashed => overlapped
  /\ pc["rexx"] \in RexxPlaces \union PutPlaces /\ pc["ui"] \in {"run"} \union PutPlaces
  /\ ret["rexx"] \in {"run", "index", "key", "start", "read", "done"}
  /\ ret["ui"] \in {"run", "index"}
  /\ \A t \in Threads : reg[t] \in -1..(Size + 1) /\ data.char[t] \in Chars
  /\ typed \in 0..MaxKeys /\ written \in 0..MaxOut /\ commands \in 0..MaxCommands

\* Every key typed is read by REXX or still waits to be, once and in order, whatever
\* the notifications, time-outs and wake-ups of the wait (RexxConsole.java:159-179,
\* 223-226).
KeysOnceInOrder == got \o inBuf = [i \in 1..typed |-> <<"key", i>>]

\* Where a character is between put and the screen: shown, posted, in the hand of a
\* thread that flushes, in the buffer, in that of one that puts it. A text that is
\* copied is still in the buffer until pos is reset; a place that pos has just left is
\* not in it before the character is stored there.
InHand(t) == IF pc[t] = "post" THEN data.text[t] ELSE << >>
InPut(t)  == IF data.char[t] = Nothing THEN << >> ELSE << data.char[t] >>
InBuffer  == [i \in 1..(IF \E t \in Threads : pc[t] = "store" THEN pos - 1 ELSE pos) |-> data.buf[i - 1]]
OutputSeq == data.shown \o FlattenSeq(data.posted) \o (InHand("rexx") \o InHand("ui")) \o InBuffer
               \o (InPut("rexx") \o InPut("ui"))

Once(c, s) == \E k \in DOMAIN s : \A l \in DOMAIN s : s[l] = c <=> l = k

\* The first n characters of who, each of them once, and no other of who.
EachOnce(who, n, s) ==
  /\ \A i \in 1..n : Once(<<who, i>>, s)
  /\ \A k \in DOMAIN s : s[k][1] = who => s[k][2] \in 1..n

InOrder(who, s) ==
  \A k, l \in DOMAIN s : k < l /\ s[k][1] = who /\ s[l][1] = who => s[k][2] < s[l][2]

\* As long as the threads were never in the output code together, nothing put is lost
\* or shown twice; and if no echo was shown before text already posted, what REXX
\* wrote comes in order, through buffers filled to the limit, flushes and the output
\* of commands (RexxConsole.java:186-210).
OutputOnceInOrder ==
  ~overlapped =>
    /\ EachOnce("rexx", written, OutputSeq) /\ EachOnce("key", typed, OutputSeq)
    /\ ~overtaken => InOrder("rexx", OutputSeq)

\* A get that has a key to return returns, by the notification alone: no wake-up is
\* lost between its look at the keys and its wait (RexxConsole.java:162-178, 223-226).
InGet == pc["rexx"] \in {"key", "wait"}
KeyDelivered == InGet /\ inBuf # << >> ~> ~InGet \/ crashed

\* When REXX waits for the user, or has ended, all that it wrote gets to the screen
\* (RexxConsole.java:161, Rexx.java:148).
PromptShown ==
  \A i \in 1..MaxOut :
    (pc["rexx"] \in {"wait", "done"} /\ written >= i)
      ~> (overlapped \/ Once(<<"rexx", i>>, data.shown))

\* A command whose output fits in the pipe ends, and the program goes on
\* (RexxConsole.java:134-145); one that prints more waits for ever for its reader.
SystemReturns ==
  (pc["rexx"] = "waitFor" /\ proc.left + Len(proc.pipe) <= PipeSize)
    ~> (pc["rexx"] = "run" \/ crashed)

=============================================================================
