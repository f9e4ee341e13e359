---------------------------- MODULE DataQueueMgr ----------------------------
(***************************************************************************)
(* The external data queue of the interpreter (DataQueueMgr.cpp) and the   *)
(* command redirection that feeds it and drains it                         *)
(* (Interpreter::execCommand).                                             *)
(*                                                                         *)
(* The queue is a linked list of queues; the last one is current.  A queue *)
(* is a linked list of lines: QUEUE adds at the front, PUSH at the back,   *)
(* PULL takes from the back.  execCommand is a sequence of steps, each of  *)
(* which may fail on its own: it drains the current queue to a temporary   *)
(* file, moves descriptors 0 and 1, runs the command, moves them back and  *)
(* reads the output file into the current queue.  The table of descriptors *)
(* of the process is shared with the program's other streams, so that it   *)
(* can be full: open, creat and dup then return -1, which execCommand does *)
(* not test.                                                               *)
(*                                                                         *)
(* The build modelled is the one the Makefile makes (-D NDEBUG), without   *)
(* the assertion in pull().                                                *)
(*                                                                         *)
(* Definitions named Mut... are wrong variants of the one that follows:    *)
(* the properties are tried against them.                                  *)
(***************************************************************************)
EXTENDS Integers, Sequences

CONSTANTS Lines,      \* the lines a program or a command can produce
          Console,    \* what PULL returns when it had to read the console
          DropArgs,   \* the arguments given to DROPBUF
          MaxBuffers, \* bound: queues that exist at a time
          MaxQueued,  \* bound: lines queued at a time
          MaxOutput,  \* bound: lines a command writes
          MaxFd       \* bound: the highest descriptor of the process

ASSUME ConsoleIsNoLine == Console \notin Lines
ASSUME BoundsAreNat == /\ DropArgs \subseteq Int
                       /\ MaxBuffers \in Nat \ {0}
                       /\ MaxQueued \in Nat
                       /\ MaxOutput \in Nat
                       /\ MaxFd \in Nat \ {0}

VARIABLES queues, \* the queues, oldest first, each from front to back
          got,    \* what the last PULL returned
          fed,    \* the content of the command's input file
          out,    \* the content of the command's output file
          cmd,    \* execCommand: the step it is at, its modes, its result
          fd,     \* what each descriptor of the process is
          saved,  \* the duplicates of 0 and 1: oldStdin and oldStdout
          lost    \* not in the code: a dup of 0 or 1 has failed

vars == <<queues, got, fed, out, cmd, fd, saved, lost>>

Modes == {"NONE", "FIFO", "LIFO"}
Steps == {"idle", "redirectIn", "redirectOut", "system", "restoreIn", "restoreOut"}
Ends  == {"console", "in", "out", "stream", "closed"}
Idle  == [step |-> "idle", in |-> "NONE", out |-> "NONE", toResult |-> FALSE]

Last      == Len(queues)
Cur       == queues[Last]
AllBut(s) == SubSeq(s, 1, Len(s) - 1)
Backward(s) == [i \in 1..Len(s) |-> s[Len(s) + 1 - i]]

\* removeLast() on the list of queues, unless it is the only one.
MutRemoveCurrent(qs) == AllBut(qs)
RemoveCurrent(qs) == IF Len(qs) > 1 THEN AllBut(qs) ELSE qs

TotalSize == LET total[i \in 0..Last] ==
                   IF i = 0 THEN 0 ELSE total[i-1] + Len(queues[i])
             IN  total[Last]

-----------------------------------------------------------------------------
(***************************************************************************)
(* The descriptors, and what the system calls do to a table f of them; a   *)
(* call that fails returns Failed, and one given Failed does nothing.      *)
(* Standard error, 2, is left alone by all of them.                        *)
(***************************************************************************)
Failed      == -1
Descriptors == (0..MaxFd) \ {2}
NoneSaved   == [d \in {0, 1} |-> Failed]

\* The lowest that is not in use: what open, creat and dup return.
Lowest(f) == IF \E d \in Descriptors : f[d] = "closed"
             THEN CHOOSE d \in Descriptors :
                    f[d] = "closed" /\ \A e \in Descriptors : f[e] = "closed" => d <= e
             ELSE Failed

Put(f, d, end)    == IF d = Failed THEN f ELSE [f EXCEPT ![d] = end]
Closing(f, d)     == Put(f, d, "closed")
Dup(f, d)         == IF f[d] = "closed" THEN Failed ELSE Lowest(f)
Dup2(f, from, to) == IF from = Failed THEN f
                     ELSE IF f[from] = "closed" THEN f ELSE [f EXCEPT ![to] = f[from]]

\* d becomes the new descriptor `new`, which is closed.
Become(f, d, new) == Closing(Dup2(f, new, d), new)

-----------------------------------------------------------------------------
Init ==
  /\ queues = << <<>> >>
  /\ got = Console
  /\ fed = <<>> /\ out = <<>>
  /\ cmd = Idle
  /\ fd = [d \in Descriptors |-> IF d \in {0, 1} THEN "console" ELSE "closed"]
  /\ saved = NoneSaved /\ lost = FALSE

-----------------------------------------------------------------------------
(***************************************************************************)
(* The operations of a program between two commands.                       *)
(***************************************************************************)
files   == <<fd, saved, lost>>
cmdvars == <<fed, out, cmd, files>>

AddFirst(q, l) == <<l>> \o q
AddLast(q, l)  == Append(q, l)

enqueue(l) ==
  /\ cmd.step = "idle" /\ TotalSize < MaxQueued
  /\ queues' = [queues EXCEPT ![Last] = AddFirst(@, l)]
  /\ UNCHANGED <<got, cmdvars>>

push(l) ==
  /\ cmd.step = "idle" /\ TotalSize < MaxQueued
  /\ queues' = [queues EXCEPT ![Last] = AddLast(@, l)]
  /\ UNCHANGED <<got, cmdvars>>

\* A queue that PULL empties is removed at once, unless it is the only one.
pullLine ==
  /\ cmd.step = "idle" /\ Cur # <<>>
  /\ got' = Cur[Len(Cur)]
  /\ queues' = LET left == [queues EXCEPT ![Last] = AllBut(@)]
               IN  IF Len(Cur) = 1 THEN RemoveCurrent(left) ELSE left
  /\ UNCHANGED cmdvars

\* An empty current queue: the line comes from the console, whatever the
\* older queues hold (the assertion that there are none is compiled out).
pullConsole ==
  /\ cmd.step = "idle" /\ Cur = <<>>
  /\ got' = Console
  /\ UNCHANGED <<queues, cmdvars>>

addDataQueue ==
  /\ cmd.step = "idle" /\ Last < MaxBuffers
  /\ queues' = Append(queues, <<>>)
  /\ UNCHANGED <<got, cmdvars>>

\* DROPBUF(n): n queues from the last; 0 means all, a negative n its opposite;
\* the first queue is emptied, not removed.  DESBUF() is n = 0.
HowMany(n) == IF n = 0 THEN Last ELSE IF n < 0 THEN -n ELSE n
Remaining(n) == IF HowMany(n) >= Last THEN << <<>> >>
                ELSE SubSeq(queues, 1, Last - HowMany(n))

removeDataQueues(n) ==
  /\ cmd.step = "idle"
  /\ queues' = Remaining(n)
  /\ UNCHANGED <<got, cmdvars>>

-----------------------------------------------------------------------------
(***************************************************************************)
(* Interpreter::execCommand, for a command clause or for the call of an    *)
(* external program.                                                       *)
(***************************************************************************)
execCommand(i, o, toResult) ==
  /\ cmd.step = "idle"
  /\ cmd' = [step |-> "redirectIn", in |-> i, out |-> o, toResult |-> toResult]
  /\ fed' = <<>> /\ out' = <<>>
  /\ UNCHANGED <<queues, got, files>>

\* A command clause: stripQueueModes reads the modes off its two ends.
processCommand(i, o) == execCommand(i, o, FALSE)

\* A call never takes its input from the queue; its output is the result if
\* the result's slot on the operand stack, which nothing cleared, still holds
\* a non-empty string, and is queued if it does not.
processCall(slotIsEmpty) == execCommand("NONE", "FIFO", ~slotIsEmpty)

\* readDataQueue: the lines leave the current queue one by one, and the queue
\* goes with them.  LIFO takes from the back, FIFO from the front.
Drained(mode) == IF mode = "LIFO" THEN Backward(Cur) ELSE Cur

AfterDrain == RemoveCurrent([queues EXCEPT ![Last] = <<>>])

\* d itself is remembered, not a duplicate
MutSaveAndMove(d, file, opened) ==
  \E new \in {IF opened THEN Lowest(fd) ELSE Failed} :
    /\ saved' = [saved EXCEPT ![d] = d]
    /\ fd' = Become(Put(fd, new, file), d, new)
    /\ lost' = lost

\* Descriptor d is duplicated, then replaced by the file.  Neither the duplicate
\* nor the file (opened or not) is tested.
SaveAndMove(d, file, opened) ==
  \E old \in {Dup(fd, d)} :
  \E table \in {Put(fd, old, fd[d])} :
  \E new \in {IF opened THEN Lowest(table) ELSE Failed} :
    /\ saved' = [saved EXCEPT ![d] = old]
    /\ fd' = Become(Put(table, new, file), d, new)
    /\ lost' = (lost \/ old = Failed)

\* close(d); dup2(old, d); close(old)
Restored(d) == Become(Closing(fd, d), d, saved[d])

redirectInNone ==
  /\ cmd.step = "redirectIn" /\ cmd.in = "NONE"
  /\ cmd' = [cmd EXCEPT !.step = "redirectOut"]
  /\ UNCHANGED <<queues, got, fed, out, files>>

\* The input file is filled from the queue and closed; it may fail to open again.
redirectInOpen(readable) ==
  /\ cmd.step = "redirectIn" /\ cmd.in # "NONE"
  /\ Lowest(fd) # Failed
  /\ fed' = Drained(cmd.in)
  /\ queues' = AfterDrain
  /\ SaveAndMove(0, "in", readable)
  /\ cmd' = [cmd EXCEPT !.step = "redirectOut"]
  /\ UNCHANGED <<got, out>>

\* The input file could not be created: there is nothing to restore later.
MutKeepInputMode == [cmd EXCEPT !.step = "redirectOut"]
WithoutInput == [cmd EXCEPT !.step = "redirectOut", !.in = "NONE"]

redirectInFails ==
  /\ cmd.step = "redirectIn" /\ cmd.in # "NONE"
  /\ cmd' = WithoutInput
  /\ UNCHANGED <<queues, got, fed, out, files>>

redirectOut(created) ==
  /\ cmd.step = "redirectOut"
  /\ IF cmd.out = "NONE" THEN UNCHANGED files
                         ELSE SaveAndMove(1, "out", created)
  /\ cmd' = [cmd EXCEPT !.step = "system"]
  /\ UNCHANGED <<queues, got, fed, out>>

\* The command writes some lines, to the file if descriptor 1 is the file.
Outputs == UNION {[1..n -> Lines] : n \in 0..MaxOutput}

system(written) ==
  /\ cmd.step = "system"
  /\ TotalSize + Len(written) <= MaxQueued
  /\ out' = IF fd[1] = "out" THEN written ELSE <<>>
  /\ cmd' = [cmd EXCEPT !.step = "restoreIn"]
  /\ UNCHANGED <<queues, got, fed, files>>

restoreIn ==
  /\ cmd.step = "restoreIn"
  /\ fd' = IF cmd.in = "NONE" THEN fd ELSE Restored(0)
  /\ cmd' = [cmd EXCEPT !.step = "restoreOut"]
  /\ UNCHANGED <<queues, got, fed, out, saved, lost>>

\* writeDataQueue: the lines of the file join the current queue, the first
\* line of the file first; LIFO pushes each of them, any other mode enqueues.
MutFilled(mode) == IF mode = "LIFO" THEN Cur \o out ELSE out \o Cur
Filled(mode) == IF mode = "LIFO" THEN Cur \o out ELSE Backward(out) \o Cur

\* A descriptor is free for reading the file: 1 is, if it could not be restored.
restoreOut(readable) ==
  /\ cmd.step = "restoreOut"
  /\ IF cmd.out = "NONE"
     THEN UNCHANGED <<queues, fd>>
     ELSE /\ fd' = Restored(1)
          /\ queues' = IF readable /\ ~cmd.toResult
                       THEN [queues EXCEPT ![Last] = Filled(cmd.out)]
                       ELSE queues
  /\ cmd' = Idle
  /\ saved' = NoneSaved
  /\ fed' = <<>> /\ out' = <<>>
  /\ UNCHANGED <<got, lost>>

-----------------------------------------------------------------------------
\* StdFileStreamBuf::open and close, for any other stream of the program.
openStream ==
  /\ cmd.step = "idle" /\ Lowest(fd) # Failed
  /\ fd' = Put(fd, Lowest(fd), "stream")
  /\ UNCHANGED <<queues, got, fed, out, cmd, saved, lost>>

closeStream ==
  /\ cmd.step = "idle"
  /\ \E d \in Descriptors : fd[d] = "stream" /\ fd' = Closing(fd, d)
  /\ UNCHANGED <<queues, got, fed, out, cmd, saved, lost>>

-----------------------------------------------------------------------------
Program ==
  \/ \E l \in Lines : enqueue(l) \/ push(l)
  \/ pullLine \/ pullConsole \/ addDataQueue
  \/ \E n \in DropArgs : removeDataQueues(n)
  \/ openStream \/ closeStream

Command ==
  \/ \E i, o \in Modes : processCommand(i, o)
  \/ \E slotIsEmpty \in BOOLEAN : processCall(slotIsEmpty)
  \/ redirectInNone \/ redirectInFails \/ restoreIn
  \/ \E ok \in BOOLEAN : redirectInOpen(ok) \/ redirectOut(ok) \/ restoreOut(ok)
  \/ \E written \in Outputs : system(written)

Next == Program \/ Command

Spec == Init /\ [][Next]_vars

-----------------------------------------------------------------------------
(***************************************************************************)
(* Properties.                                                             *)
(***************************************************************************)
TypeOK ==
  /\ queues \in Seq(Seq(Lines))
  /\ got \in Lines \cup {Console}
  /\ fed \in Seq(Lines) /\ out \in Seq(Lines)
  /\ cmd \in [step : Steps, in : Modes, out : Modes, toResult : BOOLEAN]
  /\ fd \in [Descriptors -> Ends]
  /\ saved \in [{0, 1} -> Descriptors \cup {Failed}]
  /\ \A d \in {0, 1} : saved[d] # d     \* a duplicate of d is another descriptor
  /\ lost \in BOOLEAN

\* Every operation dereferences getLast() without a test: the first queue is
\* never removed, by any sequence of PULL, DROPBUF(n) and redirections
\* (removeDataQueues "except the first one", pull, readDataQueue).
BaseQueueStays == queues # <<>>

\* After a command, whichever of its files could not be made or opened,
\* descriptors 0 and 1 are the console's again, and every other one is free or
\* a stream's: SAY and PULL would otherwise use a deleted file, or nothing, and
\* commands would in the end use up the table.  Unless a dup has failed, since
\* the table was full: execCommand then closes what it could not save.
ConsoleRestored ==
  cmd.step = "idle" /\ ~lost =>
    \A d \in Descriptors : IF d \in {0, 1} THEN fd[d] = "console"
                                           ELSE fd[d] \in {"stream", "closed"}

\* The order and the buffers a program sees: the lists implement RexxQueue,
\* where there is one queue of lines in PULL order, cut into buffers.
Joined(qs) == LET flat[i \in 0..Len(qs)] ==
                    IF i = 0 THEN <<>> ELSE Backward(qs[i]) \o flat[i-1]
              IN  flat[Len(qs)]
Sizes(qs)  == [i \in 1..Len(qs) |-> Len(qs[Len(qs) + 1 - i])]

Queue == INSTANCE RexxQueue WITH
           lines  <- Joined(queues),
           sizes  <- Sizes(queues),
           feed   <- cmd.in,
           collect <- cmd.out,
           wrote  <- out,
           NoLine <- Console

ImplementsRexxQueue == Queue!Spec
==============================================================================
