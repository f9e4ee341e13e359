------------------------------ MODULE RexxQueue ------------------------------
(***************************************************************************)
(* What a Rexx program may rely on of the external data queue: ONE queue   *)
(* of lines in the order PULL hands them out, cut into buffers by          *)
(* MAKEBUF().  sizes[1] is the current (most recent) buffer; the last      *)
(* element of sizes is the buffer that always exists.  DataQueueMgr.tla is *)
(* the linked lists of the code, and implements this specification.        *)
(***************************************************************************)
EXTENDS Integers, Sequences

CONSTANTS Lines,  \* what a program can put on the queue
          NoLine  \* nothing was handed out yet

VARIABLES lines,   \* every queued line, in PULL order
          sizes,   \* the length of each buffer, the current one first
          got,     \* the line the last PULL took from the queue
          feed,    \* the queue mode of the running command's input
          collect, \* the queue mode of its output
          fed,     \* the lines it is given
          wrote    \* the lines it has written

queue   == <<lines, sizes, got>>
command == <<feed, collect, fed, wrote>>
qvars   == <<queue, command>>

Modes == {"NONE", "FIFO", "LIFO"}

Backwards(s) == [i \in 1..Len(s) |-> s[Len(s) + 1 - i]]

Sum(s) == LET sum[i \in 0..Len(s)] == IF i = 0 THEN 0 ELSE sum[i-1] + s[i]
          IN  sum[Len(s)]

Current == SubSeq(lines, 1, sizes[1])
Older   == SubSeq(lines, sizes[1] + 1, Len(lines))

\* The buffers that are left once the current one is given up: the base
\* buffer is never given up, it is only emptied.
GiveUp == IF Len(sizes) > 1 THEN Tail(sizes) ELSE <<0>>

Init == /\ lines = <<>> /\ sizes = <<0>> /\ got = NoLine
        /\ feed = "NONE" /\ collect = "NONE" /\ fed = <<>> /\ wrote = <<>>

\* PUSH: the line becomes the first that PULL will see.
Push(l) ==
  /\ lines' = <<l>> \o lines
  /\ sizes' = [sizes EXCEPT ![1] = @ + 1]
  /\ UNCHANGED <<got, command>>

\* QUEUE: after the lines of the current buffer, before those of older ones.
Queue(l) ==
  /\ lines' = Current \o <<l>> \o Older
  /\ sizes' = [sizes EXCEPT ![1] = @ + 1]
  /\ UNCHANGED <<got, command>>

\* PULL with a line in the current buffer; a buffer that becomes empty goes.
Pull ==
  /\ sizes[1] > 0
  /\ got' = Head(lines)
  /\ lines' = Tail(lines)
  /\ sizes' = IF sizes[1] = 1 THEN GiveUp ELSE [sizes EXCEPT ![1] = @ - 1]
  /\ UNCHANGED command

MakeBuf == sizes' = <<0>> \o sizes /\ UNCHANGED <<lines, got, command>>

\* DROPBUF(n), DESBUF(): the k most recent buffers go, with their lines.
DropBuf ==
  /\ \E k \in 1..Len(sizes) :
       LET gone == Sum(SubSeq(sizes, 1, k))
       IN  /\ lines' = SubSeq(lines, gone + 1, Len(lines))
           /\ sizes' = IF k = Len(sizes) THEN <<0>>
                       ELSE SubSeq(sizes, k + 1, Len(sizes))
  /\ UNCHANGED <<got, command>>

\* A command begins: how it is fed and how its output is collected.
Begin == /\ feed' \in Modes /\ collect' \in Modes
         /\ UNCHANGED <<queue, fed, wrote>>

\* "LIFO>cmd" gives cmd the current buffer in PULL order, "FIFO>cmd" in the
\* opposite order; the buffer is given up.
Feed ==
  /\ feed # "NONE"
  /\ fed' = IF feed = "LIFO" THEN Current ELSE Backwards(Current)
  /\ lines' = Older
  /\ sizes' = GiveUp
  /\ UNCHANGED <<got, feed, collect, wrote>>

\* The command cannot be fed: the queue keeps its lines.
NotFed == feed' = "NONE" /\ UNCHANGED <<queue, collect, fed, wrote>>

CONSTANT MaxOutput  \* the longest output of a command
Outputs == UNION {[1..n -> Lines] : n \in 0..MaxOutput}

Write == wrote' \in Outputs /\ UNCHANGED <<queue, feed, collect, fed>>

\* "cmd>FIFO" queues the lines cmd wrote in the order it wrote them, "cmd>LIFO"
\* stacks them: either way they join the current buffer as one block.
Collected == CASE collect = "FIFO" -> Current \o wrote \o Older
               [] collect = "LIFO" -> Backwards(wrote) \o lines

\* The command ends; what it wrote is collected, or is the result of a call or
\* lost.
End ==
  /\ \/ UNCHANGED <<lines, sizes>>
     \/ /\ collect # "NONE"
        /\ lines' = Collected
        /\ sizes' = [sizes EXCEPT ![1] = @ + Len(wrote)]
  /\ feed' = "NONE" /\ collect' = "NONE" /\ fed' = <<>> /\ wrote' = <<>>
  /\ UNCHANGED got

\* PULL with an empty current buffer: the line is typed at the console.
PullConsole == sizes[1] = 0 /\ got' = NoLine /\ UNCHANGED <<lines, sizes, command>>

Next ==
  \/ \E l \in Lines : Push(l) \/ Queue(l)
  \/ Pull \/ PullConsole \/ MakeBuf \/ DropBuf
  \/ Begin \/ Feed \/ NotFed \/ Write \/ End

Spec == Init /\ [][Next]_qvars
==============================================================================
