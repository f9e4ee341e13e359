------------------------------- MODULE Speech -------------------------------
(***************************************************************************)
(* Speech of the Android application: the Speaker that REXX writes to      *)
(* (Speaker.java) and the service that talks to the text-to-speech engine  *)
(* (Speech.java).                                                          *)
(*                                                                         *)
(* Four actors: "rexx", the interpreter thread, says things; the main      *)
(* thread runs one callback at a time: the life of the service, of the     *)
(* connection and of the activity, and the answer of the engine; the worker*)
(* thread of the service handles the messages; the engine speaks.  The     *)
(* model is one life of a Speaker and of the service it starts.            *)
(*                                                                         *)
(* m_isAlive and m_speech are read without the lock that guards their      *)
(* writes: until it takes that lock, rexx may read their old values.  So   *)
(* may the worker, of m_isInited and m_isTtsAvailable, until it takes the  *)
(* lock of the engine's answer, or a message after one the main thread sent*)
(* since the answer; and the two are not written at once.                  *)
(*                                                                         *)
(* Definitions named Mut... are wrong variants of the one that follows.    *)
(***************************************************************************)
EXTENDS Integers, SequencesExt

CONSTANT MaxSaid    \* bound: things REXX says

ASSUME MaxSaidAssumption == MaxSaid \in Nat

VARIABLES
  ready, closed,    \* Speaker: onSpeechReady has run; close has reset m_isAlive
  queue,            \* Speaker.m_msgQueue
  synced,           \* rexx took the lock after onSpeechReady: it sees its writes
  rexx, said,       \* where rexx is; how many things were said
  main,             \* where the main thread is
  bound, stopped,   \* the service has a client; the activity was stopped
  worker, hand,     \* where the worker is; the message it handles
  handler,          \* m_serviceHandler is set
  created,          \* onCreate has returned
  closeRequested,   \* m_isCloseRequested
  inited, tts,      \* m_isInited; the engine ("ok" is m_isTtsAvailable)
  seen,             \* the worker is sure to see the answer; or will be ("sent")
  somethingSaid,    \* m_isSomethingSaid
  msgs, quit,       \* the messages of the looper; it was told to quit
  engine, spoken,   \* what the engine has to speak; what it spoke
  overtaken,        \* of the past: a say was sent while older ones were queued
  dropped           \* of the past: what the worker took the engine for unavailable for

speakerVars == <<ready, closed, queue, synced>>
clientVars  == <<bound, stopped>>
workerVars  == <<worker, hand, handler, somethingSaid, seen, dropped>>
ttsVars     == <<inited, tts>>
lifeVars    == <<created, closeRequested>>
vars == <<speakerVars, rexx, said, main, clientVars, workerVars, lifeVars, ttsVars,
          msgs, quit, engine, spoken, overtaken>>

Close == 0     \* the message CLOSE, and its empty utterance; a SPEAK is its number
None  == -1

\* The Speaker is built: it has asked for the service.
Init ==
  /\ ready = FALSE /\ closed = FALSE /\ queue = << >> /\ synced = FALSE
  /\ rexx = "idle" /\ said = 0 /\ main = "idle"
  /\ bound = TRUE /\ stopped = FALSE
  /\ worker = "none" /\ hand = None /\ handler = FALSE /\ somethingSaid = FALSE
  /\ created = FALSE /\ closeRequested = FALSE
  /\ inited = FALSE /\ tts = "none" /\ seen = "no"
  /\ msgs = << >> /\ quit = FALSE /\ engine = << >> /\ spoken = << >>
  /\ overtaken = FALSE /\ dropped = {}

\* Handler.sendMessage: a looper that was told to quit takes no more.
Sent(m) == IF quit THEN msgs ELSE Append(msgs, m)

\* The looper's queue has a lock: what main wrote before it sent a message, the worker
\* sees once it has taken one.
Answered   == tts \in {"ok", "failed"}
SeenIfSent == IF Answered /\ seen = "no" THEN "sent" ELSE seen

-----------------------------------------------------------------------------
(***************************************************************************)
(* Speaker.say, on the interpreter thread.                                 *)
(***************************************************************************)
\* What a read of m_isAlive may return to rexx when it has (or has not) synchronised
\* with onSpeechReady; close writes without the lock.
AliveRead(withReady) == IF withReady THEN {TRUE, ~closed} ELSE {FALSE, ready}

Say ==
  /\ rexx = "idle" /\ said < MaxSaid
  /\ said' = said + 1
  /\ \E alive \in AliveRead(synced) : rexx' = IF alive THEN "send" ELSE "lock"
  /\ UNCHANGED <<speakerVars, main, clientVars, workerVars, lifeVars, ttsVars,
                 msgs, quit, engine, spoken, overtaken>>

\* The second look at m_isAlive, with the lock (main has it while it drains the queue).
SayLocked ==
  /\ rexx = "lock" /\ main # "drain"
  /\ synced' = ready
  /\ \E alive \in AliveRead(ready) :
       IF alive THEN rexx' = "send" /\ queue' = queue
       ELSE rexx' = "idle" /\ queue' = Append(queue, said)
  /\ UNCHANGED <<ready, closed, said, main, clientVars, workerVars, lifeVars, ttsVars,
                 msgs, quit, engine, spoken, overtaken>>

\* Without the lock, m_speech may still be read as null: the exception loses the message.
SaySend ==
  /\ rexx = "send" /\ rexx' = "idle"
  /\ \/ msgs' = Sent(said)
     \/ ~synced /\ msgs' = msgs
  /\ overtaken' = (overtaken \/ queue # << >>)
  /\ UNCHANGED <<speakerVars, said, main, clientVars, workerVars, lifeVars, ttsVars,
                 quit, engine, spoken>>

-----------------------------------------------------------------------------
(***************************************************************************)
(* The main thread: the service is created, connected, and its queue       *)
(* drained.                                                                *)
(***************************************************************************)
\* onCreate starts the worker and waits for its notification.
OnCreate ==
  /\ main = "idle" /\ bound /\ worker = "none"
  /\ main' = "create" /\ worker' = "run"
  /\ UNCHANGED <<speakerVars, rexx, said, clientVars, hand, handler, somethingSaid, seen,
                 dropped, lifeVars, ttsVars, msgs, quit, engine, spoken, overtaken>>

\* onServiceConnected calls onSpeechReady, which takes the lock.
OnSpeechReady ==
  /\ main = "idle" /\ bound /\ created /\ ~ready
  /\ main' = "drain" /\ ready' = TRUE
  /\ UNCHANGED <<closed, queue, synced, rexx, said, clientVars, workerVars, lifeVars, ttsVars,
                 msgs, quit, engine, spoken, overtaken>>

\* The message is sent and left in the queue when it is the last one.
MutDrain ==
  /\ main = "drain"
  /\ IF queue = << >> THEN main' = "idle" /\ UNCHANGED <<queue, msgs, seen>>
     ELSE /\ msgs' = Sent(Head(queue)) /\ seen' = SeenIfSent
          /\ IF Len(queue) > 1 THEN queue' = Tail(queue) /\ main' = main
             ELSE queue' = queue /\ main' = "idle"
  /\ UNCHANGED <<ready, closed, synced, rexx, said, clientVars, worker, hand, handler,
                 somethingSaid, dropped, lifeVars, ttsVars, quit, engine, spoken, overtaken>>

Drain ==
  /\ main = "drain"
  /\ IF queue = << >> THEN main' = "idle" /\ UNCHANGED <<queue, msgs, seen>>
     ELSE main' = main /\ queue' = Tail(queue) /\ msgs' = Sent(Head(queue)) /\ seen' = SeenIfSent
  /\ UNCHANGED <<ready, closed, synced, rexx, said, clientVars, worker, hand, handler,
                 somethingSaid, dropped, lifeVars, ttsVars, quit, engine, spoken, overtaken>>

-----------------------------------------------------------------------------
(***************************************************************************)
(* The activity stops: Speaker.close unbinds, but only when connected;     *)
(* otherwise Android unbinds when it destroys the activity.                *)
(***************************************************************************)
Stop ==
  /\ main = "idle" /\ ~stopped
  /\ stopped' = TRUE
  /\ closed' = ready /\ bound' = ~ready
  /\ UNCHANGED <<ready, queue, synced, rexx, said, main, workerVars, lifeVars, ttsVars,
                 msgs, quit, engine, spoken, overtaken>>

Unbind ==
  /\ main = "idle" /\ stopped /\ bound
  /\ bound' = FALSE
  /\ UNCHANGED <<speakerVars, rexx, said, main, stopped, workerVars, lifeVars, ttsVars,
                 msgs, quit, engine, spoken, overtaken>>

\* onDestroy sends CLOSE and waits, 10 seconds at most.
OnDestroy ==
  /\ main = "idle" /\ created /\ ~bound /\ ~closeRequested
  /\ closeRequested' = TRUE /\ main' = "destroy"
  /\ msgs' = Sent(Close) /\ seen' = SeenIfSent
  /\ UNCHANGED <<speakerVars, rexx, said, clientVars, worker, hand, handler, somethingSaid,
                 dropped, created, ttsVars, quit, engine, spoken, overtaken>>

\* The wait has no limit: only the end of the worker stops it.
MutDestroyTimeout ==
  /\ main = "destroy" /\ main' = "idle" /\ worker = "done"
  /\ UNCHANGED <<speakerVars, rexx, said, clientVars, workerVars, lifeVars, ttsVars,
                 msgs, quit, engine, spoken, overtaken>>

DestroyTimeout ==
  /\ main = "destroy" /\ main' = "idle"
  /\ UNCHANGED <<speakerVars, rexx, said, clientVars, workerVars, lifeVars, ttsVars,
                 msgs, quit, engine, spoken, overtaken>>

\* notifyAll on m_lock; the worker, if it waits on it too, looks at m_isInited again.
Notified == IF main = "destroy" THEN "idle" ELSE main

\* onInit, the answer of the engine, comes on the main thread, which takes the lock and
\* sets m_isInited...
OnInit ==
  /\ main = "idle" /\ tts = "connecting"
  /\ main' = "answer" /\ inited' = TRUE
  /\ UNCHANGED <<speakerVars, rexx, said, clientVars, workerVars, lifeVars, tts,
                 msgs, quit, engine, spoken, overtaken>>

\* ... then m_isTtsAvailable if the engine is there, notifies and leaves the lock.
OnInitDone ==
  /\ main = "answer" /\ main' = "idle"
  /\ tts' \in {"ok", "failed"}
  /\ UNCHANGED <<speakerVars, rexx, said, clientVars, workerVars, lifeVars, inited,
                 msgs, quit, engine, spoken, overtaken>>

-----------------------------------------------------------------------------
(***************************************************************************)
(* The worker thread: run and handleMessage.                               *)
(***************************************************************************)
\* The notification is sent before the handler exists.
MutRunHandler ==
  /\ worker = "run" /\ worker' = "notify" /\ handler' = handler
  /\ UNCHANGED <<speakerVars, rexx, said, main, clientVars, hand, somethingSaid, seen, dropped,
                 lifeVars, ttsVars, msgs, quit, engine, spoken, overtaken>>

RunHandler ==
  /\ worker = "run" /\ worker' = "notify" /\ handler' = TRUE
  /\ UNCHANGED <<speakerVars, rexx, said, main, clientVars, hand, somethingSaid, seen, dropped,
                 lifeVars, ttsVars, msgs, quit, engine, spoken, overtaken>>

\* onCreate is notified when the engine has answered.
MutRunNotify ==
  /\ worker = "notify" /\ main = "create" /\ inited
  /\ worker' = "tts" /\ main' = "idle" /\ created' = TRUE
  /\ UNCHANGED <<speakerVars, rexx, said, clientVars, hand, handler, somethingSaid,
                 seen, dropped, closeRequested, ttsVars, msgs, quit, engine, spoken, overtaken>>

\* onCreate holds the lock until it waits: the notification finds it waiting.
RunNotify ==
  /\ worker = "notify" /\ main = "create"
  /\ worker' = "tts" /\ main' = "idle" /\ created' = TRUE
  /\ UNCHANGED <<speakerVars, rexx, said, clientVars, hand, handler, somethingSaid,
                 seen, dropped, closeRequested, ttsVars, msgs, quit, engine, spoken, overtaken>>

\* new TextToSpeech: the answer comes later, or the constructor calls onInit at once
\* because there is no engine.
RunTtsLater ==
  /\ worker = "tts" /\ worker' = "loop" /\ tts' = "connecting"
  /\ UNCHANGED <<speakerVars, rexx, said, main, clientVars, hand, handler, somethingSaid, seen,
                 dropped, lifeVars, inited, msgs, quit, engine, spoken, overtaken>>

\* The answer at once is taken for none.
MutRunTtsFails ==
  /\ worker = "tts" /\ worker' = "loop" /\ main' = Notified
  /\ tts' = "failed" /\ seen' = "yes"
  /\ UNCHANGED <<speakerVars, rexx, said, clientVars, hand, handler, somethingSaid,
                 dropped, lifeVars, inited, msgs, quit, engine, spoken, overtaken>>

RunTtsFails ==
  /\ worker = "tts" /\ worker' = "loop" /\ main' = Notified
  /\ tts' = "failed" /\ inited' = TRUE /\ seen' = "yes"
  /\ UNCHANGED <<speakerVars, rexx, said, clientVars, hand, handler, somethingSaid,
                 dropped, lifeVars, msgs, quit, engine, spoken, overtaken>>

LoopNext ==
  /\ worker = "loop" /\ ~quit /\ msgs # << >>
  /\ worker' = "handle" /\ hand' = Head(msgs) /\ msgs' = Tail(msgs)
  /\ seen' = IF seen = "sent" THEN "yes" ELSE seen
  /\ UNCHANGED <<speakerVars, rexx, said, main, clientVars, handler, somethingSaid, dropped,
                 lifeVars, ttsVars, quit, engine, spoken, overtaken>>

\* A field that onInit sets may be read as FALSE: the field is v.
ReadFalse(v) == ~v \/ seen # "yes"

\* m_isInited is read without the lock: as FALSE, the worker takes the lock...
HandleWait ==
  /\ worker = "handle" /\ ReadFalse(inited)
  /\ worker' = "await"
  /\ UNCHANGED <<speakerVars, rexx, said, main, clientVars, hand, handler, somethingSaid, seen,
                 dropped, lifeVars, ttsVars, msgs, quit, engine, spoken, overtaken>>

\* ... waits, and has it again when onInit has left it.
HandleInited ==
  /\ worker = "await" /\ inited /\ main # "answer"
  /\ worker' = "handle" /\ seen' = "yes"
  /\ UNCHANGED <<speakerVars, rexx, said, main, clientVars, hand, handler, somethingSaid,
                 dropped, lifeVars, ttsVars, msgs, quit, engine, spoken, overtaken>>

\* As TRUE, the message is handled.
InitedRead == worker = "handle" /\ inited

\* CLOSE quits at once.
MutHandleClose ==
  /\ InitedRead /\ hand = Close
  /\ worker' = "loop" /\ hand' = None
  /\ quit' = TRUE /\ msgs' = << >> /\ engine' = engine
  /\ UNCHANGED <<speakerVars, rexx, said, main, clientVars, handler, somethingSaid, seen,
                 dropped, lifeVars, ttsVars, spoken, overtaken>>

\* CLOSE: after an empty utterance when something was said.
HandleClose ==
  /\ InitedRead /\ hand = Close
  /\ worker' = "loop" /\ hand' = None
  /\ IF somethingSaid
       THEN engine' = Append(engine, Close) /\ UNCHANGED <<quit, msgs>>
       ELSE quit' = TRUE /\ msgs' = << >> /\ engine' = engine
  /\ UNCHANGED <<speakerVars, rexx, said, main, clientVars, handler, somethingSaid, seen,
                 dropped, lifeVars, ttsVars, spoken, overtaken>>

\* SPEAK: m_isTtsAvailable is read next; as FALSE, nothing is spoken.
HandleSpeak ==
  /\ InitedRead /\ hand # Close
  /\ worker' = "loop" /\ hand' = None
  /\ \/ /\ tts = "ok"
        /\ engine' = Append(engine, hand) /\ somethingSaid' = TRUE /\ dropped' = dropped
     \/ /\ ReadFalse(tts = "ok")
        /\ dropped' = dropped \union {hand} /\ UNCHANGED <<engine, somethingSaid>>
  /\ UNCHANGED <<speakerVars, rexx, said, main, clientVars, handler, seen, lifeVars, ttsVars,
                 msgs, quit, spoken, overtaken>>

\* The looper has quit: the engine is stopped and onDestroy is notified.
RunEnd ==
  /\ worker = "loop" /\ quit /\ main # "answer"
  /\ worker' = "done" /\ engine' = << >> /\ main' = Notified
  /\ UNCHANGED <<speakerVars, rexx, said, clientVars, hand, handler, somethingSaid, seen, dropped,
                 lifeVars, ttsVars, msgs, quit, spoken, overtaken>>

\* The engine (external): the end of the empty utterance quits the looper, whose
\* messages are dropped.
Speak ==
  /\ engine # << >> /\ engine' = Tail(engine)
  /\ IF Head(engine) = Close THEN quit' = TRUE /\ msgs' = << >> /\ spoken' = spoken
     ELSE spoken' = Append(spoken, Head(engine)) /\ UNCHANGED <<quit, msgs>>
  /\ UNCHANGED <<speakerVars, rexx, said, main, clientVars, workerVars, lifeVars, ttsVars,
                 overtaken>>

-----------------------------------------------------------------------------
Rexx   == SayLocked \/ SaySend
Main   == OnCreate \/ OnSpeechReady \/ Drain \/ OnDestroy \/ DestroyTimeout
          \/ OnInit \/ OnInitDone
Worker == RunHandler \/ RunNotify \/ RunTtsLater \/ RunTtsFails \/ LoopNext
          \/ HandleWait \/ HandleInited \/ HandleClose \/ HandleSpeak \/ RunEnd

Next == Say \/ Rexx \/ Main \/ Stop \/ Unbind \/ Worker \/ Speak

\* Threads and the main queue go on, a timed wait ends, and the engine answers and
\* speaks.  The script need not say anything, nor the user leave.
Spec ==
  /\ Init /\ [][Next]_vars
  /\ WF_vars(Rexx) /\ WF_vars(Main) /\ WF_vars(Worker) /\ WF_vars(Speak)

-----------------------------------------------------------------------------
(***************************************************************************)
(* Properties.                                                             *)
(***************************************************************************)
Msgs == 0..MaxSaid

\* The shape of the state.
TypeOK ==
  /\ {ready, closed, synced, bound, stopped, handler, created, closeRequested, inited,
      somethingSaid, quit, overtaken} \subseteq BOOLEAN
  /\ rexx \in {"idle", "lock", "send"} /\ said \in Msgs
  /\ main \in {"idle", "create", "drain", "destroy", "answer"}
  /\ worker \in {"none", "run", "notify", "tts", "loop", "handle", "await", "done"}
  /\ hand \in Msgs \union {None}
  /\ tts \in {"none", "connecting", "ok", "failed"}
  /\ queue \in Seq(Msgs) /\ msgs \in Seq(Msgs) /\ engine \in Seq(Msgs) /\ spoken \in Seq(Msgs)
  /\ seen \in {"no", "sent", "yes"} /\ dropped \subseteq Msgs
  /\ main = "answer" => tts = "connecting"
  /\ inited <=> Answered \/ main = "answer"
  /\ seen # "no" => Answered
  /\ hand # None <=> worker \in {"handle", "await"}

\* A Speaker that was told the service is ready has its handler, and a message is only
\* handled with a text-to-speech object (Speech.java:61-69, 161-168; Speaker.java:85-89).
HandlerReady ==
  /\ created \/ ready => handler
  /\ worker \in {"loop", "handle", "await", "done"} => tts # "none"

\* All that was said and not lost, the oldest first.
InHand   == IF hand = None THEN << >> ELSE <<hand>>
Saying   == IF rexx = "idle" THEN << >> ELSE <<said>>
Pipeline == spoken \o (engine \o (InHand \o (msgs \o (queue \o Saying))))

\* Nothing is spoken twice; and things are spoken in the order they were said, unless a
\* say was sent while older ones were still in the queue (Speaker.java:51-66, 85-97).
SpokenInOrder ==
  \A i, j \in DOMAIN Pipeline :
    i < j /\ Pipeline[i] # Close /\ Pipeline[j] # Close =>
      Pipeline[i] # Pipeline[j] /\ (overtaken \/ Pipeline[i] < Pipeline[j])

\* What was sent before the service was to close is spoken to the end, though the queue
\* of the looper and the engine are dropped at that time, and though onDestroy may have
\* stopped waiting (Speech.java:194-214, 168-171).  Unless it was handled before the
\* worker was sure to see both fields that the engine's answer sets, and found the first
\* set but not the second (Speech.java:179, 188, 224-226).
SpokenInFull ==
  \A m \in 1..MaxSaid :
    /\ (Contains(msgs, m) /\ ~closeRequested) ~>
         (Contains(spoken, m) \/ tts = "failed" \/ m \in dropped)
    /\ (Contains(msgs, m) /\ ~closeRequested /\ seen = "yes") ~>
         (Contains(spoken, m) \/ tts = "failed")

\* The main thread is never stuck: not in onCreate, which waits for the worker without
\* limit (Speech.java:61-68, 161-164), nor in onDestroy.
MainReturns == (main # "idle") ~> (main = "idle")

\* A worker that was asked to close ends, even when the answer of the engine it waits
\* for needs the thread that waits for it (Speech.java:84-88, 179-186, 222-230).
WorkerEnds == closeRequested ~> (worker = "done")

=============================================================================
