---------------------------- MODULE SpeechProofs ----------------------------
(***************************************************************************)
(* Theorems about Speech, for any number of things said.                   *)
(***************************************************************************)
EXTENDS Speech, SequenceTheorems, TLAPS

-----------------------------------------------------------------------------
(***************************************************************************)
(* Types, and the start of the service: what the worker has passed.        *)
(***************************************************************************)
\* What is said but not yet: everything in the pipeline is a number up to `said`.
Said == 0..said

TypeInv ==
  /\ ready \in BOOLEAN /\ closed \in BOOLEAN /\ synced \in BOOLEAN /\ bound \in BOOLEAN
  /\ stopped \in BOOLEAN /\ handler \in BOOLEAN /\ created \in BOOLEAN
  /\ closeRequested \in BOOLEAN /\ inited \in BOOLEAN /\ somethingSaid \in BOOLEAN
  /\ quit \in BOOLEAN /\ overtaken \in BOOLEAN
  /\ rexx \in {"idle", "lock", "send"} /\ said \in 0..MaxSaid
  /\ main \in {"idle", "create", "drain", "destroy", "answer"}
  /\ worker \in {"none", "run", "notify", "tts", "loop", "handle", "await", "done"}
  /\ tts \in {"none", "connecting", "ok", "failed"}
  /\ seen \in {"no", "sent", "yes"} /\ dropped \subseteq Said
  /\ hand \in Said \union {None}
  /\ queue \in Seq(Said) /\ msgs \in Seq(Said) /\ engine \in Seq(Said) /\ spoken \in Seq(Said)

StartInv ==
  /\ handler <=> worker \notin {"none", "run"}
  /\ created => handler
  /\ ready => created
  /\ worker \in {"none", "run", "notify", "tts"} <=> tts = "none"
  /\ main = "answer" => tts = "connecting"
  /\ inited <=> tts \in {"ok", "failed"} \/ main = "answer"
  /\ seen # "no" => tts \in {"ok", "failed"}
  /\ hand # None <=> worker \in {"handle", "await"}

LEMMA TypeInit == Init => TypeInv /\ StartInv
<1> SUFFICES ASSUME Init PROVE TypeInv /\ StartInv
  OBVIOUS
<1>1. said \in 0..MaxSaid /\ hand \in Said \union {None}
  BY MaxSaidAssumption DEF Init, Said
<1>2. queue \in Seq(Said) /\ msgs \in Seq(Said) /\ engine \in Seq(Said) /\ spoken \in Seq(Said)
  BY EmptySeq DEF Init
<1>3. QED BY <1>1, <1>2 DEF Init, TypeInv, StartInv

\* The looper takes a message, unless it has quit.
LEMMA SentTyped ==
  ASSUME NEW S, msgs \in Seq(S), NEW m \in S
  PROVE  Sent(m) \in Seq(S)
BY AppendProperties DEF Sent

\* The sending of a message leaves the worker's sight of the answer a state of it, and
\* an answer it sees is there.
LEMMA SeenTyped ==
  ASSUME seen \in {"no", "sent", "yes"}
  PROVE  SeenIfSent \in {"no", "sent", "yes"} /\ (SeenIfSent # seen => tts \in {"ok", "failed"})
BY DEF SeenIfSent, Answered

\* The messages, when one more thing is said.
LEMMA SaidGrows ==
  ASSUME said \in Nat, NEW s \in Seq(Said)
  PROVE  s \in Seq(0..(said + 1))
<1>1. \A i \in 1..Len(s) : s[i] \in 0..(said + 1)
  BY ElementOfSeq DEF Said
<1>2. QED BY <1>1, LenProperties, SeqDef

LEMMA TypeRexx ==
  ASSUME TypeInv, Say \/ SayLocked \/ SaySend
  PROVE  TypeInv'
<1>0. said \in 0..MaxSaid /\ MaxSaid \in Nat /\ said \in Said
  BY MaxSaidAssumption DEF TypeInv, Said
<1>1. CASE Say
  <2>1. said' = said + 1 /\ said' \in 0..MaxSaid /\ Said' = 0..(said + 1)
    BY <1>0, <1>1 DEF Say, Said
  <2>2. /\ queue \in Seq(0..(said + 1)) /\ msgs \in Seq(0..(said + 1))
        /\ engine \in Seq(0..(said + 1)) /\ spoken \in Seq(0..(said + 1))
    BY <1>0, SaidGrows DEF TypeInv
  <2>3. queue' \in Seq(Said') /\ msgs' \in Seq(Said') /\ engine' \in Seq(Said') /\ spoken' \in Seq(Said')
    BY <1>1, <2>1, <2>2 DEF Say, speakerVars
  <2>4. hand' \in Said' \union {None}
    BY <1>0, <1>1, <2>1 DEF Say, TypeInv, workerVars, Said
  <2>5. rexx' \in {"idle", "lock", "send"}
    BY <1>1 DEF Say
  <2>6. dropped' \subseteq Said'
    BY <1>0, <1>1, <2>1 DEF Say, TypeInv, workerVars, Said
  <2>7. QED
    BY <1>1, <2>1, <2>3, <2>4, <2>5, <2>6
    DEF Say, TypeInv, speakerVars, clientVars, workerVars, lifeVars, ttsVars
<1>2. CASE SayLocked
  <2>1. /\ queue' = queue \/ queue' = Append(queue, said)
        /\ rexx' \in {"idle", "lock", "send"} /\ said' = said
    BY <1>2 DEF SayLocked
  <2>2. queue' \in Seq(Said) /\ Said' = Said
    <3>1. queue \in Seq(Said)
      BY DEF TypeInv
    <3>2. Append(queue, said) \in Seq(Said)
      BY <1>0, <3>1, AppendProperties
    <3>3. QED BY <2>1, <3>1, <3>2 DEF Said
  <2>3. synced' \in BOOLEAN
    BY <1>2, Zenon DEF SayLocked, TypeInv
  <2>4. QED
    BY <1>2, <2>1, <2>2, <2>3 DEF SayLocked, TypeInv, clientVars, workerVars, lifeVars, ttsVars
<1>3. CASE SaySend
  <2>1. msgs' \in Seq(Said) /\ Said' = Said
    BY <1>0, <1>3, SentTyped DEF SaySend, TypeInv, Said
  <2>2. overtaken' \in BOOLEAN /\ rexx' \in {"idle", "lock", "send"}
    BY <1>3 DEF SaySend, TypeInv
  <2>3. QED
    BY <1>3, <2>1, <2>2 DEF SaySend, TypeInv, speakerVars, clientVars, workerVars, lifeVars, ttsVars
<1>4. QED BY <1>1, <1>2, <1>3

LEMMA TypeMain ==
  ASSUME TypeInv, Main \/ Stop \/ Unbind
  PROVE  TypeInv'
<1>0. Close \in Said /\ Said' = Said
  BY DEF TypeInv, Said, Close, Main, OnCreate, OnSpeechReady, Drain, OnDestroy, DestroyTimeout,
     OnInit, OnInitDone,
     Stop, Unbind
<1>1. CASE Drain
  <2>1. CASE queue = << >>
    BY <1>0, <1>1, <2>1
    DEF Drain, TypeInv, clientVars, workerVars, lifeVars, ttsVars
  <2>2. CASE queue # << >>
    <3>1. queue' \in Seq(Said) /\ msgs' \in Seq(Said) /\ main' = main
      BY <1>1, <2>2, HeadTailProperties, SentTyped DEF Drain, TypeInv
    <3>2. seen' \in {"no", "sent", "yes"}
      BY <1>1, SeenTyped DEF Drain, TypeInv
    <3>3. QED BY <1>0, <1>1, <3>1, <3>2 DEF Drain, TypeInv, clientVars, workerVars, lifeVars,
       ttsVars
  <2>3. QED BY <2>1, <2>2
<1>2. CASE OnDestroy
  <2>1. msgs' \in Seq(Said)
    BY <1>0, <1>2, SentTyped DEF OnDestroy, TypeInv
  <2>2. seen' \in {"no", "sent", "yes"}
    BY <1>2, SeenTyped DEF OnDestroy, TypeInv
  <2>3. QED BY <1>0, <1>2, <2>1, <2>2 DEF OnDestroy, TypeInv, speakerVars, clientVars, workerVars,
     ttsVars
<1>3. CASE OnCreate
  BY <1>0, <1>3 DEF OnCreate, TypeInv, speakerVars, clientVars, lifeVars, ttsVars
<1>4. CASE OnSpeechReady
  BY <1>0, <1>4 DEF OnSpeechReady, TypeInv, clientVars, workerVars, lifeVars, ttsVars
<1>5. CASE DestroyTimeout
  BY <1>0, <1>5 DEF DestroyTimeout, TypeInv, speakerVars, clientVars, workerVars, lifeVars, ttsVars
<1>6. CASE OnInit \/ OnInitDone
  <2>1. inited' \in BOOLEAN /\ tts' \in {"none", "connecting", "ok", "failed"}
    BY <1>6, Zenon DEF OnInit, OnInitDone, TypeInv, ttsVars
  <2>2. /\ main' \in {"answer", "idle"}
        /\ UNCHANGED <<speakerVars, rexx, said, clientVars, workerVars, lifeVars,
                       msgs, quit, engine, spoken, overtaken>>
    BY <1>6 DEF OnInit, OnInitDone
  <2>3. QED BY <1>0, <2>1, <2>2 DEF TypeInv, speakerVars, clientVars, workerVars, lifeVars
<1>7. CASE Stop
  BY <1>0, <1>7 DEF Stop, TypeInv, workerVars, lifeVars, ttsVars
<1>8. CASE Unbind
  <2>1. bound' \in BOOLEAN
    BY <1>8, Zenon DEF Unbind
  <2>2. UNCHANGED <<speakerVars, rexx, said, main, stopped, workerVars, lifeVars, ttsVars,
                    msgs, quit, engine, spoken, overtaken>>
    BY <1>8 DEF Unbind
  <2>3. QED BY <1>0, <2>1, <2>2 DEF TypeInv, speakerVars, workerVars, lifeVars, ttsVars
<1>9. QED BY <1>1, <1>2, <1>3, <1>4, <1>5, <1>6, <1>7, <1>8 DEF Main

LEMMA TypeWorker ==
  ASSUME TypeInv, StartInv, Worker \/ Speak
  PROVE  TypeInv'
<1>0. Close \in Said /\ Said' = Said /\ None \in {None}
  BY DEF TypeInv, Said, Close, Worker, RunHandler, RunNotify, RunTtsLater, RunTtsFails, LoopNext,
     HandleClose, HandleSpeak,
     HandleWait, HandleInited, RunEnd, Speak
<1>1. CASE RunHandler \/ RunNotify
  <2>1. handler' \in BOOLEAN /\ created' \in BOOLEAN
    BY <1>1, Zenon DEF RunHandler, RunNotify, TypeInv, lifeVars
  <2>2. /\ worker' \in {"notify", "tts"} /\ main' \in {main, "idle"}
        /\ UNCHANGED <<speakerVars, rexx, said, clientVars, hand, somethingSaid, seen, dropped,
                       closeRequested,
                       ttsVars, msgs, quit, engine, spoken, overtaken>>
    BY <1>1 DEF RunHandler, RunNotify, lifeVars
  <2>3. QED BY <1>0, <2>1, <2>2 DEF TypeInv, speakerVars, clientVars, ttsVars
<1>2. CASE RunTtsLater \/ RunTtsFails
  <2>1. inited' \in BOOLEAN
    BY <1>2, Zenon DEF RunTtsLater, RunTtsFails, TypeInv
  <2>2. /\ worker' = "loop" /\ tts' \in {"connecting", "failed"} /\ main' \in {main, "idle"}
        /\ seen' \in {seen, "yes"}
        /\ UNCHANGED <<speakerVars, rexx, said, clientVars, hand, handler, somethingSaid, dropped, lifeVars,
                       msgs, quit, engine, spoken, overtaken>>
    BY <1>2 DEF RunTtsLater, RunTtsFails, Notified, ttsVars
  <2>3. QED BY <1>0, <2>1, <2>2 DEF TypeInv, speakerVars, clientVars, lifeVars
<1>3. CASE LoopNext
  <2>1. hand' \in Said /\ msgs' \in Seq(Said)
    BY <1>3, HeadTailProperties DEF LoopNext, TypeInv
  <2>2. QED BY <1>0, <1>3, <2>1 DEF LoopNext, TypeInv, speakerVars, clientVars, lifeVars, ttsVars
<1>4. CASE HandleClose
  <2>1. quit' \in BOOLEAN
    BY <1>4, Zenon DEF HandleClose, TypeInv
  <2>2. msgs' \in {msgs, << >>} /\ engine' \in {engine, Append(engine, Close)}
    BY <1>4 DEF HandleClose
  <2>3. msgs' \in Seq(Said) /\ engine' \in Seq(Said)
    <3>1. msgs \in Seq(Said) /\ engine \in Seq(Said)
      BY DEF TypeInv
    <3>2. Append(engine, Close) \in Seq(Said) /\ << >> \in Seq(Said)
      BY <1>0, <3>1, AppendProperties, EmptySeq
    <3>3. QED BY <2>2, <3>1, <3>2
  <2>4. QED BY <1>0, <1>4, <2>1, <2>3 DEF HandleClose, TypeInv, speakerVars, clientVars, lifeVars,
     ttsVars
<1>5. CASE HandleSpeak
  <2>1. hand \in Said
    BY <1>5 DEF HandleSpeak, InitedRead, TypeInv, StartInv
  <2>2. somethingSaid' \in BOOLEAN
    BY <1>5, Zenon DEF HandleSpeak, TypeInv
  <2>3. engine' \in {engine, Append(engine, hand)}
    BY <1>5 DEF HandleSpeak
  <2>4. engine' \in Seq(Said)
    <3>1. engine \in Seq(Said)
      BY DEF TypeInv
    <3>2. Append(engine, hand) \in Seq(Said)
      BY <2>1, <3>1, AppendProperties
    <3>3. QED BY <2>3, <3>1, <3>2
  <2>5. dropped' \subseteq Said /\ worker' = "loop" /\ hand' = None
    BY <1>5, <2>1 DEF HandleSpeak, TypeInv
  <2>6. UNCHANGED <<speakerVars, rexx, said, main, clientVars, handler, seen, lifeVars, ttsVars,
                    msgs, quit, spoken, overtaken>>
    BY <1>5 DEF HandleSpeak
  <2>7. QED BY <1>0, <2>2, <2>4, <2>5, <2>6 DEF TypeInv, speakerVars, clientVars, lifeVars, ttsVars
<1>6. CASE RunEnd
  <2>1. engine' \in Seq(Said) /\ main' \in {"idle", "create", "drain", "destroy", "answer"}
    BY <1>6, EmptySeq DEF RunEnd, Notified, TypeInv
  <2>2. QED BY <1>0, <1>6, <2>1 DEF RunEnd, TypeInv, speakerVars, clientVars, lifeVars, ttsVars
<1>7. CASE Speak
  <2>1. quit' \in BOOLEAN
    BY <1>7, Zenon DEF Speak, TypeInv
  <2>2. /\ engine # << >> /\ engine' = Tail(engine)
        /\ spoken' \in {spoken, Append(spoken, Head(engine))} /\ msgs' \in {msgs, << >>}
    BY <1>7 DEF Speak
  <2>3. Head(engine) \in Said /\ engine' \in Seq(Said)
    BY <2>2, HeadTailProperties DEF TypeInv
  <2>4. spoken' \in Seq(Said) /\ msgs' \in Seq(Said)
    <3>1. msgs \in Seq(Said) /\ spoken \in Seq(Said)
      BY DEF TypeInv
    <3>2. Append(spoken, Head(engine)) \in Seq(Said) /\ << >> \in Seq(Said)
      BY <2>3, <3>1, AppendProperties, EmptySeq
    <3>3. QED BY <2>2, <3>1, <3>2
  <2>5. QED
    BY <1>0, <1>7, <2>1, <2>3, <2>4 DEF Speak, TypeInv, speakerVars, clientVars, workerVars,
       lifeVars, ttsVars
<1>8. CASE HandleWait \/ HandleInited
  <2>1. /\ worker' \in {"handle", "await"} /\ seen' \in {seen, "yes"}
        /\ UNCHANGED <<speakerVars, rexx, said, main, clientVars, hand, handler, somethingSaid,
                       dropped, lifeVars, ttsVars, msgs, quit, engine, spoken, overtaken>>
    BY <1>8 DEF HandleWait, HandleInited
  <2>2. QED BY <1>0, <2>1 DEF TypeInv, speakerVars, clientVars, lifeVars, ttsVars
<1>9. QED BY <1>1, <1>2, <1>3, <1>4, <1>5, <1>6, <1>7, <1>8 DEF Worker

LEMMA TypeNext == TypeInv /\ StartInv /\ [Next]_vars => TypeInv'
<1>1. ASSUME TypeInv, UNCHANGED vars PROVE TypeInv'
  BY <1>1 DEF TypeInv, Said, vars, speakerVars, clientVars, workerVars, lifeVars, ttsVars
<1>2. QED BY <1>1, TypeRexx, TypeMain, TypeWorker DEF Next, Rexx

\* The order of the start: handler, notification, engine, messages.
LEMMA StartNext == TypeInv /\ StartInv /\ [Next]_vars => StartInv'
<1> SUFFICES ASSUME TypeInv, StartInv, [Next]_vars PROVE StartInv'
  OBVIOUS
<1>1. CASE Say \/ Rexx \/ Stop \/ Unbind \/ Speak
  BY <1>1 DEF Rexx, Say, SayLocked, SaySend, Stop, Unbind, Speak, StartInv, speakerVars, workerVars,
     lifeVars, ttsVars
<1>2. CASE OnCreate \/ OnSpeechReady \/ Drain
  BY <1>2, SeenTyped DEF TypeInv, OnCreate, OnSpeechReady, Drain, StartInv, speakerVars,
     workerVars, lifeVars, ttsVars
<1>3. CASE OnDestroy \/ DestroyTimeout \/ OnInit \/ OnInitDone
  BY <1>3, SeenTyped DEF OnDestroy, DestroyTimeout, OnInit, OnInitDone, TypeInv, StartInv,
     speakerVars, workerVars, lifeVars, ttsVars
<1>4. CASE RunHandler \/ RunNotify \/ RunTtsLater \/ RunTtsFails
  BY <1>4 DEF RunHandler, RunNotify, RunTtsLater, RunTtsFails, Notified, TypeInv, StartInv,
     speakerVars, lifeVars, ttsVars
<1>5. CASE LoopNext
  <2>1. hand' # None
    <3>1. hand' \in Said
      BY <1>5, HeadTailProperties DEF LoopNext, TypeInv
    <3>2. QED BY <3>1 DEF Said, None, TypeInv
  <2>2. QED BY <1>5, <2>1 DEF LoopNext, StartInv, speakerVars, lifeVars, ttsVars
<1>6. CASE HandleClose \/ HandleSpeak \/ HandleWait \/ HandleInited \/ RunEnd
  BY <1>6 DEF HandleClose, HandleSpeak, InitedRead, HandleWait, HandleInited, RunEnd, Notified,
     TypeInv, StartInv, speakerVars, lifeVars, ttsVars, workerVars
<1>7. CASE UNCHANGED vars
  BY <1>7 DEF StartInv, vars, speakerVars, workerVars, lifeVars, ttsVars
<1>8. QED BY <1>1, <1>2, <1>3, <1>4, <1>5, <1>6, <1>7 DEF Next, Main, Worker

LEMMA Started == Spec => [](TypeInv /\ StartInv)
BY TypeInit, TypeNext, StartNext, PTL DEF Spec

\* Whatever is said, when, and however the service ends, the state keeps its types
\* (Speaker.java:24-39, Speech.java:31-46).
THEOREM SpeechTypeCorrect == Spec => []TypeOK
<1>1. TypeInv /\ StartInv => TypeOK
  <2> SUFFICES ASSUME TypeInv, StartInv PROVE TypeOK
    OBVIOUS
  <2>1. \A s \in Seq(Said) : s \in Seq(Msgs)
    <3>1. Said \subseteq Msgs
      BY MaxSaidAssumption DEF TypeInv, Said, Msgs
    <3>2. QED BY <3>1
  <2>2. hand \in Msgs \union {None} /\ dropped \subseteq Msgs
    BY MaxSaidAssumption DEF TypeInv, Said, Msgs
  <2>3. said \in Msgs
    BY DEF TypeInv, Msgs
  <2>4. queue \in Seq(Msgs) /\ msgs \in Seq(Msgs) /\ engine \in Seq(Msgs) /\ spoken \in Seq(Msgs)
    BY <2>1 DEF TypeInv
  <2>5. {ready, closed, synced, bound, stopped, handler, created, closeRequested, inited,
         somethingSaid, quit, overtaken} \subseteq BOOLEAN
    BY Zenon DEF TypeInv
  <2>6. QED BY <2>2, <2>3, <2>4, <2>5 DEF TypeInv, StartInv, TypeOK, Answered
<1>2. QED BY Started, <1>1, PTL

\* A Speaker told that the service is ready has its handler, and no message is handled
\* before there is an engine (Speech.java:61-69, 161-168; Speaker.java:85-89).
THEOREM HandlerAlwaysReady == Spec => []HandlerReady
<1>1. StartInv => HandlerReady
  BY DEF StartInv, HandlerReady
<1>2. QED BY Started, <1>1, PTL

-----------------------------------------------------------------------------
(***************************************************************************)
(* The order of what is spoken.  The pipeline is six sequences, and an     *)
(* action moves an element from one to the next, drops elements, or adds a *)
(* Close.  The elements of each are apart, and so are those of any two: as *)
(* long as nothing overtook, the earlier is smaller; in any case they are  *)
(* different.                                                              *)
(***************************************************************************)
Apart(o, x, y) == x = Close \/ y = Close \/ (x # y /\ (o \/ x < y))
Inc(o, a)      == \A i, j \in 1..Len(a) : i < j => Apart(o, a[i], a[j])
Pair(o, a, b)  == \A i \in 1..Len(a), j \in 1..Len(b) : Apart(o, a[i], b[j])

LEMMA EmptyApart ==
  ASSUME NEW o
  PROVE  /\ Inc(o, << >>)
         /\ \A b : Pair(o, << >>, b) /\ Pair(o, b, << >>)
BY DEF Inc, Pair

LEMMA OneApart ==
  ASSUME NEW o, NEW x
  PROVE  Inc(o, <<x>>)
BY DEF Inc

LEMMA CloseApart ==
  ASSUME NEW o, NEW b \in Seq(Nat)
  PROVE  Pair(o, <<Close>>, b) /\ Pair(o, b, <<Close>>)
BY DEF Pair, Apart

LEMMA HeadApart ==
  ASSUME NEW o, NEW a \in Seq(Nat), a # << >>, NEW b \in Seq(Nat)
  PROVE  /\ Pair(o, a, b) => Pair(o, Tail(a), b) /\ Pair(o, <<Head(a)>>, b)
         /\ Pair(o, b, a) => Pair(o, b, Tail(a)) /\ Pair(o, b, <<Head(a)>>)
         /\ Inc(o, a) => Inc(o, Tail(a)) /\ Pair(o, <<Head(a)>>, Tail(a))
<1>1. /\ Head(a) = a[1] /\ Len(a) \in Nat \ {0} /\ Len(Tail(a)) = Len(a) - 1
      /\ \A i \in 1..Len(Tail(a)) : Tail(a)[i] = a[i + 1]
  BY HeadTailProperties, LenProperties, EmptySeq
<1>2. Len(<<Head(a)>>) = 1 /\ <<Head(a)>>[1] = a[1]
  BY <1>1
<1>3. Pair(o, a, b) => Pair(o, Tail(a), b) /\ Pair(o, <<Head(a)>>, b)
  BY <1>1, <1>2 DEF Pair
<1>4. Pair(o, b, a) => Pair(o, b, Tail(a)) /\ Pair(o, b, <<Head(a)>>)
  BY <1>1, <1>2 DEF Pair
<1>5. Inc(o, a) => Inc(o, Tail(a)) /\ Pair(o, <<Head(a)>>, Tail(a))
  BY <1>1, <1>2 DEF Inc, Pair
<1>6. QED BY <1>3, <1>4, <1>5

LEMMA LastApart ==
  ASSUME NEW o, NEW a \in Seq(Nat), NEW x \in Nat, NEW b \in Seq(Nat)
  PROVE  /\ Pair(o, a, b) /\ Pair(o, <<x>>, b) => Pair(o, Append(a, x), b)
         /\ Pair(o, b, a) /\ Pair(o, b, <<x>>) => Pair(o, b, Append(a, x))
         /\ Inc(o, a) /\ Pair(o, a, <<x>>) => Inc(o, Append(a, x))
<1>1. /\ Len(Append(a, x)) = Len(a) + 1 /\ Len(a) \in Nat
      /\ \A i \in 1..Len(a) : Append(a, x)[i] = a[i]
      /\ Append(a, x)[Len(a) + 1] = x
  BY AppendProperties, LenProperties
<1>2. Len(<<x>>) = 1 /\ <<x>>[1] = x
  OBVIOUS
<1>3. \A i \in 1..(Len(a) + 1) : i \in 1..Len(a) \/ i = Len(a) + 1
  BY <1>1
<1>4. Pair(o, a, b) /\ Pair(o, <<x>>, b) => Pair(o, Append(a, x), b)
  BY <1>1, <1>2, <1>3 DEF Pair
<1>5. Pair(o, b, a) /\ Pair(o, b, <<x>>) => Pair(o, b, Append(a, x))
  BY <1>1, <1>2, <1>3 DEF Pair
<1>6. Inc(o, a) /\ Pair(o, a, <<x>>) => Inc(o, Append(a, x))
  BY <1>1, <1>2, <1>3 DEF Inc, Pair
<1>7. QED BY <1>4, <1>5, <1>6

\* What is said next is after everything said before.
LEMMA NewApart ==
  ASSUME NEW o, NEW n \in Nat, NEW a \in Seq(0..n)
  PROVE  Pair(o, a, <<n + 1>>)
<1>1. \A i \in 1..Len(a) : a[i] \in 0..n
  BY ElementOfSeq
<1>2. \A x \in 0..n : Apart(o, x, n + 1)
  BY DEF Apart, Close
<1>3. QED BY <1>1, <1>2 DEF Pair

\* Elements that increase are different, and being different has no direction.
LEMMA JustDifferent ==
  ASSUME NEW o, NEW a \in Seq(Nat), NEW b \in Seq(Nat)
  PROVE  /\ Pair(o, a, b) => Pair(TRUE, a, b) /\ Pair(TRUE, b, a)
         /\ Inc(o, a) => Inc(TRUE, a)
<1>1. \A x, y \in Nat : Apart(o, x, y) => Apart(TRUE, x, y) /\ Apart(TRUE, y, x)
  BY DEF Apart
<1>2. (\A i \in 1..Len(a) : a[i] \in Nat) /\ (\A i \in 1..Len(b) : b[i] \in Nat)
  BY ElementOfSeq
<1>3. QED BY <1>1, <1>2 DEF Pair, Inc

\* Two sequences, one after the other.
LEMMA ConcatApart ==
  ASSUME NEW o, NEW a \in Seq(Nat), NEW b \in Seq(Nat)
  PROVE  /\ Inc(o, a) /\ Inc(o, b) /\ Pair(o, a, b) => Inc(o, a \o b)
         /\ \A c \in Seq(Nat) : Pair(o, c, a) /\ Pair(o, c, b) => Pair(o, c, a \o b)
<1>1. /\ Len(a \o b) = Len(a) + Len(b) /\ Len(a) \in Nat /\ Len(b) \in Nat
      /\ \A i \in 1..Len(a \o b) : (a \o b)[i] = IF i <= Len(a) THEN a[i] ELSE b[i - Len(a)]
  BY ConcatProperties, LenProperties
<1>2. Inc(o, a) /\ Inc(o, b) /\ Pair(o, a, b) => Inc(o, a \o b)
  <2> SUFFICES ASSUME Inc(o, a), Inc(o, b), Pair(o, a, b),
                      NEW i \in 1..Len(a \o b), NEW j \in 1..Len(a \o b), i < j
               PROVE  Apart(o, (a \o b)[i], (a \o b)[j])
    BY DEF Inc
  <2>1. CASE j <= Len(a)
    BY <1>1, <2>1 DEF Inc
  <2>2. CASE i > Len(a)
    <3>1. i - Len(a) \in 1..Len(b) /\ j - Len(a) \in 1..Len(b) /\ i - Len(a) < j - Len(a)
      BY <1>1, <2>2
    <3>2. Apart(o, b[i - Len(a)], b[j - Len(a)])
      BY <3>1 DEF Inc
    <3>3. QED BY <1>1, <2>2, <3>2
  <2>3. CASE i <= Len(a) /\ j > Len(a)
    BY <1>1, <2>3 DEF Pair
  <2>4. QED BY <1>1, <2>1, <2>2, <2>3
<1>3. ASSUME NEW c \in Seq(Nat), Pair(o, c, a), Pair(o, c, b) PROVE Pair(o, c, a \o b)
  <2> SUFFICES ASSUME NEW i \in 1..Len(c), NEW j \in 1..Len(a \o b)
               PROVE  Apart(o, c[i], (a \o b)[j])
    BY DEF Pair
  <2>1. CASE j <= Len(a)
    BY <1>1, <1>3, <2>1 DEF Pair
  <2>2. CASE j > Len(a)
    BY <1>1, <1>3, <2>2 DEF Pair
  <2>3. QED BY <1>1, <2>1, <2>2
<1>4. QED BY <1>2, <1>3

\* A pipeline, the nearest to the voice first.
Pipes == [1..6 -> Seq(Nat)]

Order(o, p) ==
  /\ \A k \in 1..6 : Inc(o, p[k])
  /\ \A k, m \in 1..6 : k < m => Pair(o, p[k], p[m])

\* Once a say overtook, only what is different matters.
LEMMA OrderLoosens ==
  ASSUME NEW o, NEW p \in Pipes, Order(o, p)
  PROVE  /\ Order(TRUE, p)
         /\ \A k, m \in 1..6 : k # m => Pair(TRUE, p[k], p[m])
<1>1. \A k \in 1..6 : p[k] \in Seq(Nat)
  BY DEF Pipes
<1>2. \A k \in 1..6 : Inc(TRUE, p[k])
  BY <1>1, JustDifferent DEF Order
<1>3. \A k, m \in 1..6 : k < m => Pair(TRUE, p[k], p[m]) /\ Pair(TRUE, p[m], p[k])
  BY <1>1, JustDifferent DEF Order
<1>4. \A k, m \in 1..6 : k # m => k < m \/ m < k
  OBVIOUS
<1>5. QED BY <1>2, <1>3, <1>4 DEF Order

\* To lose elements leaves the order.
LEMMA DropKeeps ==
  ASSUME NEW o, NEW p \in Pipes, Order(o, p), NEW q \in Pipes,
         \A k \in 1..6 : q[k] = p[k] \/ q[k] = << >> \/ (p[k] # << >> /\ q[k] = Tail(p[k]))
  PROVE  Order(o, q)
<1>1. \A k \in 1..6 : p[k] \in Seq(Nat) /\ q[k] \in Seq(Nat)
  BY DEF Pipes
<1>2. \A k \in 1..6 : Inc(o, q[k])
  BY <1>1, EmptyApart, HeadApart DEF Order
<1>3. ASSUME NEW k \in 1..6, NEW m \in 1..6, k < m
      PROVE  Pair(o, q[k], q[m])
  <2>1. Pair(o, p[k], p[m])
    BY <1>3 DEF Order
  <2>2. Pair(o, q[k], p[m])
    BY <1>1, <2>1, EmptyApart, HeadApart
  <2>3. QED BY <1>1, <2>2, EmptyApart, HeadApart
<1>4. QED BY <1>2, <1>3 DEF Order

\* So does a Close at the end of a sequence.
LEMMA CloseKeeps ==
  ASSUME NEW o, NEW p \in Pipes, Order(o, p), NEW q \in Pipes, NEW m \in 1..6,
         q[m] = Append(p[m], Close), \A k \in 1..6 : k # m => q[k] = p[k]
  PROVE  Order(o, q)
<1>1. (\A k \in 1..6 : p[k] \in Seq(Nat)) /\ Close \in Nat
  BY DEF Pipes, Close
<1>2. \A k \in 1..6 : Inc(o, q[k])
  BY <1>1, CloseApart, LastApart DEF Order
<1>3. ASSUME NEW k \in 1..6, NEW n \in 1..6, k < n
      PROVE  Pair(o, q[k], q[n])
  <2>1. Pair(o, p[k], p[n])
    BY <1>3 DEF Order
  <2>2. CASE k = m
    <3>0. q[n] = p[n]
      BY <1>3, <2>2
    <3>1. Pair(o, <<Close>>, p[n])
      BY <1>1, CloseApart
    <3>2. Pair(o, p[m], p[n]) /\ p[m] \in Seq(Nat) /\ p[n] \in Seq(Nat)
      BY <1>1, <2>1, <2>2
    <3>3. Pair(o, Append(p[m], Close), p[n])
      BY <1>1, <3>1, <3>2, LastApart
    <3>4. QED BY <2>2, <3>0, <3>3
  <2>3. CASE n = m
    <3>0. q[k] = p[k]
      BY <1>3, <2>3
    <3>1. Pair(o, p[k], <<Close>>)
      BY <1>1, CloseApart
    <3>2. Pair(o, p[k], p[m]) /\ p[m] \in Seq(Nat) /\ p[k] \in Seq(Nat)
      BY <1>1, <2>1, <2>3
    <3>3. Pair(o, p[k], Append(p[m], Close))
      BY <1>1, <3>1, <3>2, LastApart
    <3>4. QED BY <2>3, <3>0, <3>3
  <2>4. CASE k # m /\ n # m
    BY <2>1, <2>4
  <2>5. QED BY <2>2, <2>3, <2>4
<1>4. QED BY <1>2, <1>3 DEF Order

\* The oldest element of k goes to the end of m: in order when nothing is between them.
LEMMA MoveKeeps ==
  ASSUME NEW o, NEW p \in Pipes, Order(o, p), NEW q \in Pipes,
         NEW k \in 1..6, NEW m \in 1..6, m < k, p[k] # << >>,
         q[k] = Tail(p[k]), q[m] = Append(p[m], Head(p[k])),
         \A j \in 1..6 : j # k /\ j # m => q[j] = p[j],
         \A j \in 1..6 : m < j /\ j < k => p[j] = << >> \/ Pair(o, p[k], p[j])
  PROVE  Order(o, q)
<1> DEFINE h == Head(p[k])
<1>1. \A j \in 1..6 : p[j] \in Seq(Nat)
  BY DEF Pipes
<1>2. h \in Nat /\ Tail(p[k]) \in Seq(Nat)
  BY <1>1, HeadTailProperties
<1>3. \A j \in 1..6 : j < k => Pair(o, p[j], <<h>>) /\ Pair(o, p[j], Tail(p[k]))
  BY <1>1, HeadApart DEF Order
<1>4. \A j \in 1..6 : k < j => Pair(o, <<h>>, p[j]) /\ Pair(o, Tail(p[k]), p[j])
  BY <1>1, HeadApart DEF Order
<1>5. Inc(o, Tail(p[k])) /\ Pair(o, <<h>>, Tail(p[k]))
  BY <1>1, HeadApart DEF Order
<1>6. \A j \in 1..6 : m < j /\ j < k => Pair(o, <<h>>, p[j])
  BY <1>1, HeadApart, EmptyApart
<1>7. \A j \in 1..6 : m < j => Pair(o, <<h>>, q[j])
  <2> SUFFICES ASSUME NEW j \in 1..6, m < j PROVE Pair(o, <<h>>, q[j])
    OBVIOUS
  <2>1. CASE j = k
    BY <1>5, <2>1
  <2>2. CASE j < k
    BY <1>6, <2>2
  <2>3. CASE k < j
    BY <1>4, <2>3
  <2>4. QED BY <2>1, <2>2, <2>3
<1>8. ASSUME NEW j \in 1..6 PROVE Inc(o, q[j])
  <2>1. CASE j = k
    BY <1>5, <2>1
  <2>2. CASE j = m
    BY <1>1, <1>2, <1>3, <2>2, LastApart DEF Order
  <2>3. CASE j # k /\ j # m
    BY <2>3 DEF Order
  <2>4. QED BY <2>1, <2>2, <2>3
<1>9. ASSUME NEW i \in 1..6, NEW j \in 1..6, i < j PROVE Pair(o, p[i], q[j])
  <2>1. Pair(o, p[i], p[j])
    BY <1>9 DEF Order
  <2>2. CASE j = k
    BY <1>3, <1>9, <2>2
  <2>3. CASE j = m
    <3>1. Pair(o, p[i], <<h>>)
      BY <1>3, <1>9, <2>3
    <3>2. QED BY <1>1, <1>2, <2>1, <2>3, <3>1, LastApart
  <2>4. CASE j # k /\ j # m
    BY <2>1, <2>4
  <2>5. QED BY <2>2, <2>3, <2>4
<1>10. ASSUME NEW i \in 1..6, NEW j \in 1..6, i < j PROVE Pair(o, q[i], q[j])
  <2>1. q[j] \in Seq(Nat) /\ Pair(o, p[i], q[j])
    BY <1>9, <1>10 DEF Pipes
  <2>2. CASE i = k
    <3>1. q[j] = p[j]
      BY <1>10, <2>2
    <3>2. QED BY <1>4, <1>10, <2>2, <3>1
  <2>3. CASE i = m
    BY <1>1, <1>2, <1>7, <1>10, <2>1, <2>3, LastApart
  <2>4. CASE i # k /\ i # m
    BY <2>1, <2>4
  <2>5. QED BY <2>2, <2>3, <2>4
<1>11. QED BY <1>8, <1>10 DEF Order

-----------------------------------------------------------------------------
\* The pipeline of a state, and the invariant.
Pipe ==
  [k \in 1..6 |-> IF k = 1 THEN spoken ELSE IF k = 2 THEN engine ELSE IF k = 3 THEN InHand
                  ELSE IF k = 4 THEN msgs ELSE IF k = 5 THEN queue ELSE Saying]

OrderInv == Order(overtaken, Pipe)

LEMMA PipeParts ==
  /\ Pipe[1] = spoken /\ Pipe[2] = engine /\ Pipe[3] = InHand /\ Pipe[4] = msgs
  /\ Pipe[5] = queue /\ Pipe[6] = Saying
  /\ Pipe'[1] = spoken' /\ Pipe'[2] = engine' /\ Pipe'[3] = InHand' /\ Pipe'[4] = msgs'
  /\ Pipe'[5] = queue' /\ Pipe'[6] = Saying'
BY DEF Pipe

LEMMA SeqMonotone ==
  ASSUME NEW n \in Nat
  PROVE  \A s \in Seq(0..n) : s \in Seq(Nat)
<1> SUFFICES ASSUME NEW s \in Seq(0..n) PROVE s \in Seq(Nat)
  OBVIOUS
<1>1. PICK k \in Nat : s \in [1..k -> 0..n]
  BY SeqDef
<1>2. s \in [1..k -> Nat]
  BY <1>1
<1>3. QED BY <1>2, SeqDef

LEMMA PipeSaid == TypeInv => Pipe \in [1..6 -> Seq(Said)]
<1> SUFFICES ASSUME TypeInv PROVE Pipe \in [1..6 -> Seq(Said)]
  OBVIOUS
<1>1. InHand \in Seq(Said)
  <2>1. hand # None => hand \in Said
    BY DEF TypeInv
  <2>2. QED BY <2>1, EmptySeq DEF InHand
<1>2. Saying \in Seq(Said)
  <2>1. said \in Said
    BY DEF TypeInv, Said
  <2>2. QED BY <2>1, EmptySeq DEF Saying
<1>3. queue \in Seq(Said) /\ msgs \in Seq(Said) /\ engine \in Seq(Said) /\ spoken \in Seq(Said)
  BY DEF TypeInv
<1>4. QED BY <1>1, <1>2, <1>3 DEF Pipe

LEMMA PipeType == TypeInv => Pipe \in Pipes
<1> SUFFICES ASSUME TypeInv PROVE Pipe \in Pipes
  OBVIOUS
<1>1. \A s \in Seq(Said) : s \in Seq(Nat)
  BY SeqMonotone DEF TypeInv, Said
<1>2. QED BY <1>1, PipeSaid DEF Pipes

LEMMA PipeTypeNext == TypeInv' => Pipe' \in Pipes
<1>1. (TypeInv => Pipe \in Pipes)'
  BY PipeType, PTL
<1>2. QED BY <1>1 DEF Pipes

LEMMA SixParts == 1..6 = {1, 2, 3, 4, 5, 6}
OBVIOUS

LEMMA OrderInit == Init => OrderInv
<1> SUFFICES ASSUME Init PROVE OrderInv
  OBVIOUS
<1>1. \A k \in 1..6 : Pipe[k] = << >>
  BY DEF Init, Pipe, InHand, Saying, None
<1>2. QED BY <1>1, EmptyApart DEF OrderInv, Order

\* A step that leaves the pipeline, or loses elements of it, keeps the order, also when
\* something is said to have overtaken.
LEMMA StepDrops ==
  ASSUME TypeInv, TypeInv', OrderInv, overtaken' \in {overtaken, TRUE},
         \A k \in 1..6 : \/ Pipe'[k] = Pipe[k] \/ Pipe'[k] = << >>
                         \/ Pipe[k] # << >> /\ Pipe'[k] = Tail(Pipe[k])
  PROVE  OrderInv'
<1>1. Pipe \in Pipes /\ Pipe' \in Pipes
  BY PipeType, PipeTypeNext
<1>2. Order(overtaken', Pipe)
  BY <1>1, OrderLoosens DEF OrderInv
<1>3. QED BY <1>1, <1>2, DropKeeps DEF OrderInv

LEMMA OrderRexx ==
  ASSUME TypeInv, TypeInv', StartInv, OrderInv, Say \/ Rexx
  PROVE  OrderInv'
<1>0. Pipe \in Pipes /\ Pipe' \in Pipes
  BY PipeType, PipeTypeNext
<1>1. CASE Say
  <2> DEFINE n == said + 1
  <2>1. /\ Pipe[6] = << >> /\ Pipe'[6] = <<n>> /\ overtaken' = overtaken
        /\ \A k \in 1..5 : Pipe'[k] = Pipe[k]
    BY <1>1, SixParts DEF Say, Pipe, InHand, Saying, speakerVars, workerVars
  <2>2. \A k \in 1..5 : Pair(overtaken, Pipe[k], <<n>>)
    <3>1. said \in Nat
      BY DEF TypeInv
    <3>2. \A k \in 1..5 : Pipe[k] \in Seq(Said)
      BY PipeSaid
    <3>3. QED BY <3>1, <3>2, NewApart DEF Said
  <2> HIDE DEF n
  <2>3. ASSUME NEW k \in 1..6 PROVE Inc(overtaken, Pipe'[k])
    <3>1. CASE k = 6
      BY <2>1, <3>1, OneApart
    <3>2. CASE k # 6
      BY <2>1, <3>2 DEF OrderInv, Order
    <3>3. QED BY <3>1, <3>2
  <2>4. ASSUME NEW k \in 1..6, NEW m \in 1..6, k < m
        PROVE  Pair(overtaken, Pipe'[k], Pipe'[m])
    <3>1. CASE m = 6
      BY <2>1, <2>2, <2>4, <3>1
    <3>2. CASE m # 6
      BY <2>1, <2>4, <3>2 DEF OrderInv, Order
    <3>3. QED BY <3>1, <3>2
  <2>5. QED BY <2>1, <2>3, <2>4 DEF OrderInv, Order
<1>2. CASE SayLocked
  <2>1. overtaken' = overtaken /\ \A k \in 1..4 : Pipe'[k] = Pipe[k]
    BY <1>2 DEF SayLocked, Pipe, InHand, workerVars
  <2>2. CASE rexx' = "send"
    BY <1>2, <2>1, <2>2, StepDrops DEF SayLocked, Pipe, Saying
  <2>3. CASE rexx' = "idle"
    <3>1. /\ Pipe[6] = <<said>> /\ Pipe'[6] = << >>
          /\ Pipe'[5] = Append(Pipe[5], said)
      BY <1>2, <2>3 DEF SayLocked, Pipe, Saying
    <3>2. Pipe[6] # << >> /\ Head(Pipe[6]) = said /\ Pipe'[6] = Tail(Pipe[6])
      BY <3>1
    <3>3. \A j \in 1..6 : j # 6 /\ j # 5 => Pipe'[j] = Pipe[j]
      BY <2>1
    <3>4. Pipe'[5] = Append(Pipe[5], Head(Pipe[6])) /\ Order(overtaken, Pipe)
      BY <3>1, <3>2 DEF OrderInv
    <3>5. \A j \in 1..6 : ~(5 < j /\ j < 6)
      OBVIOUS
    <3>6. Order(overtaken, Pipe')
      BY <1>0, <3>2, <3>3, <3>4, <3>5, MoveKeeps
    <3>7. QED BY <2>1, <3>6 DEF OrderInv
  <2>4. QED BY <1>2, <2>2, <2>3 DEF SayLocked
<1>3. CASE SaySend
  <2>1. /\ Pipe[6] = <<said>> /\ Pipe'[6] = << >> /\ Pipe'[5] = Pipe[5]
        /\ \A k \in 1..3 : Pipe'[k] = Pipe[k]
    BY <1>3 DEF SaySend, Pipe, InHand, Saying, speakerVars, workerVars
  <2>2. overtaken' \in {overtaken, TRUE} /\ (queue # << >> => overtaken' = TRUE)
    BY <1>3 DEF SaySend, TypeInv
  <2>3. Pipe[6] # << >> /\ Head(Pipe[6]) = said /\ Pipe'[6] = Tail(Pipe[6])
    BY <2>1
  <2>4. CASE msgs' = msgs
    <3>1. Pipe'[4] = Pipe[4]
      BY <2>4 DEF Pipe
    <3>2. \A k \in 1..6 : Pipe'[k] = Pipe[k] \/ Pipe'[k] = << >>
      BY <2>1, <3>1, SixParts
    <3>3. QED BY <2>2, <3>2, StepDrops
  <2>5. CASE msgs' = Append(msgs, said)
    <3>1. Pipe'[4] = Append(Pipe[4], Head(Pipe[6])) /\ Pipe[5] = queue
      BY <2>3, <2>5 DEF Pipe
    <3>2. Order(overtaken', Pipe)
      BY <1>0, <2>2, OrderLoosens DEF OrderInv
    <3>3. Pipe[5] = << >> \/ Pair(overtaken', Pipe[6], Pipe[5])
      <4>1. Pair(TRUE, Pipe[6], Pipe[5])
        <5>1. \A k, m \in 1..6 : k # m => Pair(TRUE, Pipe[k], Pipe[m])
          BY <1>0, OrderLoosens DEF OrderInv
        <5>2. 6 \in 1..6 /\ 5 \in 1..6 /\ 6 # 5
          OBVIOUS
        <5>3. QED BY <5>1, <5>2, Zenon
      <4>2. QED BY <2>2, <3>1, <4>1
    <3>4. \A j \in 1..6 : 4 < j /\ j < 6 => j = 5
      OBVIOUS
    <3>5. \A j \in 1..6 : j # 6 /\ j # 4 => Pipe'[j] = Pipe[j]
      BY <2>1, SixParts
    <3>6. Order(overtaken', Pipe')
      BY <1>0, <2>3, <3>1, <3>2, <3>3, <3>4, <3>5, MoveKeeps
    <3>7. QED BY <3>6 DEF OrderInv
  <2>6. QED BY <1>3, <2>4, <2>5 DEF SaySend, Sent
<1>4. QED BY <1>1, <1>2, <1>3 DEF Rexx

\* The steps of the main thread, of the worker and of the engine leave what rexx says.
LEMMA OrderMain ==
  ASSUME TypeInv, TypeInv', StartInv, OrderInv, Main \/ Stop \/ Unbind
  PROVE  OrderInv'
<1>0. Pipe \in Pipes /\ Pipe' \in Pipes
  BY PipeType, PipeTypeNext
<1>1. overtaken' = overtaken /\ \A k \in {1, 2, 3, 6} : Pipe'[k] = Pipe[k]
  BY DEF Main, OnCreate, OnSpeechReady, Drain, OnDestroy, DestroyTimeout, OnInit, OnInitDone, Stop,
     Unbind,
         Pipe, InHand, Saying, workerVars, lifeVars
<1>2. CASE OnCreate \/ OnSpeechReady \/ DestroyTimeout \/ OnInit \/ OnInitDone \/ Stop \/ Unbind
  <2>1. Pipe'[4] = Pipe[4] /\ Pipe'[5] = Pipe[5]
    BY <1>2 DEF OnCreate, OnSpeechReady, DestroyTimeout, OnInit, OnInitDone, Stop, Unbind, Pipe,
       speakerVars
  <2>2. QED BY <1>1, <2>1, SixParts, StepDrops
<1>3. CASE Drain
  <2>1. CASE queue = << >> \/ quit
    <3>1. Pipe'[4] = Pipe[4] /\ (Pipe'[5] = Pipe[5] \/ (Pipe[5] # << >> /\ Pipe'[5] = Tail(Pipe[5])))
      BY <1>3, <2>1 DEF Drain, Sent, Pipe
    <3>2. QED BY <1>1, <3>1, SixParts, StepDrops
  <2>2. CASE queue # << >> /\ ~quit
    <3>1. /\ Pipe[5] # << >> /\ Pipe'[5] = Tail(Pipe[5])
          /\ Pipe'[4] = Append(Pipe[4], Head(Pipe[5]))
      BY <1>3, <2>2 DEF Drain, Sent, Pipe
    <3>2. \A j \in 1..6 : (j # 5 /\ j # 4 => Pipe'[j] = Pipe[j]) /\ ~(4 < j /\ j < 5)
      BY <1>1, SixParts
    <3>3. Order(overtaken, Pipe')
      BY <1>0, <3>1, <3>2, MoveKeeps DEF OrderInv
    <3>4. QED BY <1>1, <3>3 DEF OrderInv
  <2>3. QED BY <2>1, <2>2
<1>4. CASE OnDestroy
  <2>1. Pipe'[5] = Pipe[5]
    BY <1>4 DEF OnDestroy, Pipe, speakerVars
  <2>2. CASE quit
    <3>1. Pipe'[4] = Pipe[4]
      BY <1>4, <2>2 DEF OnDestroy, Sent, Pipe
    <3>2. QED BY <1>1, <2>1, <3>1, SixParts, StepDrops
  <2>3. CASE ~quit
    <3>1. Pipe'[4] = Append(Pipe[4], Close)
      BY <1>4, <2>3 DEF OnDestroy, Sent, Pipe
    <3>2. \A k \in 1..6 : k # 4 => Pipe'[k] = Pipe[k]
      BY <1>1, <2>1, SixParts
    <3>3. Order(overtaken, Pipe')
      BY <1>0, <3>1, <3>2, CloseKeeps DEF OrderInv
    <3>4. QED BY <1>1, <3>3 DEF OrderInv
  <2>4. QED BY <2>2, <2>3
<1>5. QED BY <1>2, <1>3, <1>4 DEF Main

LEMMA OrderWorker ==
  ASSUME TypeInv, TypeInv', StartInv, OrderInv, Worker \/ Speak
  PROVE  OrderInv'
<1>0. Pipe \in Pipes /\ Pipe' \in Pipes
  BY PipeType, PipeTypeNext
<1>1. overtaken' = overtaken /\ \A k \in {5, 6} : Pipe'[k] = Pipe[k]
  BY DEF Worker, RunHandler, RunNotify, RunTtsLater, RunTtsFails, LoopNext, HandleWait,
     HandleInited,
         HandleClose, HandleSpeak, RunEnd, Speak,
         Pipe, Saying, speakerVars
<1>2. CASE RunHandler \/ RunNotify \/ RunTtsLater \/ RunTtsFails \/ HandleWait \/ HandleInited \/ RunEnd
  <2>1. /\ \A k \in {1, 3, 4} : Pipe'[k] = Pipe[k]
        /\ Pipe'[2] = Pipe[2] \/ Pipe'[2] = << >>
    BY <1>2 DEF RunHandler, RunNotify, RunTtsLater, RunTtsFails, HandleWait, HandleInited, RunEnd,
       Pipe, InHand
  <2>2. QED BY <1>1, <2>1, SixParts, StepDrops
<1>3. CASE LoopNext
  <2>1. hand = None
    BY <1>3 DEF LoopNext, StartInv
  <2>2. hand' = Head(msgs) /\ hand' # None
    <3>1. hand' = Head(msgs) /\ hand' \in Said'
      BY <1>3, HeadTailProperties DEF LoopNext, TypeInv, Said
    <3>2. QED BY <3>1 DEF Said, None, TypeInv
  <2>3. /\ Pipe[4] # << >> /\ Pipe'[4] = Tail(Pipe[4])
        /\ Pipe[3] = << >> /\ Pipe'[3] = <<Head(Pipe[4])>>
        /\ \A k \in {1, 2} : Pipe'[k] = Pipe[k]
    BY <1>3, <2>1, <2>2 DEF LoopNext, Pipe, InHand
  <2>4. /\ Pipe[4] # << >> /\ Pipe'[4] = Tail(Pipe[4])
        /\ Pipe'[3] = Append(Pipe[3], Head(Pipe[4]))
    BY <2>3
  <2>5. \A j \in 1..6 : (j # 4 /\ j # 3 => Pipe'[j] = Pipe[j]) /\ ~(3 < j /\ j < 4)
    BY <1>1, <2>3, SixParts
  <2>6. Order(overtaken, Pipe')
    BY <1>0, <2>4, <2>5, MoveKeeps DEF OrderInv
  <2>7. QED BY <1>1, <2>6 DEF OrderInv
<1>4. CASE HandleClose \/ HandleSpeak
  <2>1. /\ Pipe[3] = <<hand>> /\ Pipe'[3] = << >> /\ Pipe'[1] = Pipe[1]
        /\ Pipe'[4] = Pipe[4] \/ Pipe'[4] = << >>
    BY <1>4 DEF HandleClose, HandleSpeak, InitedRead, StartInv, Pipe, InHand
  <2>2. CASE engine' = engine
    <3>1. Pipe'[2] = Pipe[2]
      BY <2>2 DEF Pipe
    <3>2. \A k \in 1..6 : Pipe'[k] = Pipe[k] \/ Pipe'[k] = << >>
      BY <1>1, <2>1, <3>1, SixParts
    <3>3. QED BY <1>1, <3>2, StepDrops
  <2>3. CASE engine' # engine
    <3>1. Pipe'[4] = Pipe[4] /\ Pipe'[2] = Append(Pipe[2], hand)
      BY <1>4, <2>3 DEF HandleClose, HandleSpeak, Pipe
    <3>2. Pipe[3] # << >> /\ Head(Pipe[3]) = hand /\ Pipe'[3] = Tail(Pipe[3])
      BY <2>1
    <3>3. \A j \in 1..6 : (j # 3 /\ j # 2 => Pipe'[j] = Pipe[j]) /\ ~(2 < j /\ j < 3)
      BY <1>1, <2>1, <3>1, SixParts
    <3>4. Order(overtaken, Pipe')
      BY <1>0, <3>1, <3>2, <3>3, MoveKeeps DEF OrderInv
    <3>5. QED BY <1>1, <3>4 DEF OrderInv
  <2>4. QED BY <2>2, <2>3
<1>5. CASE Speak
  <2>1. /\ Pipe[2] # << >> /\ Pipe'[2] = Tail(Pipe[2]) /\ Pipe'[3] = Pipe[3]
        /\ Pipe'[4] = Pipe[4] \/ Pipe'[4] = << >>
    BY <1>5 DEF Speak, Pipe, InHand, workerVars
  <2>2. CASE spoken' = spoken
    <3>1. Pipe'[1] = Pipe[1]
      BY <2>2 DEF Pipe
    <3>2. \A k \in 1..6 : k # 2 => Pipe'[k] = Pipe[k] \/ Pipe'[k] = << >>
      BY <1>1, <2>1, <3>1, SixParts
    <3>3. ASSUME NEW k \in 1..6
          PROVE  \/ Pipe'[k] = Pipe[k] \/ Pipe'[k] = << >>
                 \/ Pipe[k] # << >> /\ Pipe'[k] = Tail(Pipe[k])
      <4>1. CASE k = 2
        BY <2>1, <4>1
      <4>2. CASE k # 2
        BY <3>2, <4>2
      <4>3. QED BY <4>1, <4>2
    <3>4. QED BY <1>1, <3>3, StepDrops
  <2>3. CASE spoken' # spoken
    <3>1. Pipe'[4] = Pipe[4] /\ Pipe'[1] = Append(Pipe[1], Head(Pipe[2]))
      BY <1>5, <2>3 DEF Speak, Pipe
    <3>2. \A j \in 1..6 : (j # 2 /\ j # 1 => Pipe'[j] = Pipe[j]) /\ ~(1 < j /\ j < 2)
      BY <1>1, <2>1, <3>1, SixParts
    <3>3. Order(overtaken, Pipe')
      BY <1>0, <2>1, <3>1, <3>2, MoveKeeps DEF OrderInv
    <3>4. QED BY <1>1, <3>3 DEF OrderInv
  <2>4. QED BY <2>2, <2>3
<1>6. QED BY <1>2, <1>3, <1>4, <1>5 DEF Worker

LEMMA OrderNext == TypeInv /\ TypeInv' /\ StartInv /\ OrderInv /\ [Next]_vars => OrderInv'
<1> SUFFICES ASSUME TypeInv, TypeInv', StartInv, OrderInv, [Next]_vars PROVE OrderInv'
  OBVIOUS
<1>1. CASE Say \/ Rexx
  BY <1>1, OrderRexx
<1>2. CASE Main \/ Stop \/ Unbind
  BY <1>2, OrderMain
<1>3. CASE Worker \/ Speak
  BY <1>3, OrderWorker
<1>4. CASE UNCHANGED vars
  <2>1. Pipe' = Pipe /\ overtaken' = overtaken
    BY <1>4 DEF vars, speakerVars, workerVars, lifeVars, Pipe, InHand, Saying
  <2>2. QED BY <2>1, StepDrops
<1>5. QED BY <1>1, <1>2, <1>3, <1>4 DEF Next

\* Two parts of a pipeline, one after the other, behind all the parts before them.
LEMMA OrderJoins ==
  ASSUME NEW o, NEW p \in Pipes, Order(o, p)
  PROVE  Inc(o, p[1] \o (p[2] \o (p[3] \o (p[4] \o (p[5] \o p[6])))))
<1> DEFINE t5 == p[5] \o p[6]
           t4 == p[4] \o t5
           t3 == p[3] \o t4
           t2 == p[2] \o t3
<1>0. \A k \in 1..6 : p[k] \in Seq(Nat)
  BY DEF Pipes
<1>1. Inc(o, t5) /\ \A k \in 1..4 : Pair(o, p[k], t5)
  <2>1. Pair(o, p[5], p[6]) /\ \A k \in 1..4 : Pair(o, p[k], p[5]) /\ Pair(o, p[k], p[6])
    BY DEF Order
  <2>2. QED BY <1>0, <2>1, ConcatApart DEF Order
<1>2. t5 \in Seq(Nat)
  BY <1>0, ConcatProperties
<1> HIDE DEF t5
<1>3. t4 \in Seq(Nat) /\ Inc(o, t4) /\ \A k \in 1..3 : Pair(o, p[k], t4)
  BY <1>0, <1>1, <1>2, ConcatApart, ConcatProperties DEF Order
<1> HIDE DEF t4
<1>4. t3 \in Seq(Nat) /\ Inc(o, t3) /\ \A k \in 1..2 : Pair(o, p[k], t3)
  BY <1>0, <1>3, ConcatApart, ConcatProperties DEF Order
<1> HIDE DEF t3
<1>5. t2 \in Seq(Nat) /\ Inc(o, t2) /\ Pair(o, p[1], t2)
  BY <1>0, <1>4, ConcatApart, ConcatProperties DEF Order
<1> HIDE DEF t2
<1>6. Inc(o, p[1] \o t2)
  BY <1>0, <1>5, ConcatApart DEF Order
<1>7. QED BY <1>6 DEF t2, t3, t4, t5

\* Nothing is spoken twice, and what is spoken is in the order it was said unless a say was
\* sent while older ones were in the queue, for any number of things said, whatever rexx
\* reads of the Speaker without its lock (Speaker.java:51-66, 85-97).
THEOREM AlwaysSpokenInOrder == Spec => []SpokenInOrder
<1>1. TypeInv /\ OrderInv => SpokenInOrder
  <2> SUFFICES ASSUME TypeInv, OrderInv PROVE SpokenInOrder
    OBVIOUS
  <2>1. Inc(overtaken, Pipeline) /\ Pipeline \in Seq(Nat)
    <3>1. Pipe \in Pipes
      BY PipeType
    <3>2. spoken \in Seq(Nat) /\ engine \in Seq(Nat) /\ InHand \in Seq(Nat) /\ msgs \in Seq(Nat)
          /\ queue \in Seq(Nat) /\ Saying \in Seq(Nat)
      BY <3>1, PipeParts DEF Pipes
    <3>3. Pipeline \in Seq(Nat)
      BY <3>2, ConcatProperties DEF Pipeline
    <3>4. QED BY <3>1, <3>3, OrderJoins, PipeParts DEF OrderInv, Pipeline
  <2>2. DOMAIN Pipeline = 1..Len(Pipeline) /\ \A i \in 1..Len(Pipeline) : Pipeline[i] \in Nat
    BY <2>1, LenProperties, ElementOfSeq
  <2>3. \A i, j \in 1..Len(Pipeline) : i < j => Apart(overtaken, Pipeline[i], Pipeline[j])
    BY <2>1 DEF Inc
  <2> HIDE DEF Pipeline
  <2>4. QED BY <2>2, <2>3 DEF SpokenInOrder, Apart
<1>2. OrderInv /\ TypeInv /\ StartInv /\ TypeInv' /\ [Next]_vars => OrderInv'
  BY OrderNext
<1>3. QED BY OrderInit, TypeInit, TypeNext, StartNext, <1>1, <1>2, PTL DEF Spec

=============================================================================
