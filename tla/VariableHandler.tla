-------------------------- MODULE VariableHandler --------------------------
(***************************************************************************)
(* The variable pool of the interpreter (VariableHandler.cpp, Variable.cpp,*)
(* HashMap.cpp, the cache of Symbol.h).                                    *)
(*                                                                         *)
(* Every PROCEDURE pushes a scope, a map from names to variables, under an *)
(* identifier that is never used again.  A symbol of the compiled program  *)
(* caches the variable it last denoted and the identifier of the scope it  *)
(* was found in.  An exposed variable holds no value: it points at its     *)
(* source, in an older scope.  A stem has a map of tails, its own          *)
(* variables, reached through its source.                                  *)
(*                                                                         *)
(* The program has a simple symbol RC, a stem S. and the compound S.RC; the*)
(* handler has a private symbol, rc, for the variable RC that the          *)
(* interpreter sets itself (RESULT and SIGL are handled alike).            *)
(*                                                                         *)
(* C++ memory is modelled: a variable is an address, `delete` makes it     *)
(* dead, and an operation that reads, writes or deletes a dead variable    *)
(* raises `bad`, after which nothing is said of the program.               *)
(*                                                                         *)
(* Definitions named Mut... are wrong variants of the one that follows:    *)
(* the properties are tried against them.                                  *)
(***************************************************************************)
EXTENDS Integers, Sequences, FiniteSets, Functions

CONSTANTS Data,      \* the values a program assigns
          MaxVars,   \* bound: variables alive, or still pointed at, at a time
          MaxId,     \* bound: scopes pushed in a run
          LastVars,  \* bound: the same after a step that leaves MaxId pushed
          MaxDepth,  \* bound: scopes that exist at a time
          MaxExposed \* bound: symbols in a PROCEDURE EXPOSE

ASSUME BoundsAreNat == {MaxVars, MaxId, LastVars, MaxDepth, MaxExposed} \subseteq Nat \ {0}
ASSUME DataAreNotNames == {"RC", "S.", "null"} \cap Data = {}

VARIABLES mem,   \* the variables, scopes and caches; `bad`; and, for OwnedOnce, `left`:
                 \* the variables that put() did not put in the map they were made for
          idMax, \* the last scope identifier used
          target \* the variable an assignment clause has put on the stack

vars == <<mem, idMax, target>>

\* Only the value of RC says where a variable is found, being the tail of S.RC;
\* those of the stem and of its tails are not kept, only written.
Null    == "null"
Values  == Data \union {"RC", Null}
Tails   == Values

Simple  == {"RC", "S."}             \* names, and symbols of the program
Compound == "S.RC"
Symbols == Simple \union {Compound}
Cached  == Simple \union {"rc"}     \* the symbols that have a cache
Key(sym) == IF sym = "rc" THEN "RC" ELSE sym

Vars    == 1..MaxVars
NoVar   == 0
Address == Vars \union {NoVar}      \* NoVar is never alive
NoCache == [id |-> -1, var |-> NoVar]
NoTails == [t \in {} |-> NoVar]
Dead    == [live |-> FALSE, key |-> Null, val |-> Null, src |-> NoVar, tails |-> NoTails]
NoTarget == [var |-> NoVar, depth |-> 0, stem |-> FALSE]
EmptyMap == [n \in Simple |-> NoVar]

Init ==
  /\ mem = [heap |-> [v \in Address |-> Dead],
            scopes |-> << [id |-> 1, map |-> EmptyMap] >>,
            cache |-> [s \in Cached |-> NoCache],
            left |-> {},
            bad |-> FALSE]
  /\ idMax = 1
  /\ target = NoTarget

-----------------------------------------------------------------------------
(***************************************************************************)
(* Variables and their maps.  m is the memory an operation starts from, d  *)
(* the depth of the scope it takes as the current one.                     *)
(***************************************************************************)
Source(m, v)    == m.heap[v].src
IsExposed(m, v) == Source(m, v) # v
ValueOf(m, v)   == m.heap[Source(m, v)].val
TailsOf(m, v)   == m.heap[Source(m, v)].tails

Usable(m, v) == m.heap[v].live /\ m.heap[Source(m, v)].live

\* The variables vs are read.
Use(m, vs) == [m EXCEPT !.bad = @ \/ \E v \in vs \ {NoVar} : ~Usable(m, v)]

SetValue(m, v, x) ==
  IF ~Usable(m, v) THEN [m EXCEPT !.bad = TRUE]
  ELSE IF m.heap[Source(m, v)].key # "RC" THEN m
  ELSE [m EXCEPT !.heap[Source(m, v)].val = x]

\* An unused address.  One that a cache in use, a map of tails or the operand
\* stack still points at is not used again, so that using a dead variable is
\* always seen.
PointedByCaches(m) ==
  LET ids == {m.scopes[i].id : i \in DOMAIN m.scopes}
  IN  {m.cache[s].var : s \in {s \in Cached : m.cache[s].id \in ids}}
Unused(m) ==
  {v \in Vars : ~m.heap[v].live /\ v # target.var} \
    (PointedByCaches(m) \union UNION {Range(m.heap[v].tails) : v \in Vars})
NewAddr(m) == IF Unused(m) = {} THEN NoVar ELSE CHOOSE v \in Unused(m) : TRUE
\* The bounds MaxVars and LastVars: a step that would need more variables is
\* not taken.
Fits(m)  == ~m.heap[NoVar].live
FewIn(m) == idMax' = MaxId => Cardinality(Vars \ Unused(m)) <= LastVars

New(m, a, n, src) == [m EXCEPT !.heap[a] = [live |-> TRUE, key |-> n, val |-> Null,
                                             src |-> src, tails |-> NoTails]]

\* delete, of each of the variables vs.
Free(m, vs) == [m EXCEPT !.bad = @ \/ \E v \in vs : ~m.heap[v].live,
                         !.heap = [v \in Address |-> IF v \in vs THEN Dead ELSE @[v]]]

\* What ~Variable deletes: itself, and its tails if they are its own.
MutOwned(m, v) == {v}
Owned(m, v) == {v} \union (IF IsExposed(m, v) THEN {} ELSE Range(m.heap[v].tails))

\* HashMap::clear deletes the items and leaves the table pointing at them.
ClearTail(m, v) == Free(m, Range(TailsOf(m, v)))

GetVar(m, d, n) == m.scopes[d].map[n]
PutVar(m, d, n, v) == [m EXCEPT !.scopes[d].map[n] = v]

RemoveVar(m, d, n) ==
  IF GetVar(m, d, n) = NoVar THEN m
  ELSE PutVar(Free(m, Owned(m, GetVar(m, d, n))), d, n, NoVar)

GetTail(m, v, t) == LET ts == TailsOf(m, v)
                    IN  IF t \in DOMAIN ts THEN ts[t] ELSE NoVar

\* put() keeps the item that is already there: w is then in no map.
PutTail(m, v, t, w) ==
  [m EXCEPT !.heap[Source(m, v)].tails =
              [u \in (DOMAIN @) \union {t} |-> IF u \in DOMAIN @ THEN @[u] ELSE w],
            !.left = IF t \in DOMAIN TailsOf(m, v) THEN @ \union {w} ELSE @]

CacheVar(m, d, sym, v) ==
  [m EXCEPT !.cache[sym] = IF v = NoVar THEN NoCache
                           ELSE [id |-> m.scopes[d].id, var |-> v]]
MutUncache(m, sym) == [m EXCEPT !.cache[sym].id = 0]
Uncache(m, sym) == [m EXCEPT !.cache[sym] = NoCache]

MutGetCached(m, d, sym) ==
  IF m.cache[sym].id > 0 THEN m.cache[sym].var ELSE NoVar
GetCached(m, d, sym) ==
  IF m.cache[sym].id = m.scopes[d].id THEN m.cache[sym].var ELSE NoVar

-----------------------------------------------------------------------------
(***************************************************************************)
(* Finding a variable.  What these return: the memory after it, the        *)
(* variable (for a missing tail, the stem), whether it was found, and the  *)
(* tail.                                                                   *)
(***************************************************************************)
Found(m, v, found, t) == [m |-> m, var |-> v, found |-> found, tail |-> t]

\* getTail on the stem v, if there is one.
FindTail(m, v, t) ==
  LET w == GetTail(m, v, t)
  IN  IF w = NoVar THEN Found(Use(m, {v}), v, FALSE, t)
      ELSE Found(Use(m, {v, w}), w, TRUE, t)

TailName(m, p) == IF p = NoVar THEN "RC" ELSE ValueOf(m, p)

\* get(): by symbol.  The symbols a compound is made of are looked for in their
\* own caches, then in the map, and cached: the stem even when there is none.
Lookup(m, d, n) == LET v == GetCached(m, d, n)
                   IN  IF v # NoVar THEN v ELSE GetVar(m, d, n)
CacheStem(m, d) == CacheVar(m, d, "S.", Lookup(m, d, "S."))
CacheIfAny(m, d, sym, v) == IF v = NoVar THEN m ELSE CacheVar(m, d, sym, v)

GetSimple(m, d, sym) == LET v == GetVar(m, d, Key(sym))
                        IN  Found(CacheIfAny(m, d, sym, v), v, v # NoVar, Null)
GetCompound(m, d) ==
  LET With(stem, part) ==
        FindTail(Use(CacheIfAny(CacheStem(m, d), d, "RC", part), {part}),
                 stem, TailName(m, part))
  IN  With(Lookup(m, d, "S."), Lookup(m, d, "RC"))
Get(m, d, sym) == IF sym = Compound THEN GetCompound(m, d) ELSE GetSimple(m, d, sym)

\* find(): by name, in the current scope, without the caches.
Find(m, d, n) ==
  IF n = Compound THEN FindTail(m, GetVar(m, d, "S."), TailName(m, GetVar(m, d, "RC")))
  ELSE Found(m, GetVar(m, d, n), GetVar(m, d, n) # NoVar, Null)

CreateSimple(m, d, n) ==
  LET With(v) == Found(PutVar(New(m, v, n, v), d, n, v), v, FALSE, Null)
  IN  With(NewAddr(m))

\* The stem r found, or a new one, then its tail, as in access() and setValue().
CreateStem(r, d) ==
  LET With(v) == [r EXCEPT !.m = PutVar(New(r.m, v, "S.", v), d, "S.", v), !.var = v]
  IN  IF r.var # NoVar THEN r ELSE With(NewAddr(r.m))
CreateTail(r) ==
  LET With(w) == Found(PutTail(New(Use(r.m, {r.var}), w, Compound, w), r.var, r.tail, w),
                       w, FALSE, r.tail)
  IN  With(NewAddr(r.m))
CreateCompound(r, d) == CreateTail(CreateStem(r, d))

\* access(): by symbol; what is missing is created.
Access(m, d, sym) ==
  LET AndCached(c) == [c EXCEPT !.m = CacheVar(c.m, d, sym, c.var)]
      With(r) == IF r.found THEN r
                 ELSE IF sym = Compound THEN CreateCompound(r, d)
                 ELSE AndCached(CreateSimple(r.m, d, Key(sym)))
  IN  With(Get(m, d, sym))

\* getCached(), else the other search; only simple symbols are cached.
CachedOr(m, d, sym, r) ==
  LET With(v) == IF v = NoVar THEN r ELSE Found(Use(m, {v}), v, TRUE, Null)
  IN  With(IF sym = Compound THEN NoVar ELSE GetCached(m, d, sym))

\* The value of the stem goes to the sources of its tails: it uses them all.
AssignStem(r) == Use(r.m, Range(TailsOf(r.m, r.var)))

-----------------------------------------------------------------------------
(***************************************************************************)
(* The operations.  Each one works in the current scope, the last.         *)
(***************************************************************************)
Depth == Len(mem.scopes)
Idle  == ~mem.bad /\ target = NoTarget
Runs  == ~mem.bad

loadVar(sym) ==
  /\ Runs
  /\ mem' = CachedOr(mem, Depth, sym, Get(mem, Depth, sym)).m
  /\ UNCHANGED <<idMax, target>>

\* sym = expression: the variable's address goes on the operand stack before
\* the expression is evaluated, which may call routines that drop it.
createVar(sym) ==
  /\ Idle
  /\ LET r == CachedOr(mem, Depth, sym, Access(mem, Depth, sym))
     IN  /\ mem' = r.m
         /\ target' = [var |-> r.var, depth |-> Depth, stem |-> sym = "S."]
  /\ UNCHANGED idMax
  /\ Fits(mem') /\ FewIn(mem')

\* The end of the clause: the value is stored through that address, and for a
\* stem I_SET_STEM copies it to all the tails.
SetStem(m) ==
  LET With(r) == IF r.found THEN AssignStem(r) ELSE r.m
  IN  With(CachedOr(m, Depth, "S.", Get(m, Depth, "S.")))

assign(x) ==
  /\ Runs /\ target # NoTarget /\ target.depth = Depth
  /\ mem' = IF target.stem THEN SetStem(SetValue(mem, target.var, x))
            ELSE SetValue(mem, target.var, x)
  /\ target' = NoTarget
  /\ UNCHANGED idMax

\* RC, RESULT and SIGL are set through the handler's own symbols.
setRC(x) ==
  /\ Runs
  /\ LET With(r) == SetValue(r.m, r.var, x)
     IN  mem' = With(CachedOr(mem, Depth, "rc", Access(mem, Depth, "rc")))
  /\ UNCHANGED <<idMax, target>>
  /\ Fits(mem') /\ FewIn(mem')

\* What DROP does with the variable r found; a missing tail has found its stem,
\* whose value is set.  An exposed variable is not removed from the map.
MutDropped(r, d, sym) ==
  IF sym = Compound THEN SetValue(r.m, r.var, Null) ELSE RemoveVar(r.m, d, Key(sym))
Dropped(r, d, sym) ==
  IF sym = Compound THEN SetValue(r.m, r.var, Null)
  ELSE IF ~IsExposed(r.m, r.var) THEN RemoveVar(r.m, d, Key(sym))
  ELSE IF ValueOf(r.m, r.var) = Null THEN ClearTail(r.m, r.var)
  ELSE ClearTail(SetValue(r.m, r.var, Key(sym)), r.var)

dropVar(sym) ==
  /\ Runs
  /\ LET Done(r) == IF r.var = NoVar \/ r.m.bad THEN r.m ELSE Dropped(r, Depth, sym)
         After(m) == IF sym = Compound THEN m ELSE Uncache(m, sym)
     IN  mem' = After(Done(CachedOr(mem, Depth, sym, Get(mem, Depth, sym))))
  /\ UNCHANGED <<idMax, target>>

\* DROP (name): an exposed variable, or the exposed stem of a missing tail,
\* gets the name as its value and loses its tails.
MutUncached(m, n) == m
Uncached(m, n) == Uncache(m, n)

dropIndirect(n) ==
  /\ Runs
  /\ LET With(r) ==
           IF r.var = NoVar \/ r.m.bad THEN r.m
           ELSE IF IsExposed(r.m, r.var) THEN ClearTail(SetValue(r.m, r.var, n), r.var)
           ELSE IF n = Compound THEN SetValue(r.m, r.var, Null)
           ELSE Uncached(RemoveVar(r.m, Depth, n), n)
     IN  mem' = With(Find(mem, Depth, n))
  /\ UNCHANGED <<idMax, target>>

\* VALUE(n, x): what is missing is created, and not cached.
setValue(n, x) ==
  /\ Runs
  /\ LET Set(r) == SetValue(r.m, r.var, x)
         With(r) == IF r.found THEN r
                    ELSE IF n = Compound THEN CreateCompound(r, Depth)
                    ELSE CreateSimple(r.m, Depth, n)
     IN  mem' = Set(With(Find(mem, Depth, n)))
  /\ UNCHANGED <<idMax, target>>
  /\ Fits(mem') /\ FewIn(mem')

\* The entry of the current scope for r, found in the previous one.
MutExposedSource(m, v) == v
ExposedSource(m, v) == Source(m, v)

ExposedTail(r, d, v) ==
  LET With(s, w) == PutTail(New(s.m, w, Compound, v), s.var, s.tail, w)
      Stem(s) == With(s, NewAddr(s.m))
  IN  Stem(CreateStem([r EXCEPT !.var = GetVar(r.m, d, "S.")], d))
ExposedSimple(m, d, n, v) ==
  LET With(w) == PutVar(New(m, w, n, v), d, n, w)
  IN  With(NewAddr(m))
NewExposed(r, d, sym) ==
  IF r.m.bad THEN r.m
  ELSE IF sym = Compound THEN ExposedTail(r, d, ExposedSource(r.m, r.var))
  ELSE ExposedSimple(r.m, d, sym, ExposedSource(r.m, r.var))

\* expose(): a symbol that exists in the new scope, or a missing tail of a stem
\* that is exposed, is left alone.  Otherwise the variable is found or created
\* in the previous scope (with that scope's identifier and that scope's value
\* of the parts of a compound) and gets its name as its value if created.
Expose(m, d, sym) ==
  LET Named(r) == IF r.found THEN r ELSE [r EXCEPT !.m = SetValue(r.m, r.var, sym)]
      With(here) ==
        IF here.m.bad \/ here.found \/ (here.var # NoVar /\ IsExposed(here.m, here.var))
        THEN here.m
        ELSE NewExposed(Named(Access(here.m, d - 1, sym)), d, sym)
  IN  With(Get(m, d, sym))

\* I_PROC: a new scope, with a new identifier, then the exposed symbols in order.
\* A list may have a symbol more than once. The tail of S.RC is looked for under
\* the new scope's RC and put under the other's, so that a second S.RC may not
\* find what the first one has exposed, and expose it again.
ExposeLists == UNION {[1..k -> Symbols] : k \in 0..MaxExposed}

ExposeAll(m, d, list) ==
  LET after[i \in 0..Len(list)] ==
        IF i = 0 THEN m ELSE Expose(after[i-1], d, list[i])
  IN  after[Len(list)]

procedure(list) ==
  /\ Runs /\ Depth < MaxDepth /\ idMax < MaxId
  /\ idMax' = idMax + 1
  /\ mem' = ExposeAll([mem EXCEPT !.scopes = Append(@, [id |-> idMax + 1, map |-> EmptyMap])],
                      Depth + 1, list)
  /\ UNCHANGED target
  /\ Fits(mem') /\ FewIn(mem')

\* The end of a routine that has executed PROCEDURE.
popScope ==
  /\ Runs /\ Depth > 1 /\ target.depth < Depth
  /\ LET vs == Range(mem.scopes[Depth].map) \ {NoVar}
     IN  mem' = [Free(mem, UNION {Owned(mem, v) : v \in vs})
                   EXCEPT !.scopes = SubSeq(@, 1, Depth - 1)]
  /\ UNCHANGED <<idMax, target>>

-----------------------------------------------------------------------------
Clause == \/ \E sym \in Symbols : loadVar(sym) \/ createVar(sym) \/ dropVar(sym)
          \/ \E d \in Data : assign(d)
Indirect == \E n \in Symbols : dropIndirect(n) \/ \E d \in Data : setValue(n, d)
Interpreter == \E d \in Data : setRC(d)
Routine == popScope \/ \E list \in ExposeLists : procedure(list)

Next == Clause \/ Indirect \/ Interpreter \/ Routine

Spec == Init /\ [][Next]_vars

-----------------------------------------------------------------------------
(***************************************************************************)
(* Properties.                                                             *)
(***************************************************************************)
Live == {v \in Vars : mem.heap[v].live}
IsVariable(h) == /\ DOMAIN h = {"live", "key", "val", "src", "tails"}
                 /\ h.live \in BOOLEAN
                 /\ h.key \in {Null} \union Symbols
                 /\ h.val \in Values
                 /\ h.src \in Address
                 /\ DOMAIN h.tails \subseteq Tails /\ Range(h.tails) \subseteq Address

\* The variables and their maps, the scopes, the caches and the pending
\* assignment have the types of Variable.h, VariableHandler.h and Symbol.h.
TypeOK ==
  /\ DOMAIN mem.heap = Address /\ \A v \in Address : IsVariable(mem.heap[v])
  /\ mem.scopes \in Seq([id : 1..MaxId, map : [Simple -> Address]])
  /\ mem.cache \in [Cached -> [id : {-1} \union 1..MaxId, var : Address]]
  /\ mem.left \subseteq Address /\ mem.bad \in BOOLEAN
  /\ idMax \in 1..MaxId
  /\ target \in [var : Address, depth : 0..MaxDepth, stem : BOOLEAN]

\* The symbol s, if it has the identifier of scope i in its cache, has the
\* variable that is in that scope's map.
CacheAgrees(s, i) ==
  mem.cache[s].id = mem.scopes[i].id =>
    mem.cache[s].var # NoVar /\ mem.cache[s].var = mem.scopes[i].map[Key(s)]

\* The header of VariableHandler.cpp, for the symbols of the program: if the
\* id equals a scope's id, the cached pointer is the right variable, through
\* any drops, calls, exposures and returns since it was cached.
CacheSound == ~mem.bad => \A s \in Simple, i \in 1..Depth : CacheAgrees(s, i)

\* "If the 'id' member equals the current scope id, then the 'm_value' points at
\* the right Variable" (VariableHandler.cpp:13-14), for every symbol: also the
\* handler's private RC, which no DROP uncaches.
CachedIsRight == ~mem.bad => \A s \in Cached : CacheAgrees(s, Depth)

Scope(i)  == LET vs == Range(mem.scopes[i].map) \ {NoVar}
             IN  vs \union UNION {Owned(mem, v) : v \in vs}

\* The source of a variable of a scope is alive, has no other source, and
\* belongs to that scope or an older one (expose(), ~Variable).
SourcesLive ==
  ~mem.bad => \A i \in 1..Depth : \A v \in Scope(i) : mem.heap[v].live =>
    /\ mem.heap[v].src \in Live
    /\ ~IsExposed(mem, Source(mem, v))
    /\ \E j \in 1..i : Source(mem, v) \in Scope(j)

\* Every live variable is in one scope only: none is shared by two maps, none
\* is left behind by RETURN or DROP. The one exception, never deleted, is what
\* PROCEDURE EXPOSE makes for a tail it has exposed already: it is in no scope,
\* and always an exposure, so that no value is lost with it.
OwnedOnce ==
  ~mem.bad => /\ \A v \in Live \ mem.left : \E i \in 1..Depth : v \in Scope(i)
              /\ \A v \in mem.left : v \in Live /\ IsExposed(mem, v) /\ \A i \in 1..Depth : v \notin Scope(i)
              /\ \A i, j \in 1..Depth : Scope(i) \cap Scope(j) # {} => i = j
              /\ \A v, w \in Live :
                   \A t \in DOMAIN mem.heap[v].tails, u \in DOMAIN mem.heap[w].tails :
                     mem.heap[v].tails[t] = mem.heap[w].tails[u] => v = w /\ t = u

\* DROP of an exposed variable "frees only data" (VariableHandler.cpp:448 and
\* VariableHandler.h:164): no map of tails points at a deleted variable.
DropFreesOnlyData ==
  ~mem.bad => \A v \in Live : Range(mem.heap[v].tails) \subseteq Live

\* What the current scope can reach: its variables and what they expose.
Reach == UNION {{v, Source(mem, v)} \union
                  (IF v \in Live THEN Range(TailsOf(mem, v)) ELSE {})
                : v \in Scope(Depth)}
ReachSources == Reach \union {Source(mem, v) : v \in Reach}

\* PROCEDURE isolates: no clause of a routine changes or deletes a variable of
\* an older scope that the routine's own scope does not expose.
CallerIsolated ==
  [][~mem'.bad => \A i \in 1..Depth - 1 : \A v \in Scope(i) :
       mem'.heap[v] # mem.heap[v] => v \in ReachSources \/ Len(mem'.scopes) > Depth]_mem

\* A variable a routine exposes stays its caller's until the routine ends,
\* whatever is dropped (the isExposed() branches of dropVar and dropIndirect).
ExposureKept ==
  [][~mem'.bad => \A i \in 1..Depth, n \in Simple :
       LET v == mem.scopes[i].map[n]
       IN  v # NoVar /\ IsExposed(mem, v) /\ i <= Len(mem'.scopes) =>
             mem'.scopes[i].map[n] = v /\ mem'.heap[v] = mem.heap[v]]_mem

=============================================================================
