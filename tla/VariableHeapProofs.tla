------------------------ MODULE VariableHeapProofs -------------------------
(***************************************************************************)
(* The variables themselves, for any bounds and values: TypeOK,            *)
(* SourcesLive, OwnedOnce, ExposureKept and CallerIsolated.                *)
(*                                                                         *)
(* Forest says how the scopes, the stems and the sources hang together: a  *)
(* live variable is in the map of one scope or of one stem, or was left    *)
(* out by put() (left): it then is in no map and exposes another; a stem   *)
(* that has tails is nobody's entry but its own scope's, and what an entry *)
(* exposes the same entry of the scope below has for source too, down to   *)
(* the scope that owns it.  It holds while nothing dead was used (bad) and *)
(* the bound on variables was not met (Fits); Fine adds the types, which   *)
(* always hold.  An operation only changes values (SameShape), adds an     *)
(* entry, adds a tail, or deletes: an entry of the last scope and its      *)
(* tails, the tails of a stem the last scope exposes, or the last scope.   *)
(*                                                                         *)
(* Pointed says where the two pointers that are not in the maps lead: what *)
(* the cache of the handler's RC and the target of an assignment have is   *)
(* dead, or in the scope that it was taken from.  With it, what a step may *)
(* change is what the current scope reaches, or new (Within).              *)
(***************************************************************************)
EXTENDS VariableHandlerProofs

Maps == UNION {[D -> Address] : D \in SUBSET Tails}
Variable == [live : BOOLEAN, key : {Null} \union Symbols, val : Values, src : Address, tails : Maps]

\* The variables have their types.
Typed(m) == m.heap \in [Address -> Variable] /\ m.left \subseteq Address /\ m.bad \in BOOLEAN

\* What the maps have is alive, under its own name.
EntriesLive(m) == \A i \in 1..Len(m.scopes), k \in Simple :
  GetVar(m, i, k) # NoVar => /\ m.heap[GetVar(m, i, k)].live
                             /\ m.heap[GetVar(m, i, k)].key = k
\* No variable is in the maps of two scopes.
EntriesApart(m) == \A i, j \in 1..Len(m.scopes), k \in Simple :
  GetVar(m, i, k) # NoVar /\ GetVar(m, i, k) = GetVar(m, j, k) => i = j
\* Only a live stem that is not exposed has tails.
TailsOwn(m) == \A g \in Address : \A t \in DOMAIN m.heap[g].tails :
  /\ m.heap[g].live /\ m.heap[g].key = "S." /\ m.heap[g].src = g
  /\ m.heap[g].tails[t] \in Vars
  /\ m.heap[m.heap[g].tails[t]].live => m.heap[m.heap[g].tails[t]].key = Compound
TailsApart(m) == \A g, h \in Address :
  \A t \in DOMAIN m.heap[g].tails, u \in DOMAIN m.heap[h].tails :
    m.heap[g].tails[t] = m.heap[h].tails[u] => g = h /\ t = u
\* A live variable is in the map of a scope or of a stem, or was left out of the map of a
\* stem: it then exposes another one, and is in no map.
InScopes(m, v) == \E i \in 1..Len(m.scopes), k \in Simple : v = GetVar(m, i, k)
InTails(m, v) == \E g \in Address : \E t \in DOMAIN m.heap[g].tails : v = m.heap[g].tails[t]
AllOwned(m) == \A v \in Address : m.heap[v].live => InScopes(m, v) \/ InTails(m, v) \/ v \in m.left
LeftApart(m) == \A v \in m.left : /\ m.heap[v].live /\ m.heap[v].key = Compound
                                 /\ m.heap[v].src # v /\ ~InTails(m, v)
\* Sources; what was left out may outlive its own.
SourcesAlive(m) == \A v \in Address \ m.left :
  IF m.heap[v].live
  THEN /\ m.heap[Source(m, v)].live
       /\ m.heap[Source(m, v)].key = m.heap[v].key
       /\ Source(m, Source(m, v)) = Source(m, v)
  ELSE Source(m, v) = NoVar
EntriesExposed(m) == \A i \in 1..Len(m.scopes), k \in Simple :
  GetVar(m, i, k) # NoVar /\ IsExposed(m, GetVar(m, i, k)) =>
    i > 1 /\ GetVar(m, i - 1, k) # NoVar /\ Source(m, GetVar(m, i - 1, k)) = Source(m, GetVar(m, i, k))
TailIn(m, j, v) == /\ GetVar(m, j, "S.") # NoVar
                   /\ \E u \in DOMAIN m.heap[GetVar(m, j, "S.")].tails :
                         v = m.heap[GetVar(m, j, "S.")].tails[u]
TailsExposed(m) == \A i \in 1..Len(m.scopes), v \in Address :
  TailIn(m, i, v) /\ m.heap[v].live /\ IsExposed(m, v) => \E j \in 1..(i - 1) : TailIn(m, j, Source(m, v))

Forest(m) ==
  /\ EntriesLive(m) /\ EntriesApart(m)
  /\ TailsOwn(m) /\ TailsApart(m)
  /\ AllOwned(m) /\ LeftApart(m)
  /\ SourcesAlive(m) /\ EntriesExposed(m) /\ TailsExposed(m)

Sane(m) == ~m.bad /\ ~m.heap[NoVar].live
Fine(m) == Typed(m) /\ (Sane(m) => Forest(m))

-----------------------------------------------------------------------------
(***************************************************************************)
(* Types.                                                                  *)
(***************************************************************************)
LEMMA MapsElim ==
  ASSUME NEW f \in Maps
  PROVE  DOMAIN f \subseteq Tails /\ (\A t \in DOMAIN f : f[t] \in Address) /\ f \in [DOMAIN f -> Address]
<1>1. PICK D \in SUBSET Tails : f \in [D -> Address]
  BY DEF Maps
<1> QED BY <1>1

LEMMA MapsIntro ==
  ASSUME NEW D, D \subseteq Tails, NEW f \in [D -> Address] PROVE f \in Maps
BY DEF Maps

LEMMA Sorts == /\ Vars \subseteq Address /\ NoVar \in Address /\ NoVar \notin Vars
               /\ \A v \in Address : v # NoVar => v \in Vars
               /\ Data \subseteq Values /\ Null \in Values /\ "RC" \in Values /\ Values = Tails
               /\ Simple \subseteq Symbols /\ Compound \in Symbols /\ "RC" \in Simple /\ "S." \in Simple
               /\ Compound # "RC" /\ Compound # "S." /\ Null \notin Symbols
BY BoundsAreNat DEF Vars, Address, NoVar, Values, Tails, Null, Simple, Compound, Symbols

LEMMA DeadIsVariable == Dead \in Variable /\ NoTails \in Maps /\ DOMAIN NoTails = {}
<1>1. DOMAIN NoTails = {} /\ NoTails \in [{} -> Address]
  BY DEF NoTails
<1>2. NoTails \in Maps
  BY <1>1, MapsIntro
<1> QED BY <1>1, <1>2, Sorts DEF Dead, Variable

LEMMA TypedHeap ==
  ASSUME NEW m, Typed(m), NEW v \in Address
  PROVE  /\ m.heap[v] \in Variable /\ m.heap[v].live \in BOOLEAN
         /\ m.heap[v].key \in {Null} \union Symbols
         /\ m.heap[v].val \in Values /\ Source(m, v) \in Address /\ m.heap[v].src \in Address
         /\ m.heap[v].tails \in Maps /\ DOMAIN m.heap[v].tails \subseteq Tails
         /\ \A t \in DOMAIN m.heap[v].tails : m.heap[v].tails[t] \in Address
<1>1. m.heap[v] \in Variable
  BY DEF Typed
<1>2. m.heap[v].tails \in Maps
  BY <1>1 DEF Variable
<1> QED BY <1>1, <1>2, MapsElim DEF Variable, Source

\* The heap and bad are all that Typed looks at.
LEMMA UseTyped ==
  ASSUME NEW m, DOMAIN m = Fields, Typed(m), NEW vs
  PROVE  /\ Typed(Use(m, vs)) /\ Use(m, vs).heap = m.heap
         /\ Use(m, vs).bad <=> m.bad \/ \E v \in vs \ {NoVar} : ~Usable(m, v)
         /\ DOMAIN Use(m, vs) = Fields /\ Use(m, vs).left = m.left
<1>1. Use(m, vs).heap = m.heap /\ DOMAIN Use(m, vs) = Fields /\ Use(m, vs).left = m.left
  BY DEF Use, Fields
<1>2. Use(m, vs).bad = (m.bad \/ \E v \in vs \ {NoVar} : ~Usable(m, v))
  BY DEF Use, Fields
<1>3. Use(m, vs).bad \in BOOLEAN
  BY <1>2
<1> QED BY <1>1, <1>2, <1>3 DEF Typed

LEMMA NewTyped ==
  ASSUME NEW m, DOMAIN m = Fields, Typed(m), NEW a \in Address, NEW k \in Symbols, NEW s \in Address
  PROVE  /\ Typed(New(m, a, k, s)) /\ New(m, a, k, s).bad = m.bad
         /\ DOMAIN New(m, a, k, s) = Fields /\ New(m, a, k, s).left = m.left
         /\ \A v \in Address : v # a => New(m, a, k, s).heap[v] = m.heap[v]
         /\ New(m, a, k, s).heap[a] = [live |-> TRUE, key |-> k, val |-> Null, src |-> s, tails |-> NoTails]
<1> DEFINE x == [live |-> TRUE, key |-> k, val |-> Null, src |-> s, tails |-> NoTails]
<1>1. x \in Variable
  BY DeadIsVariable, Sorts DEF Variable
<1>2. /\ New(m, a, k, s).heap = [m.heap EXCEPT ![a] = x] /\ New(m, a, k, s).bad = m.bad
      /\ DOMAIN New(m, a, k, s) = Fields /\ New(m, a, k, s).left = m.left
  BY DEF New, Fields
<1> HIDE DEF x
<1>3. Typed(New(m, a, k, s))
  BY <1>1, <1>2 DEF Typed
<1>4. /\ \A v \in Address : v # a => New(m, a, k, s).heap[v] = m.heap[v]
      /\ New(m, a, k, s).heap[a] = x
  BY <1>2 DEF Typed
<1> QED BY <1>2, <1>3, <1>4 DEF x

LEMMA PutVarHeap ==
  ASSUME NEW m, DOMAIN m = Fields, NEW d, NEW k, NEW v
  PROVE  PutVar(m, d, k, v).heap = m.heap /\ PutVar(m, d, k, v).bad = m.bad /\ PutVar(m, d, k, v).left = m.left
         /\ DOMAIN PutVar(m, d, k, v) = Fields
BY DEF PutVar, Fields

LEMMA CacheHeap ==
  ASSUME NEW m, DOMAIN m = Fields, NEW d, NEW sym, NEW v
  PROVE  /\ CacheVar(m, d, sym, v).heap = m.heap /\ CacheVar(m, d, sym, v).bad = m.bad
         /\ Uncache(m, sym).heap = m.heap /\ Uncache(m, sym).bad = m.bad
         /\ CacheIfAny(m, d, sym, v).heap = m.heap /\ CacheIfAny(m, d, sym, v).bad = m.bad
         /\ CacheVar(m, d, sym, v).left = m.left /\ Uncache(m, sym).left = m.left
         /\ CacheIfAny(m, d, sym, v).left = m.left
BY DEF CacheVar, Uncache, CacheIfAny, Fields

\* n is m with w under the name t in the map g, unless there is one there.
TailPut(m, n, g, t, w) ==
  /\ Typed(n) /\ n.bad = m.bad /\ DOMAIN n = Fields /\ g \in Address
  /\ \A u \in Address : u # g => n.heap[u] = m.heap[u]
  /\ n.heap[g].live = m.heap[g].live /\ n.heap[g].key = m.heap[g].key
  /\ n.heap[g].src = m.heap[g].src
  /\ DOMAIN n.heap[g].tails = (DOMAIN m.heap[g].tails) \union {t}
  /\ \A u \in DOMAIN m.heap[g].tails : n.heap[g].tails[u] = m.heap[g].tails[u]
  /\ t \notin DOMAIN m.heap[g].tails => n.heap[g].tails[t] = w /\ n.left = m.left
  /\ t \in DOMAIN m.heap[g].tails => n.heap = m.heap /\ n.left = m.left \union {w}

LEMMA PutTailTyped ==
  ASSUME NEW m, DOMAIN m = Fields, Typed(m), NEW v \in Address, NEW t \in Tails, NEW w \in Address
  PROVE  TailPut(m, PutTail(m, v, t, w), Source(m, v), t, w)
<1> DEFINE n == PutTail(m, v, t, w)
<1> DEFINE g == Source(m, v)
<1> DEFINE ts == m.heap[g].tails
<1> DEFINE D == (DOMAIN ts) \union {t}
<1> DEFINE us == [u \in D |-> IF u \in DOMAIN ts THEN ts[u] ELSE w]
<1>1. g \in Address
  BY TypedHeap
<1>2. /\ m.heap[g] \in Variable /\ DOMAIN ts \subseteq Tails
      /\ \A u \in DOMAIN ts : ts[u] \in Address
      /\ ts \in [DOMAIN ts -> Address]
  BY <1>1, TypedHeap, MapsElim
<1>3. us \in [D -> Address] /\ D \subseteq Tails
  BY <1>2
<1>4. us \in Maps
  BY <1>3, MapsIntro
<1>5. n.heap = [m.heap EXCEPT ![g].tails = us] /\ n.bad = m.bad /\ DOMAIN n = Fields
  BY DEF PutTail, Fields
<1>11. n.left = IF t \in DOMAIN ts THEN m.left \union {w} ELSE m.left
  BY DEF PutTail, Fields, TailsOf
<1>6. DOMAIN us = D /\ (\A u \in DOMAIN ts : us[u] = ts[u]) /\ (t \notin DOMAIN ts => us[t] = w)
  OBVIOUS
<1>12. t \in DOMAIN ts => us = ts
  BY <1>2
<1> DEFINE x == [m.heap[g] EXCEPT !.tails = us]
<1> HIDE DEF us, g
<1>13. t \in DOMAIN ts => x = m.heap[g]
  BY <1>2, <1>12 DEF Variable
<1>7. /\ x \in Variable /\ x.tails = us /\ x.live = m.heap[g].live /\ x.key = m.heap[g].key
      /\ x.src = m.heap[g].src /\ x.val = m.heap[g].val
  BY <1>2, <1>4 DEF Variable
<1>8. n.heap = [m.heap EXCEPT ![g] = x]
  BY <1>5
<1> HIDE DEF x, n
<1>9. Typed(n)
  BY <1>1, <1>5, <1>7, <1>8, <1>11 DEF Typed
<1>10. n.heap[g] = x /\ \A u \in Address : u # g => n.heap[u] = m.heap[u]
  BY <1>1, <1>8 DEF Typed
<1>14. t \in DOMAIN ts => n.heap = m.heap
  BY <1>1, <1>8, <1>13 DEF Typed
<1>15. /\ Typed(n) /\ n.bad = m.bad /\ DOMAIN n = Fields /\ g \in Address
       /\ \A u \in Address : u # g => n.heap[u] = m.heap[u]
       /\ n.heap[g].live = m.heap[g].live /\ n.heap[g].key = m.heap[g].key
       /\ n.heap[g].src = m.heap[g].src
  BY <1>1, <1>5, <1>7, <1>9, <1>10
<1>16. /\ DOMAIN n.heap[g].tails = (DOMAIN m.heap[g].tails) \union {t}
       /\ \A u \in DOMAIN m.heap[g].tails : n.heap[g].tails[u] = m.heap[g].tails[u]
       /\ t \notin DOMAIN m.heap[g].tails => n.heap[g].tails[t] = w /\ n.left = m.left
       /\ t \in DOMAIN m.heap[g].tails => n.heap = m.heap /\ n.left = m.left \union {w}
  BY <1>6, <1>7, <1>10, <1>11, <1>14
<1>17. TailPut(m, n, g, t, w)
  BY <1>15, <1>16 DEF TailPut
<1> QED BY <1>17 DEF n, g

LEMMA FreeTyped ==
  ASSUME NEW m, DOMAIN m = Fields, Typed(m), NEW vs
  PROVE  LET n == Free(m, vs)
         IN  /\ Typed(n) /\ DOMAIN n = Fields /\ n.left = m.left
             /\ n.bad <=> m.bad \/ \E v \in vs : ~m.heap[v].live
             /\ \A v \in Address : v \notin vs => n.heap[v] = m.heap[v]
             /\ \A v \in Address : v \in vs => n.heap[v] = Dead
<1> DEFINE n == Free(m, vs)
<1>1. /\ n.heap = [v \in Address |-> IF v \in vs THEN Dead ELSE m.heap[v]]
      /\ DOMAIN n = Fields /\ n.left = m.left
      /\ n.bad = (m.bad \/ \E v \in vs : ~m.heap[v].live)
  BY DEF Free, Fields
<1>2. n.heap \in [Address -> Variable]
  BY <1>1, DeadIsVariable, TypedHeap
<1>3. n.bad \in BOOLEAN
  BY <1>1
<1> QED BY <1>1, <1>2, <1>3 DEF Typed

\* Only the value of RC is kept, so that any name may be written to another variable.
LEMMA SetValueTyped ==
  ASSUME NEW m, DOMAIN m = Fields, Typed(m), NEW v \in Address, NEW x,
         x \in Values \/ m.heap[Source(m, v)].key # "RC"
  PROVE  LET n == SetValue(m, v, x)
         IN  /\ Typed(n) /\ DOMAIN n = Fields /\ n.left = m.left
             /\ n.bad <=> m.bad \/ ~Usable(m, v)
             /\ \A u \in Address : u # Source(m, v) => n.heap[u] = m.heap[u]
             /\ \A u \in Address : /\ n.heap[u].live = m.heap[u].live /\ n.heap[u].key = m.heap[u].key
                                   /\ n.heap[u].src = m.heap[u].src /\ n.heap[u].tails = m.heap[u].tails
<1> DEFINE n == SetValue(m, v, x)
<1> DEFINE g == Source(m, v)
<1>1. g \in Address /\ m.heap[g] \in Variable
  BY TypedHeap
<1>2. CASE ~Usable(m, v)
  <2>1. n = [m EXCEPT !.bad = TRUE]
    BY <1>2 DEF SetValue
  <2> QED BY <1>2, <2>1 DEF Typed, Fields
<1>3. CASE Usable(m, v) /\ m.heap[g].key # "RC"
  <2>1. n = m
    BY <1>3 DEF SetValue
  <2>2. m.bad <=> m.bad \/ ~Usable(m, v)
    BY <1>3
  <2> QED BY <2>1, <2>2
<1>4. CASE Usable(m, v) /\ m.heap[g].key = "RC"
  <2> DEFINE y == [m.heap[g] EXCEPT !.val = x]
  <2>1. x \in Values
    BY <1>4
  <2>2. n = [m EXCEPT !.heap[g].val = x]
    BY <1>4 DEF SetValue
  <2>3. n.heap = [m.heap EXCEPT ![g] = y] /\ n.bad = m.bad /\ DOMAIN n = Fields /\ n.left = m.left
    BY <2>2 DEF Fields
  <2> HIDE DEF g
  <2>4. /\ y \in Variable /\ y.live = m.heap[g].live /\ y.key = m.heap[g].key
        /\ y.src = m.heap[g].src /\ y.tails = m.heap[g].tails
    BY <1>1, <2>1 DEF Variable
  <2> HIDE DEF y, n
  <2>5. Typed(n)
    BY <1>1, <2>3, <2>4 DEF Typed
  <2>6. n.heap[g] = y /\ \A u \in Address : u # g => n.heap[u] = m.heap[u]
    BY <1>1, <2>3 DEF Typed
  <2>7. n.bad <=> m.bad \/ ~Usable(m, v)
    BY <1>4, <2>3
  <2> QED BY <2>3, <2>4, <2>5, <2>6, <2>7 DEF n, g
<1> QED BY <1>2, <1>3, <1>4

-----------------------------------------------------------------------------
(***************************************************************************)
(* What the forest says of sources.                                        *)
(***************************************************************************)
\* What an entry of scope i exposes is an entry of an older scope, of the same name.
LEMMA SourceBelow ==
  ASSUME NEW m, NEW top, Pool(m, top), Typed(m), Forest(m),
         NEW i \in 1..Len(m.scopes), NEW k \in Simple, GetVar(m, i, k) # NoVar
  PROVE  \E j \in 1..i : GetVar(m, j, k) = Source(m, GetVar(m, i, k))
<1> DEFINE s == Source(m, GetVar(m, i, k))
<1> DEFINE T == {j \in 1..i : GetVar(m, j, k) # NoVar /\ Source(m, GetVar(m, j, k)) = s}
<1>1. Len(m.scopes) \in Nat
  BY ScopesTyped
<1>2. i \in T /\ T \subseteq Nat
  BY <1>1
<1>3. PICK j \in T : \A l \in T : j <= l
  BY <1>2, HasLeast
<1>4. GetVar(m, j, k) = s
  <2>1. CASE IsExposed(m, GetVar(m, j, k))
    <3>1. j > 1 /\ GetVar(m, j - 1, k) # NoVar /\ Source(m, GetVar(m, j - 1, k)) = s
      BY <1>1, <1>3, <2>1 DEF Forest, EntriesExposed
    <3>2. j - 1 \in T
      BY <1>1, <1>3, <3>1
    <3> QED BY <1>1, <1>3, <3>2
  <2>2. CASE ~IsExposed(m, GetVar(m, j, k))
    BY <1>3, <2>2 DEF IsExposed
  <2> QED BY <2>1, <2>2
<1> QED BY <1>3, <1>4

\* A live variable with the name of a simple symbol is an entry, and in one scope only.
LEMMA SimpleIsEntry ==
  ASSUME NEW m, Sane(m), Forest(m), NEW v \in Address, m.heap[v].live, m.heap[v].key \in Simple
  PROVE  \E i \in 1..Len(m.scopes) : v = GetVar(m, i, m.heap[v].key)
<1>1. CASE InTails(m, v)
  <2>1. PICK g \in Address : \E t \in DOMAIN m.heap[g].tails : v = m.heap[g].tails[t]
    BY <1>1 DEF InTails
  <2>2. PICK t \in DOMAIN m.heap[g].tails : v = m.heap[g].tails[t]
    BY <2>1
  <2>3. m.heap[v].key = Compound
    BY <2>2 DEF Forest, TailsOwn
  <2> QED BY <2>3, Names
<1>2. CASE InScopes(m, v)
  <2>1. PICK i \in 1..Len(m.scopes), k \in Simple : v = GetVar(m, i, k)
    BY <1>2 DEF InScopes
  <2>2. CASE v # NoVar
    BY <2>1, <2>2 DEF Forest, EntriesLive
  <2>3. CASE v = NoVar
    BY <2>3 DEF Sane
  <2> QED BY <2>2, <2>3
<1>3. v \notin m.left
  BY Names DEF Forest, LeftApart
<1> QED BY <1>1, <1>2, <1>3 DEF Forest, AllOwned

\* What was left out is no entry and no tail.
LEMMA LeftOut ==
  ASSUME NEW m, Sane(m), Forest(m), NEW v \in m.left
  PROVE  ~InScopes(m, v) /\ ~InTails(m, v)
<1>1. ~InTails(m, v) /\ m.heap[v].live /\ m.heap[v].key = Compound
  BY DEF Forest, LeftApart
<1>2. SUFFICES ASSUME InScopes(m, v) PROVE FALSE
  BY <1>1
<1>3. PICK i \in 1..Len(m.scopes), k \in Simple : v = GetVar(m, i, k)
  BY <1>2 DEF InScopes
<1>4. v # NoVar
  BY <1>1 DEF Sane
<1> QED BY <1>1, <1>3, <1>4, Names DEF Forest, EntriesLive

\* Nor is it what ~Variable deletes of an entry, or the tails of a stem.
LEMMA LeftNotOwned ==
  ASSUME NEW m, Sane(m), Forest(m), Typed(m), NEW v \in Address, InScopes(m, v)
  PROVE  v \notin m.left /\ \A u \in m.left : u \notin Owned(m, v)
<1>1. v \notin m.left
  BY LeftOut
<1>2. ASSUME NEW u \in Range(m.heap[v].tails) PROVE u \notin m.left
  <2>1. InTails(m, u)
    BY <1>2 DEF Range, InTails
  <2> QED BY <2>1, LeftOut
<1> QED BY <1>1, <1>2 DEF Owned

\* What a scope or a stem has is not left out.
LEMMA NotLeft ==
  ASSUME NEW m, Sane(m), Forest(m), NEW v, ~m.heap[v].live \/ InScopes(m, v) \/ InTails(m, v)
  PROVE  v \notin m.left
<1>1. CASE ~m.heap[v].live
  BY <1>1 DEF Forest, LeftApart
<1>2. CASE InScopes(m, v) \/ InTails(m, v)
  BY <1>2, LeftOut
<1> QED BY <1>1, <1>2

\* The last scopes and their variables have addresses.
LEMMA EntryAddress ==
  ASSUME NEW m, NEW top, Pool(m, top)
  PROVE  /\ Len(m.scopes) \in Nat
         /\ \A i \in 1..Len(m.scopes), k \in Simple : GetVar(m, i, k) \in Address
BY ScopesTyped DEF GetVar

\* Between the scope that owns a variable and one that exposes it, all expose it.
LEMMA ExposedThrough ==
  ASSUME NEW m, NEW top, Pool(m, top), Typed(m), Forest(m),
         NEW i \in 1..Len(m.scopes), NEW k \in Simple, GetVar(m, i, k) # NoVar,
         NEW j \in 1..i, GetVar(m, j, k) = Source(m, GetVar(m, i, k)),
         NEW l \in (j + 1)..i
  PROVE  GetVar(m, l, k) # NoVar /\ Source(m, GetVar(m, l, k)) = Source(m, GetVar(m, i, k))
         /\ IsExposed(m, GetVar(m, l, k))
<1> DEFINE s == Source(m, GetVar(m, i, k))
<1> DEFINE Fails == {x \in Nat : x <= i - j - 1 /\ ~(GetVar(m, i - x, k) # NoVar
                                                  /\ Source(m, GetVar(m, i - x, k)) = s)}
<1>1. Len(m.scopes) \in Nat /\ i \in Nat /\ j \in Nat /\ l \in Nat
  BY ScopesTyped
<1>2. ASSUME NEW x \in (j + 1)..i, GetVar(m, x, k) # NoVar, Source(m, GetVar(m, x, k)) = s
      PROVE  IsExposed(m, GetVar(m, x, k))
  <2>1. x \in 1..Len(m.scopes) /\ j \in 1..Len(m.scopes) /\ x # j
    BY <1>1
  <2>2. GetVar(m, x, k) # GetVar(m, j, k)
    BY <1>2, <2>1 DEF Forest, EntriesApart
  <2> QED BY <1>2, <2>2 DEF IsExposed
<1>3. CASE Fails # {}
  <2>1. PICK x \in Fails : \A y \in Fails : x <= y
    BY <1>3, HasLeast
  <2>2. x # 0
    BY <1>1, <2>1
  <2>3. x - 1 \in Nat /\ x - 1 \notin Fails /\ x - 1 <= i - j - 1
    BY <1>1, <2>1, <2>2
  <2> DEFINE p == i - (x - 1)
  <2>4. GetVar(m, p, k) # NoVar /\ Source(m, GetVar(m, p, k)) = s
    BY <2>3
  <2>5. p \in (j + 1)..i /\ p \in 1..Len(m.scopes) /\ p - 1 = i - x
    BY <1>1, <2>1, <2>3
  <2>6. IsExposed(m, GetVar(m, p, k))
    BY <1>2, <2>4, <2>5
  <2> HIDE DEF p
  <2>7. GetVar(m, p - 1, k) # NoVar /\ Source(m, GetVar(m, p - 1, k)) = s
    BY <2>4, <2>5, <2>6 DEF Forest, EntriesExposed
  <2> QED BY <2>1, <2>5, <2>7
<1>4. CASE Fails = {}
  <2>1. i - l \in Nat /\ i - l <= i - j - 1 /\ i - (i - l) = l
    BY <1>1
  <2>2. i - l \notin Fails
    BY <1>4
  <2>3. GetVar(m, l, k) # NoVar /\ Source(m, GetVar(m, l, k)) = s
    BY <2>1, <2>2
  <2> QED BY <1>2, <2>3
<1> QED BY <1>3, <1>4

-----------------------------------------------------------------------------
(***************************************************************************)
(* What keeps the forest.                                                  *)
(***************************************************************************)
\* Only values change.
SameShape(m, n) ==
  /\ n.scopes = m.scopes /\ n.left = m.left
  /\ \A u \in Address : /\ n.heap[u].live = m.heap[u].live /\ n.heap[u].key = m.heap[u].key
                        /\ n.heap[u].src = m.heap[u].src /\ n.heap[u].tails = m.heap[u].tails

LEMMA ShapeForest ==
  ASSUME NEW m, NEW n, NEW top, Pool(m, top), Typed(m), Forest(m), SameShape(m, n)
  PROVE  Forest(n)
<1>1. \A i, k : GetVar(n, i, k) = GetVar(m, i, k)
  BY DEF SameShape, GetVar
<1>2. n.scopes = m.scopes /\ n.left = m.left
  BY DEF SameShape
<1>3. \A u \in Address : /\ n.heap[u].live = m.heap[u].live /\ n.heap[u].key = m.heap[u].key
                         /\ n.heap[u].src = m.heap[u].src /\ n.heap[u].tails = m.heap[u].tails
  BY DEF SameShape
<1>4. \A i \in 1..Len(m.scopes), k \in Simple : GetVar(m, i, k) \in Address
  BY EntryAddress
<1>5. \A v \in Address : m.heap[v].src \in Address /\ \A t \in DOMAIN m.heap[v].tails : m.heap[v].tails[t] \in Address
  BY TypedHeap
<1>6. EntriesLive(n) /\ EntriesApart(n)
  BY <1>1, <1>2, <1>3, <1>4 DEF Forest, EntriesLive, EntriesApart
<1>7. TailsOwn(n)
  BY <1>3, <1>5, Sorts DEF Forest, TailsOwn
<1>8. TailsApart(n)
  BY <1>3, <1>5 DEF Forest, TailsApart
<1>9. AllOwned(n)
  BY <1>1, <1>2, <1>3 DEF Forest, AllOwned, InScopes, InTails
<1>13. LeftApart(n)
  <2>1. m.left \subseteq Address
    BY DEF Typed
  <2>2. \A v \in Address : InTails(n, v) => InTails(m, v)
    BY <1>3 DEF InTails
  <2> QED BY <1>2, <1>3, <2>1, <2>2 DEF Forest, LeftApart
<1>10. SourcesAlive(n)
  BY <1>2, <1>3, <1>5 DEF Forest, SourcesAlive, Source
<1>11. EntriesExposed(n)
  <2> SUFFICES ASSUME NEW i \in 1..Len(m.scopes), NEW k \in Simple,
                      GetVar(m, i, k) # NoVar, m.heap[GetVar(m, i, k)].src # GetVar(m, i, k)
               PROVE  /\ i > 1 /\ GetVar(m, i - 1, k) # NoVar
                      /\ n.heap[GetVar(m, i - 1, k)].src = m.heap[GetVar(m, i, k)].src
    BY <1>1, <1>2, <1>3, <1>4 DEF EntriesExposed, IsExposed, Source
  <2>1. i > 1 /\ GetVar(m, i - 1, k) # NoVar /\ m.heap[GetVar(m, i - 1, k)].src = m.heap[GetVar(m, i, k)].src
    BY DEF Forest, EntriesExposed, IsExposed, Source
  <2>2. i - 1 \in 1..Len(m.scopes)
    BY <2>1, EntryAddress
  <2> QED BY <1>3, <1>4, <2>1, <2>2
<1>12. TailsExposed(n)
  <2>1. ASSUME NEW i \in 1..Len(m.scopes), NEW v PROVE TailIn(n, i, v) <=> TailIn(m, i, v)
    BY <1>1, <1>3, <1>4, Sorts DEF TailIn
  <2> SUFFICES ASSUME NEW i \in 1..Len(m.scopes), NEW v \in Address,
                      TailIn(m, i, v), m.heap[v].live, IsExposed(m, v)
               PROVE  \E j \in 1..(i - 1) : TailIn(n, j, Source(m, v))
    BY <1>2, <1>3, <2>1 DEF TailsExposed, IsExposed, Source
  <2>2. PICK j \in 1..(i - 1) : TailIn(m, j, Source(m, v))
    BY DEF Forest, TailsExposed
  <2>3. j \in 1..Len(m.scopes)
    BY EntryAddress
  <2> QED BY <2>1, <2>2, <2>3
<1> QED BY <1>6, <1>7, <1>8, <1>9, <1>10, <1>11, <1>12, <1>13 DEF Forest

\* A variable that nothing pointed at is put in scope d: the scope's own, or one that
\* exposes the source of the entry below.
Fresh(m, w) == /\ w \in Vars /\ ~m.heap[w].live
               /\ \A g \in Address : \A t \in DOMAIN m.heap[g].tails : m.heap[g].tails[t] # w
Created(n, w, k, s) == /\ n.heap[w].live /\ n.heap[w].key = k /\ n.heap[w].src = s
                       /\ DOMAIN n.heap[w].tails = {}

LEMMA AddEntryForest ==
  ASSUME NEW m, NEW n, NEW top, Pool(m, top), Typed(m), Sane(m), Forest(m),
         NEW d \in 1..Len(m.scopes), NEW k \in Simple, GetVar(m, d, k) = NoVar,
         NEW w, Fresh(m, w), NEW s \in Address,
         s = w \/ (d > 1 /\ GetVar(m, d - 1, k) # NoVar /\ s = Source(m, GetVar(m, d - 1, k))),
         Created(n, w, k, s), \A v \in Address : v # w => n.heap[v] = m.heap[v],
         Len(n.scopes) = Len(m.scopes), n.left = m.left,
         \A i \in 1..Len(m.scopes), l \in Simple :
            GetVar(n, i, l) = IF i = d /\ l = k THEN w ELSE GetVar(m, i, l)
  PROVE  Forest(n)
<1> DEFINE D == Len(m.scopes)
<1>1. D \in Nat /\ Len(n.scopes) = D /\ d \in 1..D /\ d \in Nat
  BY EntryAddress
<1>2. \A i \in 1..D, l \in Simple : GetVar(m, i, l) \in Address
  BY EntryAddress
<1>3. w \in Address /\ w # NoVar /\ ~m.heap[w].live
  BY Sorts DEF Fresh
<1>4. \A i \in 1..D, l \in Simple : GetVar(m, i, l) # NoVar => m.heap[GetVar(m, i, l)].live /\ GetVar(m, i, l) # w
  BY <1>3 DEF Forest, EntriesLive
<1>5. \A i \in 1..D, l \in Simple : GetVar(m, i, l) # NoVar => n.heap[GetVar(m, i, l)] = m.heap[GetVar(m, i, l)]
  BY <1>2, <1>4
<1>6. \A v \in Address : m.heap[v].live => n.heap[v] = m.heap[v] /\ v # w
  BY <1>3
<1>7. \A g \in Address : \A t \in DOMAIN n.heap[g].tails :
        g # w /\ n.heap[g] = m.heap[g] /\ t \in DOMAIN m.heap[g].tails /\ m.heap[g].tails[t] # w
  BY <1>3 DEF Created, Fresh
<1>8. /\ m.heap[s].live \/ s = w
      /\ s # w => m.heap[s].key = k /\ Source(m, s) = s
  <2>1. CASE s = w
    BY <2>1
  <2>2. CASE s # w
    <3>1. d - 1 \in 1..D /\ GetVar(m, d - 1, k) # NoVar /\ s = Source(m, GetVar(m, d - 1, k))
      BY <1>1, <2>2
    <3>2. m.heap[GetVar(m, d - 1, k)].live /\ m.heap[GetVar(m, d - 1, k)].key = k
      BY <3>1 DEF Forest, EntriesLive
    <3>3. GetVar(m, d - 1, k) \notin m.left
      BY <3>2, Names DEF Forest, LeftApart
    <3> QED BY <1>2, <3>1, <3>2, <3>3 DEF Forest, SourcesAlive
  <2> QED BY <2>1, <2>2
<1>9. EntriesLive(n)
  <2> SUFFICES ASSUME NEW i \in 1..D, NEW l \in Simple, GetVar(n, i, l) # NoVar
               PROVE  n.heap[GetVar(n, i, l)].live /\ n.heap[GetVar(n, i, l)].key = l
    BY DEF EntriesLive
  <2>1. CASE i = d /\ l = k
    BY <2>1 DEF Created
  <2>2. CASE ~(i = d /\ l = k)
    <3>1. GetVar(n, i, l) = GetVar(m, i, l)
      BY <2>2
    <3> QED BY <1>5, <3>1 DEF Forest, EntriesLive
  <2> QED BY <2>1, <2>2
<1>10. EntriesApart(n)
  BY <1>4 DEF Forest, EntriesApart
<1>11. TailsOwn(n)
  BY <1>7, Sorts DEF Forest, TailsOwn
<1>12. TailsApart(n)
  BY <1>7 DEF Forest, TailsApart
<1>13. AllOwned(n)
  <2> SUFFICES ASSUME NEW v \in Address, n.heap[v].live, v \notin m.left PROVE InScopes(n, v) \/ InTails(n, v)
    BY DEF AllOwned
  <2>1. CASE v = w
    <3>1. w = GetVar(n, d, k)
      OBVIOUS
    <3> QED BY <1>1, <2>1, <3>1 DEF InScopes
  <2>2. CASE v # w /\ InScopes(m, v)
    <3>1. PICK i \in 1..D, l \in Simple : v = GetVar(m, i, l)
      BY <2>2 DEF InScopes
    <3>2. v # NoVar
      BY <2>2 DEF Sane
    <3>3. GetVar(n, i, l) = v
      BY <3>1, <3>2
    <3> QED BY <1>1, <3>3 DEF InScopes
  <2>3. CASE v # w /\ InTails(m, v)
    <3>1. PICK g \in Address : \E t \in DOMAIN m.heap[g].tails : v = m.heap[g].tails[t]
      BY <2>3 DEF InTails
    <3>2. m.heap[g].live
      BY <3>1 DEF Forest, TailsOwn
    <3>3. n.heap[g] = m.heap[g]
      BY <1>6, <3>2
    <3> QED BY <3>1, <3>3 DEF InTails
  <2>4. v # w => m.heap[v].live
    OBVIOUS
  <2> QED BY <2>1, <2>2, <2>3, <2>4 DEF Forest, AllOwned
<1>17. LeftApart(n)
  <2>1. m.left \subseteq Address /\ \A v \in m.left : v # w
    BY <1>3 DEF Typed, Forest, LeftApart
  <2>2. ASSUME NEW v \in Address, InTails(n, v) PROVE InTails(m, v)
    <3>1. PICK g \in Address : \E t \in DOMAIN n.heap[g].tails : v = n.heap[g].tails[t]
      BY <2>2 DEF InTails
    <3>2. n.heap[g] = m.heap[g]
      BY <1>7, <3>1
    <3> QED BY <3>1, <3>2 DEF InTails
  <2> QED BY <2>1, <2>2 DEF Forest, LeftApart
<1>14. SourcesAlive(n)
  <2> SUFFICES ASSUME NEW v \in Address \ m.left
               PROVE  IF n.heap[v].live
                      THEN /\ n.heap[n.heap[v].src].live /\ n.heap[n.heap[v].src].key = n.heap[v].key
                           /\ n.heap[n.heap[v].src].src = n.heap[v].src
                      ELSE n.heap[v].src = NoVar
    BY DEF SourcesAlive, Source
  <2>1. CASE v = w
    <3>1. n.heap[v].live /\ n.heap[v].src = s /\ n.heap[v].key = k
      BY <2>1 DEF Created
    <3>2. s # w => n.heap[s] = m.heap[s]
      OBVIOUS
    <3> QED BY <1>8, <2>1, <3>1, <3>2 DEF Source
  <2>2. CASE v # w /\ ~m.heap[v].live
    BY <2>2 DEF Forest, SourcesAlive, Source
  <2>3. CASE v # w /\ m.heap[v].live
    <3>1. /\ m.heap[m.heap[v].src].live /\ m.heap[m.heap[v].src].key = m.heap[v].key
          /\ m.heap[m.heap[v].src].src = m.heap[v].src /\ m.heap[v].src \in Address
      BY <2>3, TypedHeap DEF Forest, SourcesAlive, Source
    <3>2. n.heap[v] = m.heap[v] /\ n.heap[m.heap[v].src] = m.heap[m.heap[v].src]
      BY <1>6, <2>3, <3>1
    <3> QED BY <2>3, <3>1, <3>2
  <2> QED BY <2>1, <2>2, <2>3
<1>15. EntriesExposed(n)
  <2> SUFFICES ASSUME NEW i \in 1..D, NEW l \in Simple, GetVar(n, i, l) # NoVar,
                      n.heap[GetVar(n, i, l)].src # GetVar(n, i, l)
               PROVE  /\ i > 1 /\ GetVar(n, i - 1, l) # NoVar
                      /\ n.heap[GetVar(n, i - 1, l)].src = n.heap[GetVar(n, i, l)].src
    BY DEF EntriesExposed, IsExposed, Source
  <2>1. CASE i = d /\ l = k
    <3>1. GetVar(n, i, l) = w /\ n.heap[w].src = s /\ s # w
      BY <2>1 DEF Created
    <3>2. d > 1 /\ GetVar(m, d - 1, k) # NoVar /\ s = m.heap[GetVar(m, d - 1, k)].src
      BY <3>1 DEF Source
    <3>3. d - 1 \in 1..D /\ d - 1 # d
      BY <1>1, <3>2
    <3>4. GetVar(n, d - 1, k) = GetVar(m, d - 1, k)
      BY <3>3
    <3> QED BY <1>5, <2>1, <3>1, <3>2, <3>3, <3>4
  <2>2. CASE ~(i = d /\ l = k)
    <3>1. GetVar(n, i, l) = GetVar(m, i, l) /\ n.heap[GetVar(m, i, l)] = m.heap[GetVar(m, i, l)]
      BY <1>5, <2>2
    <3>2. i > 1 /\ GetVar(m, i - 1, l) # NoVar /\ m.heap[GetVar(m, i - 1, l)].src = m.heap[GetVar(m, i, l)].src
      BY <3>1 DEF Forest, EntriesExposed, IsExposed, Source
    <3>3. i - 1 \in 1..D
      BY <1>1, <3>2
    <3>4. GetVar(n, i - 1, l) = GetVar(m, i - 1, l)
      BY <3>2, <3>3
    <3> QED BY <1>5, <3>1, <3>2, <3>3, <3>4
  <2> QED BY <2>1, <2>2
<1>16. TailsExposed(n)
  <2>1. ASSUME NEW i \in 1..D, NEW v, TailIn(n, i, v)
        PROVE  TailIn(m, i, v) /\ v # w
    <3>1. GetVar(n, i, "S.") # NoVar /\ GetVar(n, i, "S.") \in Address
      BY <1>2, <1>3, <2>1, Sorts DEF TailIn
    <3>2. PICK u \in DOMAIN n.heap[GetVar(n, i, "S.")].tails : v = n.heap[GetVar(n, i, "S.")].tails[u]
      BY <2>1 DEF TailIn
    <3>3. GetVar(n, i, "S.") # w /\ n.heap[GetVar(n, i, "S.")] = m.heap[GetVar(n, i, "S.")] /\ v # w
      BY <1>7, <3>1, <3>2
    <3>4. GetVar(n, i, "S.") = GetVar(m, i, "S.")
      BY <3>3, Sorts
    <3> QED BY <3>1, <3>2, <3>3, <3>4 DEF TailIn
  <2>2. ASSUME NEW i \in 1..D, NEW v, TailIn(m, i, v)
        PROVE  TailIn(n, i, v)
    <3>1. GetVar(m, i, "S.") # NoVar /\ n.heap[GetVar(m, i, "S.")] = m.heap[GetVar(m, i, "S.")]
      BY <1>5, <2>2, Sorts DEF TailIn
    <3>2. GetVar(n, i, "S.") = GetVar(m, i, "S.")
      BY <3>1, Sorts
    <3> QED BY <2>2, <3>1, <3>2 DEF TailIn
  <2> SUFFICES ASSUME NEW i \in 1..D, NEW v \in Address,
                      TailIn(n, i, v), n.heap[v].live, n.heap[v].src # v
               PROVE  \E j \in 1..(i - 1) : TailIn(n, j, n.heap[v].src)
    BY DEF TailsExposed, IsExposed, Source
  <2>3. TailIn(m, i, v) /\ n.heap[v] = m.heap[v]
    BY <2>1
  <2>4. PICK j \in 1..(i - 1) : TailIn(m, j, m.heap[v].src)
    BY <2>3 DEF Forest, TailsExposed, IsExposed, Source
  <2>5. j \in 1..D
    BY <1>1
  <2> QED BY <2>2, <2>3, <2>4, <2>5
<1> QED BY <1>9, <1>10, <1>11, <1>12, <1>13, <1>14, <1>15, <1>16, <1>17 DEF Forest

\* Nothing but w and the tails of g is new.
OneMoreTail(m, n, g, t, w) ==
  /\ \A v \in Address : v # w /\ v # g => n.heap[v] = m.heap[v]
  /\ n.heap[g].live = m.heap[g].live /\ n.heap[g].key = m.heap[g].key
  /\ n.heap[g].src = m.heap[g].src
  /\ DOMAIN n.heap[g].tails = (DOMAIN m.heap[g].tails) \union {t}
  /\ \A u \in DOMAIN m.heap[g].tails : n.heap[g].tails[u] = m.heap[g].tails[u]
  /\ n.heap[g].tails[t] = w

\* A variable that nothing pointed at is put in a stem that the scope i owns: the stem's
\* own, or one that exposes a tail of an older scope's stem.
LEMMA AddTailForest ==
  ASSUME NEW m, NEW n, NEW top, Pool(m, top), Typed(m), Sane(m), Forest(m),
         NEW i \in 1..Len(m.scopes), NEW g, g = GetVar(m, i, "S."), g # NoVar, m.heap[g].src = g,
         NEW t, t \notin DOMAIN m.heap[g].tails, NEW w, Fresh(m, w), NEW s \in Address,
         \/ s = w
         \/ (\E j \in 1..(i - 1) : TailIn(m, j, s)) /\ m.heap[s].live /\ m.heap[s].src = s,
         n.scopes = m.scopes, n.left = m.left, Created(n, w, Compound, s),
         OneMoreTail(m, n, g, t, w)
  PROVE  Forest(n)
<1>0. /\ \A v \in Address : v # w /\ v # g => n.heap[v] = m.heap[v]
      /\ n.heap[g].live = m.heap[g].live /\ n.heap[g].key = m.heap[g].key
      /\ n.heap[g].src = m.heap[g].src
      /\ DOMAIN n.heap[g].tails = (DOMAIN m.heap[g].tails) \union {t}
      /\ \A u \in DOMAIN m.heap[g].tails : n.heap[g].tails[u] = m.heap[g].tails[u]
      /\ n.heap[g].tails[t] = w
  BY DEF OneMoreTail
<1> USE <1>0
<1> DEFINE D == Len(m.scopes)
<1>1. D \in Nat /\ i \in Nat
  BY EntryAddress
<1>2. \A j \in 1..D, l \in Simple : GetVar(m, j, l) \in Address
  BY EntryAddress
<1>3. w \in Address /\ w # NoVar /\ ~m.heap[w].live
  BY Sorts DEF Fresh
<1>4. g \in Address /\ m.heap[g].live /\ m.heap[g].key = "S." /\ g # w
  BY <1>2, <1>3, Sorts DEF Forest, EntriesLive
<1>5. \A j \in 1..D, l \in Simple : GetVar(m, j, l) # NoVar => m.heap[GetVar(m, j, l)].live /\ GetVar(m, j, l) # w
  BY <1>3 DEF Forest, EntriesLive
<1>6. \A v \in Address : v # w => /\ n.heap[v].live = m.heap[v].live /\ n.heap[v].key = m.heap[v].key
                                  /\ n.heap[v].src = m.heap[v].src
  OBVIOUS
<1>7. \A h \in Address : \A u \in DOMAIN n.heap[h].tails :
        /\ h # w
        /\ \/ h = g /\ u = t /\ n.heap[h].tails[u] = w
           \/ /\ u \in DOMAIN m.heap[h].tails /\ m.heap[h].tails[u] # w
              /\ n.heap[h].tails[u] = m.heap[h].tails[u] /\ ~(h = g /\ u = t)
  <2> SUFFICES ASSUME NEW h \in Address, NEW u \in DOMAIN n.heap[h].tails
               PROVE  /\ h # w
                      /\ \/ h = g /\ u = t /\ n.heap[h].tails[u] = w
                         \/ /\ u \in DOMAIN m.heap[h].tails /\ m.heap[h].tails[u] # w
                            /\ n.heap[h].tails[u] = m.heap[h].tails[u] /\ ~(h = g /\ u = t)
    OBVIOUS
  <2>1. h # w
    BY DEF Created
  <2>2. CASE h = g
    BY <1>4, <2>1, <2>2 DEF Fresh
  <2>3. CASE h # g
    BY <2>1, <2>3 DEF Fresh
  <2> QED BY <2>1, <2>2, <2>3
<1>8. \A h \in Address : \A u \in DOMAIN m.heap[h].tails :
        u \in DOMAIN n.heap[h].tails /\ n.heap[h].tails[u] = m.heap[h].tails[u]
  <2> SUFFICES ASSUME NEW h \in Address, NEW u \in DOMAIN m.heap[h].tails
               PROVE  u \in DOMAIN n.heap[h].tails /\ n.heap[h].tails[u] = m.heap[h].tails[u]
    OBVIOUS
  <2>1. h # w
    BY <1>3 DEF Forest, TailsOwn
  <2> QED BY <2>1
<1>9. \A j, l : GetVar(n, j, l) = GetVar(m, j, l)
  BY DEF GetVar
<1>10. EntriesLive(n)
  BY <1>2, <1>5, <1>6, <1>9 DEF Forest, EntriesLive
<1>11. EntriesApart(n)
  BY <1>9 DEF Forest, EntriesApart
<1>12. TailsOwn(n)
  <2> SUFFICES ASSUME NEW h \in Address, NEW u \in DOMAIN n.heap[h].tails
               PROVE  /\ n.heap[h].live /\ n.heap[h].key = "S." /\ n.heap[h].src = h
                      /\ n.heap[h].tails[u] \in Vars
                      /\ n.heap[n.heap[h].tails[u]].live => n.heap[n.heap[h].tails[u]].key = Compound
    BY DEF TailsOwn
  <2>1. CASE h = g /\ u = t /\ n.heap[h].tails[u] = w
    BY <1>4, <2>1 DEF Fresh, Created
  <2>2. CASE ~(h = g /\ u = t)
    <3>1. h # w /\ u \in DOMAIN m.heap[h].tails /\ m.heap[h].tails[u] # w
          /\ n.heap[h].tails[u] = m.heap[h].tails[u]
      BY <1>7, <2>2
    <3>2. /\ m.heap[h].live /\ m.heap[h].key = "S." /\ m.heap[h].src = h
          /\ m.heap[h].tails[u] \in Vars
          /\ m.heap[m.heap[h].tails[u]].live => m.heap[m.heap[h].tails[u]].key = Compound
      BY <3>1 DEF Forest, TailsOwn
    <3> QED BY <1>6, <3>1, <3>2, Sorts
  <2> QED BY <1>7, <2>1, <2>2
<1>13. TailsApart(n)
  <2> SUFFICES ASSUME NEW h \in Address, NEW p \in Address, NEW u \in DOMAIN n.heap[h].tails,
                      NEW x \in DOMAIN n.heap[p].tails, n.heap[h].tails[u] = n.heap[p].tails[x]
               PROVE  h = p /\ u = x
    BY DEF TailsApart
  <2> QED BY <1>7 DEF Forest, TailsApart
<1>14. AllOwned(n)
  <2> SUFFICES ASSUME NEW v \in Address, n.heap[v].live, v \notin m.left PROVE InScopes(n, v) \/ InTails(n, v)
    BY DEF AllOwned
  <2>1. CASE v = w
    BY <1>4, <2>1 DEF InTails
  <2>2. CASE v # w /\ InScopes(m, v)
    BY <1>9, <2>2 DEF InScopes
  <2>3. CASE v # w /\ InTails(m, v)
    BY <1>8, <2>3 DEF InTails
  <2> QED BY <1>6, <2>1, <2>2, <2>3 DEF Forest, AllOwned
<1>18. LeftApart(n)
  <2>1. m.left \subseteq Address /\ \A v \in m.left : v # w
    BY <1>3 DEF Typed, Forest, LeftApart
  <2>2. ASSUME NEW v \in Address, v # w, InTails(n, v) PROVE InTails(m, v)
    BY <1>7, <2>2 DEF InTails
  <2> QED BY <1>6, <2>1, <2>2 DEF Forest, LeftApart
<1>15. SourcesAlive(n)
  <2> SUFFICES ASSUME NEW v \in Address \ m.left
               PROVE  IF n.heap[v].live
                      THEN /\ n.heap[n.heap[v].src].live /\ n.heap[n.heap[v].src].key = n.heap[v].key
                           /\ n.heap[n.heap[v].src].src = n.heap[v].src
                      ELSE n.heap[v].src = NoVar
    BY DEF SourcesAlive, Source
  <2>1. CASE v = w
    <3>1. n.heap[v].live /\ n.heap[v].src = s /\ n.heap[v].key = Compound
      BY <2>1 DEF Created
    <3>2. CASE s = w
      BY <2>1, <3>1, <3>2
    <3>3. CASE s # w
      <4>1. PICK j \in 1..(i - 1) : TailIn(m, j, s)
        BY <3>3
      <4>2. j \in 1..D
        BY <1>1
      <4>3. m.heap[s].live /\ m.heap[s].src = s
        BY <3>3
      <4>4. PICK u \in DOMAIN m.heap[GetVar(m, j, "S.")].tails : s = m.heap[GetVar(m, j, "S.")].tails[u]
        BY <4>1 DEF TailIn
      <4>5. m.heap[s].key = Compound
        BY <1>2, <4>2, <4>3, <4>4, Sorts DEF Forest, TailsOwn
      <4> QED BY <1>6, <3>1, <3>3, <4>3, <4>5
    <3> QED BY <3>2, <3>3
  <2>2. CASE v # w /\ ~m.heap[v].live
    BY <1>6, <2>2 DEF Forest, SourcesAlive, Source
  <2>3. CASE v # w /\ m.heap[v].live
    <3>1. /\ m.heap[m.heap[v].src].live /\ m.heap[m.heap[v].src].key = m.heap[v].key
          /\ m.heap[m.heap[v].src].src = m.heap[v].src /\ m.heap[v].src \in Address
      BY <2>3, TypedHeap DEF Forest, SourcesAlive, Source
    <3>2. m.heap[v].src # w
      BY <1>3, <3>1
    <3> QED BY <1>6, <2>3, <3>1, <3>2
  <2> QED BY <2>1, <2>2, <2>3
<1>16. EntriesExposed(n)
  <2> SUFFICES ASSUME NEW j \in 1..D, NEW l \in Simple, GetVar(m, j, l) # NoVar,
                      n.heap[GetVar(m, j, l)].src # GetVar(m, j, l)
               PROVE  /\ j > 1 /\ GetVar(m, j - 1, l) # NoVar
                      /\ n.heap[GetVar(m, j - 1, l)].src = n.heap[GetVar(m, j, l)].src
    BY <1>9 DEF EntriesExposed, IsExposed, Source
  <2>1. n.heap[GetVar(m, j, l)].src = m.heap[GetVar(m, j, l)].src
    BY <1>2, <1>5, <1>6
  <2>2. j > 1 /\ GetVar(m, j - 1, l) # NoVar /\ m.heap[GetVar(m, j - 1, l)].src = m.heap[GetVar(m, j, l)].src
    BY <2>1 DEF Forest, EntriesExposed, IsExposed, Source
  <2>3. j - 1 \in 1..D
    BY <1>1, <2>2
  <2>4. n.heap[GetVar(m, j - 1, l)].src = m.heap[GetVar(m, j - 1, l)].src
    BY <1>2, <1>5, <1>6, <2>2, <2>3
  <2> QED BY <2>1, <2>2, <2>4
<1>17. TailsExposed(n)
  <2>1. ASSUME NEW j \in 1..D, NEW v, TailIn(m, j, v) PROVE TailIn(n, j, v)
    BY <1>2, <1>8, <1>9, <2>1, Sorts DEF TailIn
  <2>2. ASSUME NEW j \in 1..D, NEW v, TailIn(n, j, v), v # w PROVE TailIn(m, j, v)
    <3>1. GetVar(m, j, "S.") # NoVar /\ GetVar(m, j, "S.") \in Address
      BY <1>2, <1>9, <2>2, Sorts DEF TailIn
    <3>2. PICK u \in DOMAIN n.heap[GetVar(m, j, "S.")].tails : v = n.heap[GetVar(m, j, "S.")].tails[u]
      BY <1>9, <2>2 DEF TailIn
    <3>3. u \in DOMAIN m.heap[GetVar(m, j, "S.")].tails /\ v = m.heap[GetVar(m, j, "S.")].tails[u]
      BY <1>7, <2>2, <3>1, <3>2
    <3> QED BY <3>1, <3>3 DEF TailIn
  <2>3. ASSUME NEW j \in 1..D, TailIn(n, j, w) PROVE j = i
    <3>1. GetVar(m, j, "S.") # NoVar /\ GetVar(m, j, "S.") \in Address
      BY <1>2, <1>9, <2>3, Sorts DEF TailIn
    <3>2. PICK u \in DOMAIN n.heap[GetVar(m, j, "S.")].tails : w = n.heap[GetVar(m, j, "S.")].tails[u]
      BY <1>9, <2>3 DEF TailIn
    <3>3. GetVar(m, j, "S.") = g
      BY <1>7, <3>1, <3>2
    <3> QED BY <3>1, <3>3, Sorts DEF Forest, EntriesApart
  <2> SUFFICES ASSUME NEW j \in 1..D, NEW v \in Address,
                      TailIn(n, j, v), n.heap[v].live, n.heap[v].src # v
               PROVE  \E p \in 1..(j - 1) : TailIn(n, p, n.heap[v].src)
    BY DEF TailsExposed, IsExposed, Source
  <2>4. CASE v = w
    <3>1. j = i
      BY <2>3, <2>4
    <3>2. n.heap[v].src = s /\ s # w
      BY <2>4 DEF Created
    <3>3. PICK p \in 1..(i - 1) : TailIn(m, p, s)
      BY <3>2
    <3>4. p \in 1..D
      BY <1>1
    <3> QED BY <2>1, <3>1, <3>2, <3>3, <3>4
  <2>5. CASE v # w
    <3>1. TailIn(m, j, v) /\ m.heap[v].live /\ n.heap[v].src = m.heap[v].src
      BY <1>6, <2>2, <2>5
    <3>2. PICK p \in 1..(j - 1) : TailIn(m, p, m.heap[v].src)
      BY <3>1 DEF Forest, TailsExposed, IsExposed, Source
    <3>3. p \in 1..D
      BY <1>1
    <3> QED BY <2>1, <3>1, <3>2, <3>3
  <2> QED BY <2>4, <2>5
<1> QED BY <1>10, <1>11, <1>12, <1>13, <1>14, <1>15, <1>16, <1>17, <1>18 DEF Forest

\* A variable that nothing pointed at is put in no map: it exposes another one.
LEMMA LeftForest ==
  ASSUME NEW m, NEW n, NEW top, Pool(m, top), Typed(m), Sane(m), Forest(m),
         NEW w, Fresh(m, w), NEW s \in Address, s # w, Created(n, w, Compound, s),
         \A v \in Address : v # w => n.heap[v] = m.heap[v],
         n.scopes = m.scopes, n.left = m.left \union {w}
  PROVE  Forest(n)
<1> DEFINE D == Len(m.scopes)
<1>1. D \in Nat /\ \A i \in 1..D, l \in Simple : GetVar(m, i, l) \in Address
  BY EntryAddress
<1>2. \A i, l : GetVar(n, i, l) = GetVar(m, i, l)
  BY DEF GetVar
<1>3. w \in Address /\ w # NoVar /\ ~m.heap[w].live
  BY Sorts DEF Fresh
<1>4. \A i \in 1..D, l \in Simple : GetVar(m, i, l) # NoVar =>
        m.heap[GetVar(m, i, l)].live /\ n.heap[GetVar(m, i, l)] = m.heap[GetVar(m, i, l)]
  BY <1>1, <1>3 DEF Forest, EntriesLive
<1>5. \A v \in Address : m.heap[v].live => n.heap[v] = m.heap[v] /\ v # w
  BY <1>3
<1>6. \A g \in Address : \A t \in DOMAIN n.heap[g].tails :
        g # w /\ n.heap[g] = m.heap[g] /\ t \in DOMAIN m.heap[g].tails /\ m.heap[g].tails[t] # w
  BY <1>3 DEF Created, Fresh
<1>7. EntriesLive(n) /\ EntriesApart(n)
  BY <1>2, <1>4 DEF Forest, EntriesLive, EntriesApart
<1>8. TailsOwn(n)
  BY <1>6, Sorts DEF Forest, TailsOwn
<1>9. TailsApart(n)
  BY <1>6 DEF Forest, TailsApart
<1>10. \A v : InTails(n, v) => InTails(m, v) /\ v # w
  <2> SUFFICES ASSUME NEW v, InTails(n, v) PROVE InTails(m, v) /\ v # w
    OBVIOUS
  <2>1. PICK g \in Address : \E t \in DOMAIN n.heap[g].tails : v = n.heap[g].tails[t]
    BY DEF InTails
  <2>2. PICK t \in DOMAIN n.heap[g].tails : v = n.heap[g].tails[t]
    BY <2>1
  <2> QED BY <1>6, <2>2 DEF InTails
<1>11. AllOwned(n)
  <2> SUFFICES ASSUME NEW v \in Address, n.heap[v].live, v \notin n.left PROVE InScopes(n, v) \/ InTails(n, v)
    BY DEF AllOwned
  <2>1. v # w /\ m.heap[v].live /\ v \notin m.left
    OBVIOUS
  <2>2. CASE InScopes(m, v)
    BY <1>2, <2>2 DEF InScopes
  <2>3. CASE InTails(m, v)
    <3>1. PICK g \in Address : \E t \in DOMAIN m.heap[g].tails : v = m.heap[g].tails[t]
      BY <2>3 DEF InTails
    <3>2. n.heap[g] = m.heap[g]
      BY <1>5, <3>1 DEF Forest, TailsOwn
    <3> QED BY <3>1, <3>2 DEF InTails
  <2> QED BY <2>1, <2>2, <2>3 DEF Forest, AllOwned
<1>12. LeftApart(n)
  <2>1. m.left \subseteq Address /\ \A v \in m.left : v # w
    BY <1>3 DEF Typed, Forest, LeftApart
  <2> QED BY <1>10, <2>1 DEF Forest, LeftApart, Created
<1>13. SourcesAlive(n)
  <2> SUFFICES ASSUME NEW v \in Address \ m.left, v # w
               PROVE  IF n.heap[v].live
                      THEN /\ n.heap[n.heap[v].src].live /\ n.heap[n.heap[v].src].key = n.heap[v].key
                           /\ n.heap[n.heap[v].src].src = n.heap[v].src
                      ELSE n.heap[v].src = NoVar
    BY DEF SourcesAlive, Source
  <2>1. CASE ~m.heap[v].live
    BY <2>1 DEF Forest, SourcesAlive, Source
  <2>2. CASE m.heap[v].live
    <3>1. /\ m.heap[m.heap[v].src].live /\ m.heap[m.heap[v].src].key = m.heap[v].key
          /\ m.heap[m.heap[v].src].src = m.heap[v].src /\ m.heap[v].src \in Address
      BY <2>2, TypedHeap DEF Forest, SourcesAlive, Source
    <3>2. n.heap[v] = m.heap[v] /\ n.heap[m.heap[v].src] = m.heap[m.heap[v].src]
      BY <1>5, <2>2, <3>1
    <3> QED BY <2>2, <3>1, <3>2
  <2> QED BY <2>1, <2>2
<1>14. EntriesExposed(n)
  <2> SUFFICES ASSUME NEW i \in 1..D, NEW l \in Simple, GetVar(m, i, l) # NoVar,
                      n.heap[GetVar(m, i, l)].src # GetVar(m, i, l)
               PROVE  /\ i > 1 /\ GetVar(m, i - 1, l) # NoVar
                      /\ n.heap[GetVar(m, i - 1, l)].src = n.heap[GetVar(m, i, l)].src
    BY <1>2 DEF EntriesExposed, IsExposed, Source
  <2>1. n.heap[GetVar(m, i, l)] = m.heap[GetVar(m, i, l)]
    BY <1>4
  <2>2. i > 1 /\ GetVar(m, i - 1, l) # NoVar /\ m.heap[GetVar(m, i - 1, l)].src = m.heap[GetVar(m, i, l)].src
    BY <2>1 DEF Forest, EntriesExposed, IsExposed, Source
  <2>3. i - 1 \in 1..D
    BY <1>1, <2>2
  <2> QED BY <1>4, <2>1, <2>2, <2>3
<1>15. TailsExposed(n)
  <2>1. ASSUME NEW i \in 1..D, NEW v PROVE TailIn(n, i, v) <=> TailIn(m, i, v)
    BY <1>2, <1>4, Sorts DEF TailIn
  <2> SUFFICES ASSUME NEW i \in 1..D, NEW v \in Address,
                      TailIn(m, i, v), n.heap[v].live, n.heap[v].src # v
               PROVE  \E j \in 1..(i - 1) : TailIn(n, j, n.heap[v].src)
    BY <2>1 DEF TailsExposed, IsExposed, Source
  <2>2. v # w
    <3>1. GetVar(m, i, "S.") \in Address
      BY <1>1, Sorts
    <3> QED BY <3>1 DEF TailIn, Fresh
  <2>3. PICK j \in 1..(i - 1) : TailIn(m, j, m.heap[v].src)
    BY <2>2 DEF Forest, TailsExposed, IsExposed, Source
  <2>4. j \in 1..D
    BY <1>1
  <2> QED BY <2>1, <2>2, <2>3, <2>4
<1> QED BY <1>7, <1>8, <1>9, <1>11, <1>12, <1>13, <1>14, <1>15 DEF Forest

-----------------------------------------------------------------------------
(***************************************************************************)
(* Deleting.                                                               *)
(***************************************************************************)
\* The variables F are deleted with their tails and their entries of the last scope, or
\* with that scope, and nobody else's source is among them.  E scopes remain.
Frees(m, n, F, E) ==
  /\ \A v \in Address : v \notin F => n.heap[v] = m.heap[v]
  /\ \A v \in Address : v \in F => n.heap[v] = Dead
  /\ E \in Nat /\ E = Len(n.scopes) /\ E <= Len(m.scopes)
  /\ \A i \in 1..E, l \in Simple : \/ GetVar(n, i, l) = GetVar(m, i, l)
                                   \/ i = Len(m.scopes) /\ GetVar(n, i, l) = NoVar
  /\ \A i \in 1..E, l \in Simple : GetVar(n, i, l) # NoVar => GetVar(n, i, l) \notin F
  /\ \A i \in 1..Len(m.scopes), l \in Simple : GetVar(m, i, l) \notin F =>
        GetVar(m, i, l) = NoVar \/ (i <= E /\ GetVar(n, i, l) = GetVar(m, i, l))
  /\ \A g \in Address : g \in F => \A t \in DOMAIN m.heap[g].tails : m.heap[g].tails[t] \in F
  /\ \A u \in Address \ m.left : m.heap[u].live /\ u \notin F => m.heap[u].src \notin F
  /\ n.left = m.left /\ \A u \in m.left : u \notin F

LEMMA FreeForest ==
  ASSUME NEW m, NEW n, NEW top, Pool(m, top), Typed(m), Sane(m), Forest(m), NEW F, NEW E, Frees(m, n, F, E)
  PROVE  Forest(n)
<1> USE DEF Frees
<1> DEFINE D == Len(m.scopes)
<1>1. D \in Nat /\ \A i \in 1..D, l \in Simple : GetVar(m, i, l) \in Address
  BY EntryAddress
<1>2. 1..E \subseteq 1..D
  BY <1>1
<1>3. /\ ~Dead.live /\ Dead.src = NoVar /\ DOMAIN Dead.tails = {}
  BY DeadIsVariable DEF Dead
<1>4. \A i \in 1..E, l \in Simple : GetVar(n, i, l) # NoVar =>
        /\ GetVar(m, i, l) = GetVar(n, i, l) /\ GetVar(n, i, l) \in Address
        /\ n.heap[GetVar(n, i, l)] = m.heap[GetVar(n, i, l)]
  BY <1>1, <1>2
<1>5. \A g \in Address : \A t \in DOMAIN n.heap[g].tails :
        g \notin F /\ n.heap[g] = m.heap[g] /\ t \in DOMAIN m.heap[g].tails
  BY <1>3
<1>6. \A v \in Address : n.heap[v].live => v \notin F /\ n.heap[v] = m.heap[v]
  BY <1>3
<1>7. EntriesLive(n)
  BY <1>2, <1>4 DEF Forest, EntriesLive
<1>8. EntriesApart(n)
  BY <1>2, <1>4 DEF Forest, EntriesApart
<1>9. TailsOwn(n)
  <2> SUFFICES ASSUME NEW g \in Address, NEW t \in DOMAIN n.heap[g].tails
               PROVE  /\ n.heap[g].live /\ n.heap[g].key = "S." /\ n.heap[g].src = g
                      /\ n.heap[g].tails[t] \in Vars
                      /\ n.heap[n.heap[g].tails[t]].live => n.heap[n.heap[g].tails[t]].key = Compound
    BY DEF TailsOwn
  <2>1. n.heap[g] = m.heap[g] /\ t \in DOMAIN m.heap[g].tails
    BY <1>5
  <2>2. /\ m.heap[g].live /\ m.heap[g].key = "S." /\ m.heap[g].src = g
        /\ m.heap[g].tails[t] \in Vars
        /\ m.heap[m.heap[g].tails[t]].live => m.heap[m.heap[g].tails[t]].key = Compound
    BY <2>1 DEF Forest, TailsOwn
  <2> QED BY <1>6, <2>1, <2>2, Sorts
<1>10. TailsApart(n)
  BY <1>5 DEF Forest, TailsApart
<1>11. AllOwned(n)
  <2> SUFFICES ASSUME NEW v \in Address, n.heap[v].live, v \notin m.left PROVE InScopes(n, v) \/ InTails(n, v)
    BY DEF AllOwned
  <2>1. v \notin F /\ m.heap[v].live /\ v # NoVar
    BY <1>6 DEF Sane
  <2>2. CASE InScopes(m, v)
    <3>1. PICK i \in 1..D, l \in Simple : v = GetVar(m, i, l)
      BY <2>2 DEF InScopes
    <3>2. i <= E /\ GetVar(n, i, l) = v
      BY <2>1, <3>1
    <3>3. i \in 1..E
      BY <1>1, <3>2
    <3> QED BY <3>2, <3>3 DEF InScopes
  <2>3. CASE InTails(m, v)
    <3>1. PICK g \in Address : \E t \in DOMAIN m.heap[g].tails : v = m.heap[g].tails[t]
      BY <2>3 DEF InTails
    <3>2. g \notin F
      BY <2>1, <3>1
    <3> QED BY <3>1, <3>2 DEF InTails
  <2> QED BY <2>1, <2>2, <2>3 DEF Forest, AllOwned
<1>16. LeftApart(n)
  <2>1. m.left \subseteq Address
    BY DEF Typed
  <2>2. ASSUME NEW v \in Address, InTails(n, v) PROVE InTails(m, v)
    <3>1. PICK g \in Address : \E t \in DOMAIN n.heap[g].tails : v = n.heap[g].tails[t]
      BY <2>2 DEF InTails
    <3>2. n.heap[g] = m.heap[g]
      BY <1>5, <3>1
    <3> QED BY <3>1, <3>2 DEF InTails
  <2>3. \A v \in m.left : n.heap[v] = m.heap[v]
    BY <2>1
  <2> QED BY <2>1, <2>2, <2>3 DEF Forest, LeftApart
<1>12. SourcesAlive(n)
  <2> SUFFICES ASSUME NEW v \in Address \ m.left
               PROVE  IF n.heap[v].live
                      THEN /\ n.heap[n.heap[v].src].live /\ n.heap[n.heap[v].src].key = n.heap[v].key
                           /\ n.heap[n.heap[v].src].src = n.heap[v].src
                      ELSE n.heap[v].src = NoVar
    BY DEF SourcesAlive, Source
  <2>1. CASE v \in F
    BY <1>3, <2>1
  <2>2. CASE v \notin F /\ ~m.heap[v].live
    BY <2>2 DEF Forest, SourcesAlive, Source
  <2>3. CASE v \notin F /\ m.heap[v].live
    <3>1. /\ m.heap[m.heap[v].src].live /\ m.heap[m.heap[v].src].key = m.heap[v].key
          /\ m.heap[m.heap[v].src].src = m.heap[v].src /\ m.heap[v].src \in Address
      BY <2>3, TypedHeap DEF Forest, SourcesAlive, Source
    <3>2. n.heap[v] = m.heap[v] /\ n.heap[m.heap[v].src] = m.heap[m.heap[v].src]
      BY <2>3, <3>1
    <3> QED BY <2>3, <3>1, <3>2
  <2> QED BY <2>1, <2>2, <2>3
<1>13. \A i \in 1..E, l \in Simple : i < D /\ GetVar(m, i, l) # NoVar =>
          GetVar(n, i, l) = GetVar(m, i, l) /\ n.heap[GetVar(m, i, l)] = m.heap[GetVar(m, i, l)]
  BY <1>1, <1>4
<1>14. EntriesExposed(n)
  <2> SUFFICES ASSUME NEW i \in 1..E, NEW l \in Simple, GetVar(n, i, l) # NoVar,
                      n.heap[GetVar(n, i, l)].src # GetVar(n, i, l)
               PROVE  /\ i > 1 /\ GetVar(n, i - 1, l) # NoVar
                      /\ n.heap[GetVar(n, i - 1, l)].src = n.heap[GetVar(n, i, l)].src
    BY DEF EntriesExposed, IsExposed, Source
  <2>1. GetVar(n, i, l) = GetVar(m, i, l) /\ n.heap[GetVar(m, i, l)] = m.heap[GetVar(m, i, l)] /\ i \in 1..D
    BY <1>2, <1>4
  <2>2. i > 1 /\ GetVar(m, i - 1, l) # NoVar /\ m.heap[GetVar(m, i - 1, l)].src = m.heap[GetVar(m, i, l)].src
    BY <2>1 DEF Forest, EntriesExposed, IsExposed, Source
  <2>3. i - 1 \in 1..E /\ i - 1 < D
    BY <1>1, <2>1, <2>2
  <2> QED BY <1>13, <2>1, <2>2, <2>3
<1>15. TailsExposed(n)
  <2>1. ASSUME NEW i \in 1..E, NEW v, TailIn(n, i, v) PROVE TailIn(m, i, v)
    BY <1>4, <2>1, Sorts DEF TailIn
  <2>2. ASSUME NEW i \in 1..E, i < D, NEW v, TailIn(m, i, v) PROVE TailIn(n, i, v)
    BY <1>13, <2>2, Sorts DEF TailIn
  <2> SUFFICES ASSUME NEW i \in 1..E, NEW v \in Address,
                      TailIn(n, i, v), n.heap[v].live, n.heap[v].src # v
               PROVE  \E j \in 1..(i - 1) : TailIn(n, j, n.heap[v].src)
    BY DEF TailsExposed, IsExposed, Source
  <2>3. TailIn(m, i, v) /\ n.heap[v] = m.heap[v] /\ i \in 1..D
    BY <1>2, <1>6, <2>1
  <2>4. PICK j \in 1..(i - 1) : TailIn(m, j, m.heap[v].src)
    BY <2>3 DEF Forest, TailsExposed, IsExposed, Source
  <2>5. j \in 1..E /\ j < D
    BY <1>1, <2>3
  <2> QED BY <2>2, <2>3, <2>4, <2>5
<1> QED BY <1>7, <1>8, <1>9, <1>10, <1>11, <1>12, <1>14, <1>15, <1>16 DEF Forest

\* A live tail is a tail of a stem that a scope owns.
LEMMA CompoundIsTail ==
  ASSUME NEW m, NEW top, Pool(m, top), Typed(m), Sane(m), Forest(m),
         NEW u \in Address \ m.left, m.heap[u].live, m.heap[u].key = Compound
  PROVE  \E i \in 1..Len(m.scopes) : TailIn(m, i, u) /\ ~IsExposed(m, GetVar(m, i, "S."))
<1>1. ~InScopes(m, u)
  <2> SUFFICES ASSUME InScopes(m, u) PROVE FALSE
    OBVIOUS
  <2>1. PICK i \in 1..Len(m.scopes), l \in Simple : u = GetVar(m, i, l)
    BY DEF InScopes
  <2>2. u # NoVar
    BY DEF Sane
  <2> QED BY <2>1, <2>2, Names DEF Forest, EntriesLive
<1>2. InTails(m, u)
  BY <1>1 DEF Forest, AllOwned
<1>3. PICK g \in Address : \E t \in DOMAIN m.heap[g].tails : u = m.heap[g].tails[t]
  BY <1>2 DEF InTails
<1>4. m.heap[g].live /\ m.heap[g].key = "S." /\ m.heap[g].src = g /\ g # NoVar
  BY <1>3 DEF Forest, TailsOwn, Sane
<1>5. PICK i \in 1..Len(m.scopes) : g = GetVar(m, i, "S.")
  BY <1>4, SimpleIsEntry, Sorts
<1> QED BY <1>3, <1>4, <1>5 DEF TailIn, IsExposed, Source

\* The source of a live tail is a tail of the same stem's scope or of an older one.
LEMMA TailSource ==
  ASSUME NEW m, NEW top, Pool(m, top), Typed(m), Sane(m), Forest(m),
         NEW i \in 1..Len(m.scopes), NEW u \in Address, TailIn(m, i, u), m.heap[u].live
  PROVE  \E j \in 1..i : TailIn(m, j, Source(m, u)) /\ (j = i => Source(m, u) = u)
<1>1. CASE IsExposed(m, u)
  <2>1. PICK j \in 1..(i - 1) : TailIn(m, j, Source(m, u))
    BY <1>1 DEF Forest, TailsExposed
  <2>2. j \in 1..i /\ j # i
    BY EntryAddress
  <2> QED BY <2>1, <2>2
<1>2. CASE ~IsExposed(m, u)
  <2>1. i \in 1..i
    BY EntryAddress
  <2> QED BY <1>2, <2>1 DEF IsExposed
<1> QED BY <1>1, <1>2

\* Stems that share a tail are the same.
LEMMA TailInOne ==
  ASSUME NEW m, NEW top, Pool(m, top), Forest(m),
         NEW i \in 1..Len(m.scopes), NEW j \in 1..Len(m.scopes), NEW u, TailIn(m, i, u), TailIn(m, j, u)
  PROVE  i = j
<1>1. GetVar(m, i, "S.") \in Address /\ GetVar(m, j, "S.") \in Address
  BY EntryAddress, Sorts
<1> DEFINE g == GetVar(m, i, "S.")
<1> DEFINE h == GetVar(m, j, "S.")
<1>3. PICK t \in DOMAIN m.heap[g].tails : u = m.heap[g].tails[t]
  BY DEF TailIn
<1>4. PICK x \in DOMAIN m.heap[h].tails : u = m.heap[h].tails[x]
  BY DEF TailIn
<1>2. g = h /\ g # NoVar
  <2> HIDE DEF g, h
  <2>2. g \in Address /\ h \in Address
    BY <1>1 DEF g, h
  <2>3. m.heap[g].tails[t] = m.heap[h].tails[x]
    BY <1>3, <1>4
  <2>4. TailsApart(m)
    BY DEF Forest
  <2>1. g = h
    BY <2>2, <2>3, <2>4, Zenon DEF TailsApart
  <2> QED BY <2>1 DEF TailIn, g
<1> QED BY <1>2, Sorts DEF Forest, EntriesApart

\* Nobody else's source is among what ~Variable deletes, in the last scope.
LEMMA OwnedSources ==
  ASSUME NEW m, NEW top, Pool(m, top), Typed(m), Sane(m), Forest(m),
         NEW k \in Simple, NEW v, v = GetVar(m, Len(m.scopes), k), v # NoVar, Len(m.scopes) >= 1,
         NEW u \in Address \ m.left, m.heap[u].live, m.heap[u].src \in Owned(m, v)
  PROVE  u \in Owned(m, v)
<1> DEFINE D == Len(m.scopes)
<1>1. D \in Nat /\ D \in 1..D /\ v \in Address /\ m.heap[v].live /\ m.heap[v].key = k
  BY EntryAddress DEF Forest, EntriesLive
<1>2. /\ m.heap[m.heap[u].src].live /\ m.heap[m.heap[u].src].key = m.heap[u].key
  BY DEF Forest, SourcesAlive, Source
<1>3. CASE m.heap[u].src = v
  <2>1. m.heap[u].key = k
    BY <1>1, <1>2, <1>3
  <2>2. PICK i \in 1..D : u = GetVar(m, i, k)
    BY <2>1, SimpleIsEntry
  <2>3. u # NoVar
    BY DEF Sane
  <2>4. PICK j \in 1..i : GetVar(m, j, k) = v
    BY <1>3, <2>2, <2>3, SourceBelow DEF Source
  <2>5. j \in 1..D /\ j = D
    BY <1>1, <2>4 DEF Forest, EntriesApart
  <2>6. i = D
    BY <1>1, <2>5
  <2> QED BY <2>2, <2>6 DEF Owned
<1>4. CASE m.heap[u].src # v
  <2>1. ~IsExposed(m, v) /\ m.heap[u].src \in Range(m.heap[v].tails)
    BY <1>4 DEF Owned
  <2>2. PICK t \in DOMAIN m.heap[v].tails : m.heap[u].src = m.heap[v].tails[t]
    BY <2>1 DEF Range
  <2>3. m.heap[v].key = "S." /\ m.heap[m.heap[u].src].key = Compound
    BY <1>1, <1>2, <2>2 DEF Forest, TailsOwn
  <2>4. TailIn(m, D, m.heap[u].src)
    BY <1>1, <2>2, <2>3 DEF TailIn
  <2>5. PICK i \in 1..D : TailIn(m, i, u)
    BY <1>2, <2>3, CompoundIsTail
  <2>6. PICK j \in 1..i : TailIn(m, j, m.heap[u].src) /\ (j = i => m.heap[u].src = u)
    BY <2>5, TailSource DEF Source
  <2>7. j \in 1..D
    BY <1>1
  <2>8. j = D
    BY <1>1, <2>4, <2>6, <2>7, TailInOne
  <2>9. j = i
    BY <1>1, <2>8
  <2> QED BY <2>6, <2>9
<1> QED BY <1>3, <1>4

\* Nor among the tails of a stem that the last scope exposes.
LEMMA ExposedTailSources ==
  ASSUME NEW m, NEW top, Pool(m, top), Typed(m), Sane(m), Forest(m),
         NEW v, v = GetVar(m, Len(m.scopes), "S."), v # NoVar, Len(m.scopes) >= 1, IsExposed(m, v),
         NEW u \in Address \ m.left, m.heap[u].live, m.heap[u].src \in Range(TailsOf(m, v))
  PROVE  u \in Range(TailsOf(m, v))
<1> DEFINE D == Len(m.scopes)
<1> DEFINE g == Source(m, v)
<1>1. D \in Nat /\ D \in 1..D /\ v \in Address
  BY EntryAddress, Sorts
<1>2. PICK p \in 1..D : GetVar(m, p, "S.") = g
  BY <1>1, SourceBelow, Sorts
<1>3. g \in Address /\ m.heap[g].live /\ g # NoVar
  <2>1. m.heap[v].live
    BY <1>1, Sorts DEF Forest, EntriesLive
  <2>2. v \notin m.left
    BY <1>1, Sorts, Names DEF Forest, EntriesLive, LeftApart
  <2> QED BY <1>1, <2>1, <2>2, TypedHeap DEF Forest, SourcesAlive, Sane
<1>4. PICK t \in DOMAIN m.heap[g].tails : m.heap[u].src = m.heap[g].tails[t]
  BY DEF Range, TailsOf
<1>5. TailIn(m, p, m.heap[u].src)
  BY <1>2, <1>3, <1>4 DEF TailIn
<1>6. m.heap[m.heap[u].src].live /\ m.heap[m.heap[u].src].key = m.heap[u].key
  BY DEF Forest, SourcesAlive, Source
<1>7. m.heap[m.heap[u].src].key = Compound
  BY <1>3, <1>4, <1>6 DEF Forest, TailsOwn
<1>8. PICK i \in 1..D : TailIn(m, i, u) /\ ~IsExposed(m, GetVar(m, i, "S."))
  BY <1>6, <1>7, CompoundIsTail
<1>9. PICK j \in 1..i : TailIn(m, j, m.heap[u].src) /\ (j = i => m.heap[u].src = u)
  BY <1>8, TailSource DEF Source
<1>10. j \in 1..D /\ j = p
  <2>1. j \in 1..D
    BY <1>1
  <2> QED BY <1>5, <1>9, <2>1, TailInOne
<1>11. j = i
  <2> SUFFICES ASSUME j # i PROVE FALSE
    OBVIOUS
  <2>1. i \in (p + 1)..D
    BY <1>1, <1>10
  <2>2. IsExposed(m, GetVar(m, i, "S."))
    BY <1>1, <1>2, <2>1, ExposedThrough, Sorts
  <2> QED BY <1>8, <2>2
<1>12. m.heap[u].src = u
  BY <1>9, <1>11
<1> QED BY <1>4, <1>12 DEF Range, TailsOf

-----------------------------------------------------------------------------
(***************************************************************************)
(* What is kept outside the maps: the cache of the handler's own RC, which *)
(* no DROP clears, and the target of an assignment, on the operand stack.  *)
(***************************************************************************)
\* A live variable in that cache, for a scope there is, is the scope's RC.
RcRight(m) == \A i \in 1..Len(m.scopes) :
  m.cache["rc"].id = m.scopes[i].id /\ m.heap[m.cache["rc"].var].live =>
    m.cache["rc"].var = GetVar(m, i, "RC")

\* A target that is alive is in its scope, or a tail of the stem the scope has.
TailUnder(m, i, v) == /\ GetVar(m, i, "S.") # NoVar
                      /\ \E t \in DOMAIN TailsOf(m, GetVar(m, i, "S.")) :
                            v = TailsOf(m, GetVar(m, i, "S."))[t]
TargetRight(m, r) ==
  /\ r.var \in Address
  /\ m.heap[r.var].live =>
       /\ r.depth \in 1..Len(m.scopes)
       /\ (\E k \in Simple : r.var = GetVar(m, r.depth, k)) \/ TailUnder(m, r.depth, r.var)

Pointed(m) == RcRight(m) /\ TargetRight(m, target)

\* No new variable takes an address that one of the two has.
Unpointed(m, v) == v # target.var /\ v \notin PointedByCaches(m)

\* Both stay right in the scopes that remain if these keep what they have, or lose a
\* variable and its tails at once.
LEMMA StillPointed ==
  ASSUME NEW m, NEW n, NEW top, Pool(m, top), Typed(m), Sane(m), Forest(m), Pointed(m),
         n.cache["rc"] = m.cache["rc"],
         NEW E \in Nat, E = Len(n.scopes), E <= Len(m.scopes),
         \A i \in 1..E : n.scopes[i].id = m.scopes[i].id,
         target.depth \in 1..Len(m.scopes) => target.depth <= E,
         \A v \in Address : n.heap[v].live => m.heap[v].live \/ Unpointed(m, v),
         \A i \in 1..E, k \in Simple : GetVar(m, i, k) # NoVar =>
            \/ GetVar(n, i, k) = GetVar(m, i, k) /\ Source(n, GetVar(m, i, k)) = Source(m, GetVar(m, i, k))
            \/ /\ ~n.heap[GetVar(m, i, k)].live
               /\ \A t \in DOMAIN TailsOf(m, GetVar(m, i, k)) : ~n.heap[TailsOf(m, GetVar(m, i, k))[t]].live,
         \A g \in Address : \A t \in DOMAIN m.heap[g].tails :
            \/ ~n.heap[m.heap[g].tails[t]].live
            \/ t \in DOMAIN n.heap[g].tails /\ n.heap[g].tails[t] = m.heap[g].tails[t]
  PROVE  Pointed(n)
<1> DEFINE c == m.cache["rc"]
<1>1. Len(m.scopes) \in Nat /\ \A i \in 1..E : i \in 1..Len(m.scopes)
  BY EntryAddress
<1>2. c.var \in Address /\ "rc" \in Cached
  <2>1. "rc" \in Cached
    BY DEF Cached
  <2>2. c \in CacheType(top)
    BY <2>1 DEF Pool
  <2> QED BY <2>1, <2>2 DEF CacheType
<1>3. RcRight(n)
  <2> SUFFICES ASSUME NEW i \in 1..E, c.id = n.scopes[i].id, n.heap[c.var].live
               PROVE  c.var = GetVar(n, i, "RC")
    BY DEF RcRight
  <2>1. c.id = m.scopes[i].id /\ i \in 1..Len(m.scopes)
    BY <1>1
  <2>2. c.var \in PointedByCaches(m)
    <3> DEFINE ids == {m.scopes[j].id : j \in DOMAIN m.scopes}
    <3>1. c.id \in ids
      BY <2>1, ScopesTyped
    <3> HIDE DEF ids
    <3>2. c.var \in {m.cache[s].var : s \in {s \in Cached : m.cache[s].id \in ids}}
      BY <1>2, <3>1
    <3> QED BY <3>2 DEF PointedByCaches, ids
  <2>3. m.heap[c.var].live
    BY <1>2, <2>2 DEF Unpointed
  <2>4. c.var = GetVar(m, i, "RC")
    BY <2>1, <2>3 DEF Pointed, RcRight
  <2>5. c.var # NoVar
    BY <2>3 DEF Sane
  <2> QED BY <2>4, <2>5, Sorts
<1>4. TargetRight(n, target)
  <2> DEFINE v == target.var
  <2> DEFINE i == target.depth
  <2>0. v \in Address
    BY DEF Pointed, TargetRight
  <2> SUFFICES ASSUME n.heap[v].live
               PROVE  i \in 1..E /\ ((\E k \in Simple : v = GetVar(n, i, k)) \/ TailUnder(n, i, v))
    BY <2>0 DEF TargetRight
  <2>1. m.heap[v].live
    BY <2>0 DEF Unpointed
  <2>2. /\ i \in 1..Len(m.scopes)
        /\ (\E k \in Simple : v = GetVar(m, i, k)) \/ TailUnder(m, i, v)
    BY <2>1 DEF Pointed, TargetRight
  <2>3. i \in 1..E
    BY <1>1, <2>2
  <2>4. v # NoVar
    BY <2>1 DEF Sane
  <2> HIDE DEF v, i
  <2>5. ASSUME NEW k \in Simple, v = GetVar(m, i, k) PROVE v = GetVar(n, i, k)
    BY <2>3, <2>4, <2>5
  <2>6. ASSUME TailUnder(m, i, v) PROVE TailUnder(n, i, v)
    <3> DEFINE g == GetVar(m, i, "S.")
    <3> DEFINE s == Source(m, g)
    <3>1. PICK t \in DOMAIN TailsOf(m, g) : v = TailsOf(m, g)[t]
      BY <2>6 DEF TailUnder
    <3>2. g # NoVar /\ g \in Address
      BY <2>2, <2>6, EntryAddress, Sorts DEF TailUnder
    <3>3. GetVar(n, i, "S.") = g /\ Source(n, g) = s
      BY <2>3, <3>1, <3>2, Sorts
    <3>4. s \in Address
      BY <3>2, TypedHeap
    <3>5. t \in DOMAIN m.heap[s].tails /\ v = m.heap[s].tails[t]
      BY <3>1 DEF TailsOf
    <3> HIDE DEF s, g
    <3>6. t \in DOMAIN n.heap[s].tails /\ n.heap[s].tails[t] = v
      BY <3>4, <3>5
    <3> QED BY <3>2, <3>3, <3>6 DEF TailUnder, TailsOf
  <2> QED BY <2>2, <2>3, <2>5, <2>6
<1> QED BY <1>3, <1>4 DEF Pointed

\* A step that only adds leaves them pointing where they did.
LEMMA GrownPointed ==
  ASSUME NEW m, NEW n, NEW top, Pool(m, top), Typed(m), Sane(m), Forest(m), Pointed(m),
         n.cache["rc"] = m.cache["rc"], Len(n.scopes) = Len(m.scopes),
         \A i \in 1..Len(m.scopes) : n.scopes[i].id = m.scopes[i].id,
         \A v \in Address : n.heap[v].live => m.heap[v].live \/ Unpointed(m, v),
         \A i \in 1..Len(m.scopes), k \in Simple : GetVar(m, i, k) # NoVar =>
            GetVar(n, i, k) = GetVar(m, i, k) /\ Source(n, GetVar(m, i, k)) = Source(m, GetVar(m, i, k)),
         \A g \in Address : \A t \in DOMAIN m.heap[g].tails :
            t \in DOMAIN n.heap[g].tails /\ n.heap[g].tails[t] = m.heap[g].tails[t]
  PROVE  Pointed(n)
<1> DEFINE E == Len(m.scopes)
<1>1. E \in Nat /\ E = Len(n.scopes) /\ E <= Len(m.scopes)
  BY EntryAddress
<1>2. \A i \in 1..E : n.scopes[i].id = m.scopes[i].id
  OBVIOUS
<1>3. target.depth \in 1..Len(m.scopes) => target.depth <= E
  OBVIOUS
<1>4. \A i \in 1..E, k \in Simple : GetVar(m, i, k) # NoVar =>
         \/ GetVar(n, i, k) = GetVar(m, i, k) /\ Source(n, GetVar(m, i, k)) = Source(m, GetVar(m, i, k))
         \/ /\ ~n.heap[GetVar(m, i, k)].live
            /\ \A t \in DOMAIN TailsOf(m, GetVar(m, i, k)) : ~n.heap[TailsOf(m, GetVar(m, i, k))[t]].live
  OBVIOUS
<1>5. \A g \in Address : \A t \in DOMAIN m.heap[g].tails :
         \/ ~n.heap[m.heap[g].tails[t]].live
         \/ t \in DOMAIN n.heap[g].tails /\ n.heap[g].tails[t] = m.heap[g].tails[t]
  OBVIOUS
<1> HIDE DEF E
<1> QED BY <1>1, <1>2, <1>3, <1>4, <1>5, StillPointed

LEMMA SameRc ==
  ASSUME NEW m, NEW n, n.heap = m.heap, n.scopes = m.scopes, n.cache["rc"] = m.cache["rc"], RcRight(m)
  PROVE  RcRight(n)
BY DEF RcRight, GetVar

LEMMA CachedRc ==
  ASSUME NEW m, NEW top, Pool(m, top), NEW d \in 1..Len(m.scopes), NEW sym \in Cached,
         NEW v, v = GetVar(m, d, Key(sym)), RcRight(m)
  PROVE  RcRight(CacheVar(m, d, sym, v)) /\ RcRight(CacheIfAny(m, d, sym, v))
<1> DEFINE n == CacheVar(m, d, sym, v)
<1>1. DOMAIN m = Fields /\ DOMAIN m.cache = Cached
  BY DEF Pool
<1>2. n.heap = m.heap /\ n.scopes = m.scopes
      /\ n.cache = [m.cache EXCEPT ![sym] = IF v = NoVar THEN NoCache ELSE [id |-> m.scopes[d].id, var |-> v]]
  BY <1>1 DEF CacheVar, Fields
<1>3. CASE sym # "rc"
  <2>1. n.cache["rc"] = m.cache["rc"]
    BY <1>1, <1>2, <1>3
  <2> QED BY <1>2, <2>1, SameRc DEF CacheIfAny
<1>4. CASE sym = "rc"
  <2>1. n.cache["rc"] = IF v = NoVar THEN NoCache ELSE [id |-> m.scopes[d].id, var |-> v]
    BY <1>1, <1>2, <1>4
  <2>2. v = GetVar(m, d, "RC")
    BY <1>4 DEF Key
  <2>3. ASSUME NEW i \in 1..Len(m.scopes), n.cache["rc"].id = m.scopes[i].id
        PROVE  n.cache["rc"].var = GetVar(m, i, "RC")
    <3>1. m.scopes[i].id \in 1..top
      BY ScopesTyped
    <3>2. NoCache.id \notin 1..top
      BY DEF NoCache, Pool
    <3>3. v # NoVar
      BY <2>1, <2>3, <3>1, <3>2
    <3>4. n.cache["rc"] = [id |-> m.scopes[d].id, var |-> v]
      BY <2>1, <3>3
    <3>5. n.cache["rc"].var = v /\ n.cache["rc"].id = m.scopes[d].id
      BY <3>4
    <3>6. i = d
      BY <2>3, <3>5 DEF Pool
    <3> QED BY <2>2, <3>5, <3>6
  <2>4. \A i, k : GetVar(n, i, k) = GetVar(m, i, k)
    BY <1>2 DEF GetVar
  <2>5. RcRight(n)
    BY <1>2, <2>3, <2>4 DEF RcRight
  <2> QED BY <2>5 DEF CacheIfAny
<1> QED BY <1>3, <1>4

\* A search moves nothing but the caches.
LEMMA SamePointed ==
  ASSUME NEW m, NEW n, n.heap = m.heap, n.scopes = m.scopes, RcRight(m) => RcRight(n), Pointed(m)
  PROVE  Pointed(n)
<1>1. \A i, k : GetVar(n, i, k) = GetVar(m, i, k)
  BY DEF GetVar
<1>2. \A v : TailsOf(n, v) = TailsOf(m, v)
  BY DEF TailsOf, Source
<1> QED BY <1>1, <1>2 DEF Pointed, TargetRight, TailUnder

-----------------------------------------------------------------------------
(***************************************************************************)
(* What the operations are made of.                                        *)
(***************************************************************************)
\* What is alive stays so, with its name and source; an exposed variable is not touched
\* at all, the maps keep what they have, and so what is kept outside stays right.
Adds(m, n) ==
  /\ m.bad => n.bad
  /\ m.heap[NoVar].live => n.heap[NoVar].live
  /\ Len(n.scopes) = Len(m.scopes)
  /\ \A i \in 1..Len(m.scopes), k \in Simple :
       GetVar(m, i, k) # NoVar => GetVar(n, i, k) = GetVar(m, i, k)
  /\ Sane(n) => \A v \in Address : m.heap[v].live =>
       /\ n.heap[v].live /\ n.heap[v].key = m.heap[v].key /\ n.heap[v].src = m.heap[v].src
       /\ m.heap[v].src # v => n.heap[v] = m.heap[v]
  /\ Sane(n) /\ Pointed(m) => Pointed(n)

LEMMA AddsSane == ASSUME NEW m, NEW n, Adds(m, n), Sane(n) PROVE Sane(m)
BY DEF Adds, Sane

LEMMA AddsTwice ==
  ASSUME NEW m, NEW n, NEW o, Adds(m, n), Adds(n, o) PROVE Adds(m, o)
<1>1. Len(o.scopes) = Len(m.scopes) /\ (m.bad => o.bad) /\ (m.heap[NoVar].live => o.heap[NoVar].live)
  BY DEF Adds
<1>2. ASSUME NEW i \in 1..Len(m.scopes), NEW k \in Simple, GetVar(m, i, k) # NoVar
      PROVE  GetVar(o, i, k) = GetVar(m, i, k)
  <2>1. GetVar(n, i, k) = GetVar(m, i, k) /\ i \in 1..Len(n.scopes)
    BY <1>2 DEF Adds
  <2> QED BY <1>2, <2>1 DEF Adds
<1>3. ASSUME Sane(o), NEW v \in Address, m.heap[v].live
      PROVE  /\ o.heap[v].live /\ o.heap[v].key = m.heap[v].key /\ o.heap[v].src = m.heap[v].src
             /\ m.heap[v].src # v => o.heap[v] = m.heap[v]
  <2>1. Sane(n)
    BY <1>3, AddsSane
  <2>2. /\ n.heap[v].live /\ n.heap[v].key = m.heap[v].key /\ n.heap[v].src = m.heap[v].src
        /\ m.heap[v].src # v => n.heap[v] = m.heap[v]
    BY <1>3, <2>1 DEF Adds
  <2> QED BY <1>3, <2>2 DEF Adds
<1>4. Sane(o) /\ Pointed(m) => Pointed(o)
  BY AddsSane DEF Adds
<1> QED BY <1>1, <1>2, <1>3, <1>4 DEF Adds

\* Only values and bad change.
LEMMA ShapeFine ==
  ASSUME NEW m, NEW n, NEW top, Pool(m, top), Fine(m), Typed(n), SameShape(m, n), m.bad => n.bad
  PROVE  Fine(n)
<1>1. Sane(n) => Sane(m)
  BY Sorts DEF Sane, SameShape
<1> QED BY <1>1, ShapeForest DEF Fine

LEMMA SameHeapFine ==
  ASSUME NEW m, NEW n, NEW top, Pool(m, top), Fine(m), n.heap = m.heap, n.scopes = m.scopes,
         n.left = m.left, m.bad => n.bad, n.bad \in BOOLEAN, RcRight(m) => RcRight(n)
  PROVE  Fine(n) /\ Adds(m, n)
<1>1. Typed(n) /\ SameShape(m, n)
  BY DEF Fine, Typed, SameShape
<1>2. Adds(m, n)
  <2>1. Pointed(m) => Pointed(n)
    BY SamePointed
  <2> QED BY <2>1 DEF Adds, GetVar
<1> QED BY <1>1, <1>2, ShapeFine

LEMMA SetValueFine ==
  ASSUME NEW m, NEW top, Pool(m, top), Fine(m), NEW v \in Address, Sane(m) => v \notin m.left, NEW x,
         x \in Values \/ m.heap[Source(m, v)].key # "RC"
  PROVE  Fine(SetValue(m, v, x)) /\ Adds(m, SetValue(m, v, x)) /\ SetValue(m, v, x).scopes = m.scopes
<1> DEFINE n == SetValue(m, v, x)
<1>1. DOMAIN m = Fields /\ Alike(m, n)
  BY PoolFields, HeapOnly
<1>2. /\ Typed(n) /\ n.left = m.left
      /\ n.bad <=> m.bad \/ ~Usable(m, v)
      /\ \A u \in Address : u # Source(m, v) => n.heap[u] = m.heap[u]
      /\ \A u \in Address : /\ n.heap[u].live = m.heap[u].live /\ n.heap[u].key = m.heap[u].key
                            /\ n.heap[u].src = m.heap[u].src /\ n.heap[u].tails = m.heap[u].tails
  BY <1>1, SetValueTyped DEF Fine
<1> HIDE DEF n
<1>3. SameShape(m, n)
  BY <1>1, <1>2 DEF SameShape, Alike
<1>4. Fine(n)
  BY <1>2, <1>3, ShapeFine
<1>5. Adds(m, n)
  <2>1. n.scopes = m.scopes
    BY <1>1 DEF Alike
  <2>2. m.heap[NoVar].live = n.heap[NoVar].live
    BY <1>2, Sorts
  <2>3. ASSUME Sane(n), NEW u \in Address, m.heap[u].live, m.heap[u].src # u
        PROVE  n.heap[u] = m.heap[u]
    <3>1. Sane(m) /\ Usable(m, v)
      BY <1>2, <2>2, <2>3 DEF Sane
    <3>2. Source(m, Source(m, v)) = Source(m, v)
      BY <3>1 DEF Fine, Forest, SourcesAlive, Usable
    <3> QED BY <1>2, <2>3, <3>2 DEF Source
  <2>4. ASSUME Sane(n), Pointed(m) PROVE Pointed(n)
    <3>1. n.cache = m.cache /\ Sane(m)
      BY <1>1, <1>2, <2>2, <2>4 DEF Alike, Sane
    <3>2. Typed(m) /\ Forest(m) /\ Len(n.scopes) = Len(m.scopes) /\ Len(m.scopes) \in Nat
      BY <2>1, <3>1, EntryAddress DEF Fine
    <3>3. ASSUME NEW i \in 1..Len(m.scopes), NEW k \in Simple
          PROVE  GetVar(n, i, k) = GetVar(m, i, k) /\ Source(n, GetVar(m, i, k)) = Source(m, GetVar(m, i, k))
      BY <1>2, <2>1, EntryAddress DEF GetVar, Source
    <3>4. \A u \in Address : n.heap[u].live => m.heap[u].live
      BY <1>2
    <3>5. ASSUME NEW g \in Address, NEW t \in DOMAIN m.heap[g].tails
          PROVE  t \in DOMAIN n.heap[g].tails /\ n.heap[g].tails[t] = m.heap[g].tails[t]
      <4>1. n.heap[g].tails = m.heap[g].tails
        BY <1>2
      <4> QED BY <4>1
    <3> QED BY <2>1, <2>4, <3>1, <3>2, <3>3, <3>4, <3>5, GrownPointed
  <2> QED BY <1>2, <2>1, <2>2, <2>3, <2>4 DEF Adds, GetVar
<1> QED BY <1>1, <1>4, <1>5 DEF Alike, n

LEMMA NewAddrFresh ==
  ASSUME NEW m, Typed(m), Sane(m), Forest(m), NewAddr(m) # NoVar
  PROVE  Fresh(m, NewAddr(m)) /\ NewAddr(m) # target.var /\ NewAddr(m) \notin PointedByCaches(m)
<1> DEFINE w == NewAddr(m)
<1>1. w \in Unused(m)
  BY DEF NewAddr
<1> HIDE DEF w
<1>2. /\ w \in Vars /\ ~m.heap[w].live /\ w # target.var /\ w \notin PointedByCaches(m)
      /\ \A g \in Vars : w \notin Range(m.heap[g].tails)
  BY <1>1 DEF Unused
<1>3. ASSUME NEW g \in Address, NEW t \in DOMAIN m.heap[g].tails PROVE m.heap[g].tails[t] # w
  <2>1. g # NoVar
    BY <1>3 DEF Forest, TailsOwn, Sane
  <2>2. g \in Vars
    BY <2>1, Sorts
  <2> QED BY <1>2, <2>2 DEF Range
<1> QED BY <1>2, <1>3 DEF Fresh, w

LEMMA PutVarMap ==
  ASSUME NEW m, NEW top, Pool(m, top), NEW d \in 1..Len(m.scopes), NEW k \in Simple, NEW v
  PROVE  LET n == PutVar(m, d, k, v)
         IN  /\ Len(n.scopes) = Len(m.scopes)
             /\ \A i \in 1..Len(m.scopes), l \in Simple :
                  GetVar(n, i, l) = IF i = d /\ l = k THEN v ELSE GetVar(m, i, l)
<1> DEFINE n == PutVar(m, d, k, v)
<1> DEFINE e == [m.scopes[d] EXCEPT !.map[k] = v]
<1>1. n.scopes = [m.scopes EXCEPT ![d] = e]
  BY DEF PutVar, Pool, Fields
<1>2. DOMAIN m.scopes = 1..Len(m.scopes) /\ Len(m.scopes) \in Nat /\ m.scopes[d] \in ScopeType(top)
  BY ScopesTyped
<1>3. \A l \in Simple : e.map[l] = IF l = k THEN v ELSE m.scopes[d].map[l]
  BY <1>2 DEF ScopeType
<1> HIDE DEF e, n
<1>4. DOMAIN n.scopes = 1..Len(m.scopes) /\ n.scopes[d] = e
      /\ \A i \in 1..Len(m.scopes) : i # d => n.scopes[i] = m.scopes[i]
  BY <1>1, <1>2
<1>5. m.scopes \in Seq(ScopeType(top) \union {e})
  <2>1. m.scopes \in Seq(ScopeType(top))
    BY DEF Pool
  <2> QED BY <2>1, SeqMonotonic
<1>6. Len(n.scopes) = Len(m.scopes)
  BY <1>1, <1>2, <1>5, ExceptSeq
<1> QED BY <1>3, <1>4, <1>6 DEF GetVar, n

LEMMA PutVarIds ==
  ASSUME NEW m, NEW top, Pool(m, top), NEW d \in 1..Len(m.scopes), NEW k, NEW v
  PROVE  PutVar(m, d, k, v).cache = m.cache
         /\ \A i \in 1..Len(m.scopes) : PutVar(m, d, k, v).scopes[i].id = m.scopes[i].id
<1> DEFINE n == PutVar(m, d, k, v)
<1> DEFINE e == [m.scopes[d] EXCEPT !.map[k] = v]
<1>1. n.scopes = [m.scopes EXCEPT ![d] = e] /\ n.cache = m.cache
  BY DEF PutVar, Pool, Fields
<1>2. DOMAIN m.scopes = 1..Len(m.scopes) /\ m.scopes[d] \in ScopeType(top)
  BY ScopesTyped
<1>3. e.id = m.scopes[d].id
  BY <1>2 DEF ScopeType
<1> HIDE DEF e
<1> QED BY <1>1, <1>2, <1>3

\* A new variable is put in scope d, where there was none of the name.
LEMMA EntryAdded ==
  ASSUME NEW m, NEW top, Pool(m, top), Fine(m), NEW d \in 1..Len(m.scopes), NEW k \in Simple,
         GetVar(m, d, k) = NoVar, NEW w, w = NewAddr(m), NEW s \in Address,
         s = w \/ (Sane(m) => d > 1 /\ GetVar(m, d - 1, k) # NoVar /\ s = Source(m, GetVar(m, d - 1, k)))
  PROVE  LET n == PutVar(New(m, w, k, s), d, k, w)
         IN  /\ Fine(n) /\ Adds(m, n) /\ n.bad = m.bad
             /\ n.heap[w].live /\ n.heap[w].key = k /\ n.heap[w].src = s /\ DOMAIN n.heap[w].tails = {}
             /\ \A v \in Address : v # w => n.heap[v] = m.heap[v]
             /\ \A i \in 1..Len(m.scopes), l \in Simple :
                  GetVar(n, i, l) = IF i = d /\ l = k THEN w ELSE GetVar(m, i, l)
             /\ Sane(n) => Sane(m) /\ Fresh(m, w)
<1> DEFINE m1 == New(m, w, k, s)
<1> DEFINE n == PutVar(m1, d, k, w)
<1>1. w \in Address /\ k \in Symbols
  BY NewAddrIsAddress, Sorts
<1>2. DOMAIN m = Fields /\ Alike(m, m1) /\ Pool(m1, top)
  BY PoolFields, HeapOnly, AlikePool
<1>3. /\ Typed(m1) /\ m1.bad = m.bad /\ DOMAIN m1 = Fields /\ m1.left = m.left
      /\ \A v \in Address : v # w => m1.heap[v] = m.heap[v]
      /\ m1.heap[w] = [live |-> TRUE, key |-> k, val |-> Null, src |-> s, tails |-> NoTails]
  BY <1>1, <1>2, NewTyped DEF Fine
<1>4. n.heap = m1.heap /\ n.bad = m1.bad /\ n.left = m1.left
  BY <1>3, PutVarHeap
<1>5. m1.scopes = m.scopes
  BY <1>2 DEF Alike
<1>6. /\ Len(n.scopes) = Len(m.scopes)
      /\ \A i \in 1..Len(m.scopes), l \in Simple :
           GetVar(n, i, l) = IF i = d /\ l = k THEN w ELSE GetVar(m, i, l)
  <2>1. \A i, l : GetVar(m1, i, l) = GetVar(m, i, l)
    BY <1>5 DEF GetVar
  <2> QED BY <1>2, <1>5, <2>1, PutVarMap
<1>7. /\ n.heap[w].live /\ n.heap[w].key = k /\ n.heap[w].src = s /\ DOMAIN n.heap[w].tails = {}
      /\ \A v \in Address : v # w => n.heap[v] = m.heap[v]
  BY <1>3, <1>4, DeadIsVariable
<1> HIDE DEF n, m1
<1>8. Typed(n) /\ n.bad = m.bad /\ n.left = m.left
  BY <1>3, <1>4 DEF Typed
<1>9. ASSUME Sane(n) PROVE Sane(m) /\ w # NoVar /\ Fresh(m, w)
  <2>1. w # NoVar
    BY <1>7, <1>9 DEF Sane
  <2>2. Sane(m)
    BY <1>7, <1>8, <1>9, <2>1, Sorts DEF Sane
  <2> QED BY <2>1, <2>2, NewAddrFresh DEF Fine
<1>10. Fine(n)
  <2> SUFFICES ASSUME Sane(n) PROVE Forest(n)
    BY <1>8 DEF Fine
  <2>1. Sane(m) /\ Fresh(m, w) /\ Forest(m) /\ Typed(m)
    BY <1>9 DEF Fine
  <2>2. Created(n, w, k, s)
    BY <1>7 DEF Created
  <2> QED BY <1>6, <1>7, <1>8, <2>1, <2>2, AddEntryForest
<1>11. Adds(m, n)
  <2>1. m.heap[NoVar].live => n.heap[NoVar].live
    BY <1>7, Sorts
  <2>2. ASSUME Sane(n), NEW v \in Address, m.heap[v].live PROVE n.heap[v] = m.heap[v] /\ v # w
    BY <1>7, <1>9, <2>2 DEF Fresh
  <2>3. ASSUME Sane(n), Pointed(m) PROVE Pointed(n)
    <3>1. Sane(m) /\ w # NoVar /\ Fresh(m, w) /\ Typed(m) /\ Forest(m) /\ Unpointed(m, w)
      BY <1>9, <2>3, NewAddrFresh DEF Fine, Unpointed
    <3>2. n.cache = m.cache /\ Len(n.scopes) \in Nat /\ Len(n.scopes) = Len(m.scopes)
          /\ \A i \in 1..Len(m.scopes) : n.scopes[i].id = m.scopes[i].id
      BY <1>2, <1>3, <1>5, <1>6, PutVarIds, EntryAddress DEF Alike, n
    <3>3. ASSUME NEW i \in 1..Len(m.scopes), NEW l \in Simple, GetVar(m, i, l) # NoVar
          PROVE  GetVar(n, i, l) = GetVar(m, i, l) /\ Source(n, GetVar(m, i, l)) = Source(m, GetVar(m, i, l))
      <4>1. GetVar(m, i, l) \in Address /\ m.heap[GetVar(m, i, l)].live
        BY <3>1, <3>2, <3>3, EntryAddress DEF Forest, EntriesLive
      <4> QED BY <1>6, <1>7, <3>1, <3>2, <3>3, <4>1 DEF Fresh, Source
    <3>4. \A u \in Address : n.heap[u].live => m.heap[u].live \/ Unpointed(m, u)
      BY <1>7, <3>1
    <3>5. ASSUME NEW g \in Address, NEW t \in DOMAIN m.heap[g].tails
          PROVE  t \in DOMAIN n.heap[g].tails /\ n.heap[g].tails[t] = m.heap[g].tails[t]
      <4>1. m.heap[g].live
        BY <3>1, <3>5 DEF Forest, TailsOwn
      <4>2. n.heap[g] = m.heap[g]
        BY <2>2, <2>3, <4>1
      <4> QED BY <4>2
    <3> QED BY <2>3, <3>1, <3>2, <3>3, <3>4, <3>5, GrownPointed
  <2> QED BY <1>6, <1>8, <2>1, <2>2, <2>3 DEF Adds
<1> QED BY <1>6, <1>7, <1>8, <1>9, <1>10, <1>11 DEF n, m1

\* A new variable is put among the tails of the stem of scope d: of the stem's source,
\* or, when the variable exposes another, of a stem that is the scope's own.
LEMMA TailAdded ==
  ASSUME NEW m, NEW top, Pool(m, top), Fine(m), NEW d \in 1..Len(m.scopes),
         NEW w \in Address, Sane(m) /\ w # NoVar => Fresh(m, w) /\ Unpointed(m, w),
         NEW st \in Address, NEW t \in Tails, NEW s \in Address,
         Sane(m) => /\ st # NoVar /\ st = GetVar(m, d, "S.")
                    /\ t \notin DOMAIN m.heap[Source(m, st)].tails,
         \/ s = w
         \/ Sane(m) => /\ ~IsExposed(m, st) /\ m.heap[s].live /\ m.heap[s].src = s
                       /\ \E j \in 1..(d - 1) : TailIn(m, j, s)
  PROVE  LET n == PutTail(New(m, w, Compound, s), st, t, w)
         IN  /\ Fine(n) /\ Adds(m, n) /\ n.bad = m.bad /\ n.scopes = m.scopes
             /\ n.heap[w].live /\ n.heap[w].key = Compound /\ n.heap[w].src = s
             /\ Sane(n) => /\ Sane(m) /\ Fresh(m, w) /\ Source(n, st) = Source(m, st)
                           /\ t \in DOMAIN n.heap[Source(m, st)].tails
                           /\ n.heap[Source(m, st)].tails[t] = w
                           /\ \A v \in Address : v # w /\ v # Source(m, st) => n.heap[v] = m.heap[v]
<1> DEFINE m1 == New(m, w, Compound, s)
<1> DEFINE n == PutTail(m1, st, t, w)
<1>1. Compound \in Symbols
  BY Sorts
<1>2. DOMAIN m = Fields /\ Alike(m, m1)
  BY PoolFields, HeapOnly
<1>3. /\ Typed(m1) /\ m1.bad = m.bad /\ DOMAIN m1 = Fields /\ m1.left = m.left
      /\ \A v \in Address : v # w => m1.heap[v] = m.heap[v]
      /\ m1.heap[w] = [live |-> TRUE, key |-> Compound, val |-> Null, src |-> s, tails |-> NoTails]
  BY <1>1, <1>2, NewTyped DEF Fine
<1>4. /\ m1.heap[w].live /\ m1.heap[w].key = Compound /\ m1.heap[w].src = s /\ DOMAIN m1.heap[w].tails = {}
  BY <1>3, DeadIsVariable
<1> DEFINE h == Source(m1, st)
<1> HIDE DEF m1
<1>0. TailPut(m1, n, h, t, w)
  BY <1>3, PutTailTyped
<1>5. /\ Typed(n) /\ n.bad = m1.bad /\ h \in Address
      /\ \A u \in Address : u # h => n.heap[u] = m1.heap[u]
      /\ n.heap[h].live = m1.heap[h].live /\ n.heap[h].key = m1.heap[h].key
      /\ n.heap[h].src = m1.heap[h].src
      /\ DOMAIN n.heap[h].tails = (DOMAIN m1.heap[h].tails) \union {t}
      /\ \A u \in DOMAIN m1.heap[h].tails : n.heap[h].tails[u] = m1.heap[h].tails[u]
      /\ t \notin DOMAIN m1.heap[h].tails => n.heap[h].tails[t] = w
  BY <1>0 DEF TailPut
<1>17. t \notin DOMAIN m1.heap[h].tails => n.left = m1.left
  BY <1>0 DEF TailPut
<1>6. n.scopes = m.scopes
  BY <1>2, <1>3, HeapOnly DEF Alike
<1> HIDE DEF n, h
<1>7. \A u \in Address : /\ n.heap[u].live = m1.heap[u].live /\ n.heap[u].key = m1.heap[u].key
                         /\ n.heap[u].src = m1.heap[u].src
  BY <1>5
<1>8. n.heap[w].live /\ n.heap[w].key = Compound /\ n.heap[w].src = s
  BY <1>4, <1>7
<1>9. n.bad = m.bad
  BY <1>3, <1>5
<1>10. m.heap[NoVar].live => n.heap[NoVar].live
  BY <1>3, <1>7, <1>8, Sorts
<1>11. ASSUME Sane(n)
       PROVE  /\ Sane(m) /\ Forest(m) /\ Fresh(m, w) /\ w # NoVar
              /\ st # w /\ m.heap[st].live /\ h = Source(m, st)
              /\ h # w /\ m.heap[h].live /\ m.heap[h].src = h /\ m1.heap[h] = m.heap[h]
              /\ t \notin DOMAIN m.heap[h].tails
  <2>1. w # NoVar
    BY <1>8, <1>11 DEF Sane
  <2>2. Sane(m)
    BY <1>9, <1>10, <1>11 DEF Sane
  <2>3. Fresh(m, w) /\ Forest(m)
    BY <2>1, <2>2 DEF Fine
  <2>4. m.heap[st].live /\ st # w
    BY <2>2, <2>3, Sorts DEF Forest, EntriesLive, Fresh
  <2>5. h = Source(m, st)
    BY <1>3, <2>4 DEF Source, h
  <2>9. st \notin m.left
    <3>1. InScopes(m, st)
      BY <2>2, Sorts DEF InScopes
    <3> QED BY <2>2, <2>3, <3>1, LeftOut
  <2>6. m.heap[h].live /\ m.heap[h].src = h
    BY <2>3, <2>4, <2>5, <2>9 DEF Forest, SourcesAlive, Source
  <2>7. h # w
    BY <2>3, <2>6 DEF Fresh
  <2>8. m1.heap[h] = m.heap[h]
    BY <1>3, <1>5, <2>7
  <2> QED BY <2>1, <2>2, <2>3, <2>4, <2>5, <2>6, <2>7, <2>8
<1>15. ASSUME Sane(n)
       PROVE  /\ \A v \in Address : v # w /\ v # h => n.heap[v] = m.heap[v]
              /\ n.heap[h].live = m.heap[h].live /\ n.heap[h].key = m.heap[h].key
              /\ n.heap[h].src = m.heap[h].src
              /\ DOMAIN n.heap[h].tails = (DOMAIN m.heap[h].tails) \union {t}
              /\ \A u \in DOMAIN m.heap[h].tails : n.heap[h].tails[u] = m.heap[h].tails[u]
              /\ n.heap[h].tails[t] = w
  <2>1. m1.heap[h] = m.heap[h] /\ t \notin DOMAIN m.heap[h].tails
    BY <1>11, <1>15
  <2> DEFINE x == m1.heap[h]
  <2> DEFINE y == n.heap[h]
  <2>2. x = m.heap[h]
    BY <2>1
  <2>3. /\ y.live = x.live /\ y.key = x.key /\ y.src = x.src
        /\ DOMAIN y.tails = (DOMAIN x.tails) \union {t}
        /\ \A u \in DOMAIN x.tails : y.tails[u] = x.tails[u]
        /\ t \notin DOMAIN x.tails => y.tails[t] = w
    BY <1>5, Zenon
  <2>4. y.tails[t] = w
    BY <2>1, <2>3, Zenon
  <2>5. \A v \in Address : v # w /\ v # h => n.heap[v] = m.heap[v]
    BY <1>3, <1>5
  <2> HIDE DEF x
  <2>6. /\ y.live = m.heap[h].live /\ y.key = m.heap[h].key /\ y.src = m.heap[h].src
        /\ DOMAIN y.tails = (DOMAIN m.heap[h].tails) \union {t}
        /\ \A u \in DOMAIN m.heap[h].tails : y.tails[u] = m.heap[h].tails[u]
    BY <2>2, <2>3
  <2> QED BY <2>4, <2>5, <2>6, Zenon
<1>16. ASSUME Sane(n) PROVE OneMoreTail(m, n, h, t, w)
  BY <1>15, <1>16 DEF OneMoreTail
<1>12. Fine(n)
  <2> SUFFICES ASSUME Sane(n) PROVE Forest(n)
    BY <1>5 DEF Fine
  <2>1. /\ Sane(m) /\ Forest(m) /\ Fresh(m, w) /\ w # NoVar /\ h \in Address
        /\ st # w /\ m.heap[st].live /\ h = Source(m, st) /\ m.heap[h].src = h
        /\ h # w /\ m.heap[h].live /\ m1.heap[h] = m.heap[h] /\ t \notin DOMAIN m.heap[h].tails
    BY <1>5, <1>11
  <2>2. Typed(m)
    BY DEF Fine
  <2>3. PICK p \in 1..d : GetVar(m, p, "S.") = h
    BY <2>1, <2>2, SourceBelow, Sorts
  <2>4. p \in 1..Len(m.scopes) /\ h # NoVar
    BY <2>1, EntryAddress DEF Sane
  <2>5. Created(n, w, Compound, s)
    BY <1>4, <1>5, <1>8, <2>1 DEF Created
  <2>6. \/ s = w
        \/ (\E j \in 1..(p - 1) : TailIn(m, j, s)) /\ m.heap[s].live /\ m.heap[s].src = s
    <3>1. CASE s = w
      BY <3>1
    <3>2. CASE s # w
      <4>1. /\ ~IsExposed(m, st) /\ m.heap[s].live /\ m.heap[s].src = s
            /\ \E j \in 1..(d - 1) : TailIn(m, j, s)
        BY <2>1, <3>2
      <4>2. h = st
        BY <2>1, <4>1 DEF IsExposed
      <4>3. p = d
        BY <2>1, <2>3, <2>4, <4>2, Sorts DEF Forest, EntriesApart
      <4> QED BY <4>1, <4>3
    <3> QED BY <3>1, <3>2
  <2>7. OneMoreTail(m, n, h, t, w)
    BY <1>16
  <2>8. n.scopes = m.scopes /\ n.left = m.left
    BY <1>3, <1>6, <1>17, <2>1
  <2>9. h = GetVar(m, p, "S.")
    BY <2>3
  <2> QED BY <2>1, <2>2, <2>4, <2>5, <2>6, <2>7, <2>8, <2>9, AddTailForest
<1>13. Adds(m, n)
  <2>1. ASSUME Sane(n), NEW v \in Address, m.heap[v].live
        PROVE  /\ n.heap[v].live /\ n.heap[v].key = m.heap[v].key /\ n.heap[v].src = m.heap[v].src
               /\ m.heap[v].src # v => n.heap[v] = m.heap[v]
    <3>1. v # w /\ m.heap[h].src = h
      BY <1>11, <2>1 DEF Fresh
    <3>2. m1.heap[v] = m.heap[v]
      BY <1>3, <3>1
    <3> QED BY <1>5, <1>7, <2>1, <3>1, <3>2
  <2>2. ASSUME Sane(n), Pointed(m) PROVE Pointed(n)
    <3>1. Sane(m) /\ Forest(m) /\ Fresh(m, w) /\ Unpointed(m, w) /\ Typed(m)
      BY <1>11, <2>2 DEF Fine
    <3>2. n.cache = m.cache /\ Len(n.scopes) \in Nat /\ Len(n.scopes) = Len(m.scopes)
          /\ \A i \in 1..Len(m.scopes) : n.scopes[i].id = m.scopes[i].id
      BY <1>2, <1>3, <1>6, HeapOnly, EntryAddress DEF Alike, n
    <3>3. ASSUME NEW i \in 1..Len(m.scopes), NEW l \in Simple, GetVar(m, i, l) # NoVar
          PROVE  GetVar(n, i, l) = GetVar(m, i, l) /\ Source(n, GetVar(m, i, l)) = Source(m, GetVar(m, i, l))
      <4>1. GetVar(m, i, l) \in Address /\ m.heap[GetVar(m, i, l)].live
        BY <3>1, <3>2, <3>3, EntryAddress DEF Forest, EntriesLive
      <4> QED BY <1>6, <2>1, <2>2, <4>1 DEF GetVar, Source
    <3>4. \A u \in Address : n.heap[u].live => m.heap[u].live \/ Unpointed(m, u)
      BY <1>3, <1>7, <3>1
    <3>5. ASSUME NEW g \in Address, NEW u \in DOMAIN m.heap[g].tails
          PROVE  u \in DOMAIN n.heap[g].tails /\ n.heap[g].tails[u] = m.heap[g].tails[u]
      <4>1. g # w
        BY <3>1, <3>5 DEF Forest, TailsOwn, Fresh
      <4>2. g # h => n.heap[g] = m.heap[g]
        BY <1>15, <2>2, <4>1
      <4> QED BY <1>15, <2>2, <4>2
    <3> QED BY <2>2, <3>1, <3>2, <3>3, <3>4, <3>5, GrownPointed
  <2> QED BY <1>6, <1>9, <1>10, <2>1, <2>2 DEF Adds, GetVar
<1>14. ASSUME Sane(n)
       PROVE  /\ Sane(m) /\ Fresh(m, w) /\ Source(n, st) = Source(m, st)
              /\ t \in DOMAIN n.heap[Source(m, st)].tails
              /\ n.heap[Source(m, st)].tails[t] = w
              /\ \A v \in Address : v # w /\ v # Source(m, st) => n.heap[v] = m.heap[v]
  <2>1. /\ Sane(m) /\ Fresh(m, w) /\ h = Source(m, st) /\ m1.heap[h] = m.heap[h]
        /\ t \notin DOMAIN m.heap[h].tails /\ m.heap[st].live
    BY <1>11, <1>14
  <2>2. n.heap[st].src = m.heap[st].src
    BY <1>13, <1>14, <2>1 DEF Adds
  <2>3. Source(n, st) = Source(m, st)
    BY <2>2 DEF Source
  <2>4. /\ t \in DOMAIN n.heap[h].tails /\ n.heap[h].tails[t] = w
        /\ \A v \in Address : v # w /\ v # h => n.heap[v] = m.heap[v]
    BY <1>14, <1>15
  <2> QED BY <2>1, <2>3, <2>4
<1> QED BY <1>6, <1>8, <1>9, <1>12, <1>13, <1>14 DEF n, m1

\* A variable made for a tail that the stem already has: it is in no map.
LEMMA TailLeft ==
  ASSUME NEW m, NEW top, Pool(m, top), Fine(m), NEW d \in 1..Len(m.scopes),
         NEW w \in Address, Sane(m) /\ w # NoVar => Fresh(m, w) /\ Unpointed(m, w),
         NEW st \in Address, NEW t \in Tails, NEW s \in Address,
         t \in DOMAIN m.heap[Source(m, st)].tails,
         Sane(m) => st # NoVar /\ st = GetVar(m, d, "S.") /\ m.heap[s].live
  PROVE  LET n == PutTail(New(m, w, Compound, s), st, t, w)
         IN  Fine(n) /\ Adds(m, n)
<1> DEFINE m1 == New(m, w, Compound, s)
<1> DEFINE n == PutTail(m1, st, t, w)
<1>1. Compound \in Symbols
  BY Sorts
<1>2. DOMAIN m = Fields /\ Alike(m, m1)
  BY PoolFields, HeapOnly
<1>3. /\ Typed(m1) /\ m1.bad = m.bad /\ DOMAIN m1 = Fields /\ m1.left = m.left
      /\ \A v \in Address : v # w => m1.heap[v] = m.heap[v]
      /\ m1.heap[w] = [live |-> TRUE, key |-> Compound, val |-> Null, src |-> s, tails |-> NoTails]
  BY <1>1, <1>2, NewTyped DEF Fine
<1>4. /\ m1.heap[w].live /\ m1.heap[w].key = Compound /\ m1.heap[w].src = s /\ DOMAIN m1.heap[w].tails = {}
  BY <1>3, DeadIsVariable
<1> DEFINE h == Source(m1, st)
<1> HIDE DEF m1
<1>0. TailPut(m1, n, h, t, w)
  BY <1>3, PutTailTyped
<1>5. /\ Typed(n) /\ n.bad = m1.bad /\ h \in Address
      /\ \A u \in Address : u # h => n.heap[u] = m1.heap[u]
      /\ n.heap[h].live = m1.heap[h].live
      /\ t \in DOMAIN m1.heap[h].tails => n.heap = m1.heap /\ n.left = m1.left \union {w}
  BY <1>0 DEF TailPut
<1>6. n.scopes = m.scopes /\ n.cache = m.cache
  BY <1>2, <1>3, HeapOnly DEF Alike
<1> HIDE DEF n, h
<1>7. \A u \in Address : n.heap[u].live = m1.heap[u].live
  BY <1>5
<1>8. n.bad = m.bad
  BY <1>3, <1>5
<1>9. m.heap[NoVar].live => n.heap[NoVar].live
  BY <1>3, <1>4, <1>7, Sorts
<1>10. ASSUME Sane(n)
       PROVE  /\ Sane(m) /\ Forest(m) /\ Fresh(m, w) /\ Unpointed(m, w) /\ s # w
              /\ n.heap = m1.heap /\ n.left = m.left \union {w}
  <2>1. w # NoVar
    BY <1>4, <1>7, <1>10 DEF Sane
  <2>2. Sane(m)
    BY <1>8, <1>9, <1>10 DEF Sane
  <2>3. Fresh(m, w) /\ Unpointed(m, w) /\ Forest(m)
    BY <2>1, <2>2 DEF Fine
  <2>4. m.heap[st].live /\ st # w
    BY <2>2, <2>3, Sorts DEF Forest, EntriesLive, Fresh
  <2>5. h = Source(m, st)
    BY <1>3, <2>4 DEF Source, h
  <2>6. h # w
    BY <1>5, <2>3, <2>5 DEF Forest, TailsOwn, Fresh
  <2>7. t \in DOMAIN m1.heap[h].tails
    BY <1>3, <1>5, <2>5, <2>6
  <2>8. s # w
    BY <2>2, <2>3 DEF Fresh
  <2> QED BY <1>3, <1>5, <2>2, <2>3, <2>7, <2>8
<1>11. Fine(n)
  <2> SUFFICES ASSUME Sane(n) PROVE Forest(n)
    BY <1>5 DEF Fine
  <2>1. Sane(m) /\ Forest(m) /\ Fresh(m, w) /\ s # w /\ n.heap = m1.heap /\ n.left = m.left \union {w}
    BY <1>10
  <2>2. Created(n, w, Compound, s) /\ Typed(m)
    BY <1>4, <2>1 DEF Created, Fine
  <2>3. \A v \in Address : v # w => n.heap[v] = m.heap[v]
    BY <1>3, <2>1
  <2> QED BY <1>6, <2>1, <2>2, <2>3, LeftForest
<1>12. Adds(m, n)
  <2>1. ASSUME Sane(n), NEW v \in Address, m.heap[v].live PROVE n.heap[v] = m.heap[v]
    BY <1>3, <1>10, <2>1 DEF Fresh
  <2>2. ASSUME Sane(n), Pointed(m) PROVE Pointed(n)
    <3>1. Sane(m) /\ Forest(m) /\ Fresh(m, w) /\ Unpointed(m, w) /\ Typed(m) /\ n.heap = m1.heap
      BY <1>10, <2>2 DEF Fine
    <3>2. /\ Len(n.scopes) = Len(m.scopes) /\ n.cache["rc"] = m.cache["rc"]
          /\ \A i \in 1..Len(m.scopes) : n.scopes[i].id = m.scopes[i].id
      BY <1>6
    <3>3. ASSUME NEW i \in 1..Len(m.scopes), NEW l \in Simple, GetVar(m, i, l) # NoVar
          PROVE  GetVar(n, i, l) = GetVar(m, i, l) /\ Source(n, GetVar(m, i, l)) = Source(m, GetVar(m, i, l))
      <4>1. GetVar(m, i, l) \in Address /\ m.heap[GetVar(m, i, l)].live
        BY <1>6, <3>1, <3>3, EntryAddress DEF Forest, EntriesLive
      <4> QED BY <1>6, <2>1, <2>2, <4>1 DEF GetVar, Source
    <3>4. \A u \in Address : n.heap[u].live => m.heap[u].live \/ Unpointed(m, u)
      BY <1>3, <3>1
    <3>5. ASSUME NEW g \in Address, NEW u \in DOMAIN m.heap[g].tails
          PROVE  u \in DOMAIN n.heap[g].tails /\ n.heap[g].tails[u] = m.heap[g].tails[u]
      <4>1. m.heap[g].live
        BY <3>1, <3>5 DEF Forest, TailsOwn
      <4> QED BY <2>1, <2>2, <4>1
    <3> QED BY <2>2, <3>1, <3>2, <3>3, <3>4, <3>5, GrownPointed
  <2> QED BY <1>6, <1>8, <1>9, <2>1, <2>2 DEF Adds, GetVar
<1> QED BY <1>11, <1>12 DEF n, m1

-----------------------------------------------------------------------------
(***************************************************************************)
(* Finding.                                                                *)
(***************************************************************************)
\* What a search finds, from the scope d of m: it changes no variable, and a variable
\* that it read dead raises bad.
TailFound(m, st, r) ==
  LET ts == m.heap[Source(m, st)].tails
  IN  /\ r.found => r.var # NoVar /\ r.tail \in DOMAIN ts /\ r.var = ts[r.tail]
      /\ ~r.found => r.var = st /\ (r.tail \in DOMAIN ts => ts[r.tail] = NoVar)
      /\ ~r.m.bad => (st # NoVar => Usable(m, st)) /\ (r.found => Usable(m, r.var))
Located(m, d, sym, r) ==
  /\ r.m.heap = m.heap /\ r.m.scopes = m.scopes /\ r.m.left = m.left
  /\ (m.bad => r.m.bad) /\ r.m.bad \in BOOLEAN
  /\ RcRight(m) => RcRight(r.m)
  /\ r.var \in Address /\ r.tail \in Tails /\ r.found \in BOOLEAN
  /\ sym \in Cached => r.var = GetVar(m, d, Key(sym)) /\ (r.found <=> r.var # NoVar)
  /\ sym = Compound => TailFound(m, GetVar(m, d, "S."), r)

LEMMA TailNames ==
  ASSUME NEW m, Typed(m), NEW p \in Address PROVE TailName(m, p) \in Tails
BY TypedHeap, Sorts DEF TailName, ValueOf

\* FindTail, in a memory that has the variables of m.
LEMMA FindTailRight ==
  ASSUME NEW m, Typed(m), NEW o, DOMAIN o = Fields, o.heap = m.heap, o.scopes = m.scopes,
         o.left = m.left, o.bad \in BOOLEAN, m.bad => o.bad, RcRight(m) => RcRight(o), NEW st \in Address, NEW t \in Tails
  PROVE  LET r == FindTail(o, st, t)
         IN  /\ r.m.heap = m.heap /\ r.m.scopes = m.scopes /\ r.m.left = m.left
             /\ (m.bad => r.m.bad) /\ r.m.bad \in BOOLEAN
             /\ RcRight(m) => RcRight(r.m)
             /\ r.var \in Address /\ r.tail = t /\ r.found \in BOOLEAN
             /\ TailFound(m, st, r)
<1> DEFINE r == FindTail(o, st, t)
<1> DEFINE ts == m.heap[Source(m, st)].tails
<1> DEFINE w == GetTail(o, st, t)
<1>1. w = IF t \in DOMAIN ts THEN ts[t] ELSE NoVar
  BY DEF GetTail, TailsOf, Source
<1>2. Typed(o) /\ Source(m, st) \in Address
  BY TypedHeap DEF Typed
<1>3. w \in Address
  BY <1>1, <1>2, TypedHeap, Sorts
<1>4. \A vs : /\ Use(o, vs).heap = m.heap /\ Use(o, vs).scopes = m.scopes /\ Use(o, vs).left = m.left
              /\ Use(o, vs).bad \in BOOLEAN
              /\ Use(o, vs).bad <=> o.bad \/ \E v \in vs \ {NoVar} : ~Usable(o, v)
  BY <1>2, UseTyped, HeapOnly DEF Typed, Alike
<1>5. \A v : Usable(o, v) = Usable(m, v)
  BY DEF Usable, Source
<1>8. \A vs : RcRight(m) => RcRight(Use(o, vs))
  BY SameRc, HeapOnly, <1>4 DEF Alike
<1> HIDE DEF w, ts
<1>6. CASE w = NoVar
  <2>1. r = Found(Use(o, {st}), st, FALSE, t)
    BY <1>6 DEF FindTail, w
  <2>2. r.m = Use(o, {st}) /\ r.var = st /\ r.found = FALSE /\ r.tail = t
    BY <2>1 DEF Found
  <2>3. r.m.heap = m.heap /\ r.m.scopes = m.scopes /\ r.m.left = m.left
        /\ r.m.bad \in BOOLEAN /\ (m.bad => r.m.bad)
    BY <1>4, <2>2
  <2>4. ~r.m.bad => (st # NoVar => Usable(m, st))
    BY <1>4, <1>5, <2>2
  <2>5. t \in DOMAIN ts => ts[t] = NoVar
    BY <1>1, <1>6
  <2>6. TailFound(m, st, r)
    BY <2>2, <2>4, <2>5 DEF TailFound, ts
  <2> QED BY <1>8, <2>2, <2>3, <2>6
<1>7. CASE w # NoVar
  <2>1. r = Found(Use(o, {st, w}), w, TRUE, t)
    BY <1>7 DEF FindTail, w
  <2>2. r.m = Use(o, {st, w}) /\ r.var = w /\ r.found = TRUE /\ r.tail = t
    BY <2>1 DEF Found
  <2>3. r.m.heap = m.heap /\ r.m.scopes = m.scopes /\ r.m.left = m.left
        /\ r.m.bad \in BOOLEAN /\ (m.bad => r.m.bad)
    BY <1>4, <2>2
  <2>4. ~r.m.bad => (st # NoVar => Usable(m, st)) /\ Usable(m, w)
    BY <1>4, <1>5, <1>7, <2>2
  <2>5. t \in DOMAIN ts /\ ts[t] = w
    BY <1>1, <1>7
  <2>6. TailFound(m, st, r)
    BY <1>7, <2>2, <2>4, <2>5 DEF TailFound, ts
  <2> QED BY <1>3, <1>8, <2>2, <2>3, <2>6
<1> QED BY <1>6, <1>7

LEMMA GetSimpleLocated ==
  ASSUME NEW m, NEW top, Pool(m, top), Typed(m), NEW d \in 1..Len(m.scopes), NEW sym \in Cached
  PROVE  Located(m, d, sym, GetSimple(m, d, sym))
<1> DEFINE v == GetVar(m, d, Key(sym))
<1> DEFINE n == CacheIfAny(m, d, sym, v)
<1>1. n.heap = m.heap /\ n.bad = m.bad /\ n.left = m.left
  BY PoolFields, CacheHeap
<1>2. n.scopes = m.scopes
  BY CacheIfAnyKeeps DEF SameScopes
<1>8. RcRight(m) => RcRight(n)
  BY CachedRc
<1>3. v \in Address /\ Null \in Tails /\ sym # Compound
  BY EntryAddress, Names, Sorts
<1> HIDE DEF v, n
<1>4. GetSimple(m, d, sym) = Found(n, v, v # NoVar, Null)
  BY DEF GetSimple, v, n
<1>6. /\ GetSimple(m, d, sym).m = n /\ GetSimple(m, d, sym).var = v
      /\ GetSimple(m, d, sym).tail = Null /\ GetSimple(m, d, sym).found \in BOOLEAN
      /\ GetSimple(m, d, sym).found <=> v # NoVar
  <2>1. CASE v # NoVar
    <3>1. (v # NoVar) = TRUE
      BY <2>1
    <3>2. GetSimple(m, d, sym) = Found(n, v, TRUE, Null)
      BY <1>4, <3>1, Zenon
    <3> QED BY <2>1, <3>2 DEF Found
  <2>2. CASE v = NoVar
    <3>1. (v # NoVar) = FALSE
      BY <2>2
    <3>2. GetSimple(m, d, sym) = Found(n, v, FALSE, Null)
      BY <1>4, <3>1, Zenon
    <3> QED BY <2>2, <3>2 DEF Found
  <2> QED BY <2>1, <2>2
<1>7. m.bad \in BOOLEAN
  BY DEF Typed
<1> QED BY <1>1, <1>2, <1>3, <1>6, <1>7, <1>8 DEF Located, v

LEMMA GetCompoundLocated ==
  ASSUME NEW m, NEW top, Pool(m, top), Typed(m), NEW d \in 1..Len(m.scopes)
  PROVE  Located(m, d, Compound, GetCompound(m, d))
<1> DEFINE stem == Lookup(m, d, "S.")
<1> DEFINE part == Lookup(m, d, "RC")
<1> DEFINE m1 == CacheStem(m, d)
<1> DEFINE m2 == CacheIfAny(m1, d, "RC", part)
<1> DEFINE m3 == Use(m2, {part})
<1>1. stem = GetVar(m, d, "S.") /\ part = GetVar(m, d, "RC")
  BY LookupRight, Names
<1>2. Pool(m1, top) /\ SameScopes(m, m1) /\ m1.heap = m.heap /\ m1.bad = m.bad /\ m1.left = m.left
  <2>1. Pool(m1, top) /\ SameScopes(m, m1)
    BY <1>1, CacheKeeps, Names DEF CacheStem
  <2> QED BY <2>1, PoolFields, CacheHeap DEF CacheStem
<1>3. d \in 1..Len(m1.scopes) /\ part = GetVar(m1, d, Key("RC"))
  BY <1>1, <1>2, SameScopesVar, Names
<1>4. Pool(m2, top) /\ SameScopes(m1, m2) /\ m2.heap = m.heap /\ m2.bad = m.bad /\ m2.left = m.left
  <2>1. Pool(m2, top) /\ SameScopes(m1, m2)
    BY <1>2, <1>3, CacheIfAnyKeeps, Names
  <2> QED BY <1>2, <2>1, PoolFields, CacheHeap
<1>5. DOMAIN m3 = Fields /\ m3.heap = m.heap /\ m3.scopes = m.scopes /\ m3.left = m.left
      /\ m3.bad \in BOOLEAN /\ (m.bad => m3.bad)
  <2>1. DOMAIN m2 = Fields /\ Typed(m2)
    BY <1>4, PoolFields DEF Typed
  <2>2. /\ Typed(m3) /\ m3.heap = m2.heap /\ m3.left = m2.left /\ DOMAIN m3 = Fields /\ (m2.bad => m3.bad)
    BY <2>1, UseTyped
  <2>3. m3.scopes = m2.scopes
    BY <2>1, HeapOnly DEF Alike
  <2> QED BY <1>2, <1>4, <2>2, <2>3 DEF Typed, SameScopes
<1>9. RcRight(m) => RcRight(m3)
  <2>1. RcRight(m) => RcRight(m1)
    BY <1>1, CachedRc, Names DEF CacheStem
  <2>2. RcRight(m1) => RcRight(m2)
    BY <1>2, <1>3, CachedRc, Names
  <2>3. DOMAIN m2 = Fields /\ Typed(m2)
    BY <1>4, PoolFields DEF Typed
  <2>4. RcRight(m2) => RcRight(m3)
    BY <2>3, HeapOnly, UseTyped, SameRc DEF Alike
  <2> QED BY <2>1, <2>2, <2>4
<1>6. GetCompound(m, d) = FindTail(m3, stem, TailName(m, part))
  BY DEF GetCompound
<1>7. stem \in Address /\ TailName(m, part) \in Tails
  BY <1>1, EntryAddress, TailNames, Sorts
<1> HIDE DEF m3, stem, part
<1>8. LET r == FindTail(m3, stem, TailName(m, part))
      IN  /\ r.m.heap = m.heap /\ r.m.scopes = m.scopes /\ r.m.left = m.left
          /\ (m.bad => r.m.bad) /\ r.m.bad \in BOOLEAN
          /\ RcRight(m) => RcRight(r.m)
          /\ r.var \in Address /\ r.tail = TailName(m, part) /\ r.found \in BOOLEAN
          /\ TailFound(m, stem, r)
  BY <1>5, <1>7, <1>9, FindTailRight
<1> QED BY <1>1, <1>6, <1>7, <1>8, Names DEF Located

LEMMA GetLocated ==
  ASSUME NEW m, NEW top, Pool(m, top), Typed(m), NEW d \in 1..Len(m.scopes),
         NEW sym \in Cached \union {Compound}
  PROVE  Located(m, d, sym, Get(m, d, sym))
BY GetSimpleLocated, GetCompoundLocated, Names DEF Get

LEMMA FindLocated ==
  ASSUME NEW m, NEW top, Pool(m, top), Typed(m), NEW d \in 1..Len(m.scopes), NEW k \in Symbols
  PROVE  Located(m, d, k, Find(m, d, k))
<1>0. m.bad \in BOOLEAN /\ DOMAIN m = Fields
  BY PoolFields DEF Typed
<1>1. CASE k = Compound
  <2> DEFINE st == GetVar(m, d, "S.")
  <2> DEFINE t == TailName(m, GetVar(m, d, "RC"))
  <2>1. st \in Address /\ t \in Tails
    BY EntryAddress, TailNames, Sorts
  <2>2. Find(m, d, k) = FindTail(m, st, t)
    BY <1>1 DEF Find
  <2> HIDE DEF st, t
  <2>3. LET r == FindTail(m, st, t)
        IN  /\ r.m.heap = m.heap /\ r.m.scopes = m.scopes /\ r.m.left = m.left
            /\ (m.bad => r.m.bad) /\ r.m.bad \in BOOLEAN
            /\ RcRight(m) => RcRight(r.m)
            /\ r.var \in Address /\ r.tail = t /\ r.found \in BOOLEAN
            /\ TailFound(m, st, r)
    BY <1>0, <2>1, FindTailRight
  <2> QED BY <1>1, <2>1, <2>2, <2>3, Names DEF Located, st
<1>2. CASE k # Compound
  <2> DEFINE v == GetVar(m, d, k)
  <2>1. k \in Simple /\ Key(k) = k /\ v \in Address /\ Null \in Tails
    BY <1>2, EntryAddress, Names, Sorts DEF Symbols
  <2>2. Find(m, d, k) = Found(m, v, v # NoVar, Null)
    BY <1>2 DEF Find
  <2> HIDE DEF v
  <2>4. /\ Find(m, d, k).m = m /\ Find(m, d, k).var = v /\ Find(m, d, k).tail = Null
        /\ Find(m, d, k).found \in BOOLEAN /\ (Find(m, d, k).found <=> v # NoVar)
    <3>1. CASE v # NoVar
      <4>1. (v # NoVar) = TRUE
        BY <3>1
      <4>2. Find(m, d, k) = Found(m, v, TRUE, Null)
        BY <2>2, <4>1, Zenon
      <4> QED BY <3>1, <4>2 DEF Found
    <3>2. CASE v = NoVar
      <4>1. (v # NoVar) = FALSE
        BY <3>2
      <4>2. Find(m, d, k) = Found(m, v, FALSE, Null)
        BY <2>2, <4>1, Zenon
      <4> QED BY <3>2, <4>2 DEF Found
    <3> QED BY <3>1, <3>2
  <2> QED BY <1>0, <1>2, <2>1, <2>4 DEF Located, v
<1> QED BY <1>1, <1>2

\* A program's symbol that has something in its cache has what the search would find.
LEMMA CachedLocated ==
  ASSUME NEW m, NEW top, Pool(m, top), Typed(m), NEW d \in 1..Len(m.scopes), NEW sym \in Symbols,
         NEW r, Located(m, d, sym, r)
  PROVE  Located(m, d, sym, CachedOr(m, d, sym, r))
<1> DEFINE v == IF sym = Compound THEN NoVar ELSE GetCached(m, d, sym)
<1>1. CASE v = NoVar
  BY <1>1 DEF CachedOr
<1>2. CASE v # NoVar
  <2>1. sym \in Simple /\ sym # Compound /\ v = GetCached(m, d, sym) /\ Key(sym) = sym
    BY <1>2, Names DEF Symbols
  <2>2. v = GetVar(m, d, sym)
    BY <1>2, <2>1, LookupRight DEF Lookup
  <2>3. v \in Address /\ Null \in Tails
    BY <2>1, <2>2, EntryAddress, Sorts
  <2>4. CachedOr(m, d, sym, r) = Found(Use(m, {v}), v, TRUE, Null)
    BY <1>2 DEF CachedOr
  <2>5. /\ CachedOr(m, d, sym, r).m = Use(m, {v}) /\ CachedOr(m, d, sym, r).var = v
        /\ CachedOr(m, d, sym, r).found = TRUE /\ CachedOr(m, d, sym, r).tail = Null
    BY <2>4 DEF Found
  <2>6. /\ Use(m, {v}).heap = m.heap /\ Use(m, {v}).scopes = m.scopes /\ Use(m, {v}).left = m.left
        /\ Use(m, {v}).bad \in BOOLEAN /\ (m.bad => Use(m, {v}).bad)
        /\ Use(m, {v}).cache = m.cache
    BY PoolFields, UseTyped, HeapOnly DEF Alike, Typed
  <2>7. RcRight(m) => RcRight(Use(m, {v}))
    BY <2>6, SameRc
  <2> HIDE DEF v
  <2> QED BY <1>2, <2>1, <2>2, <2>3, <2>5, <2>6, <2>7 DEF Located
<1> QED BY <1>1, <1>2

ResultFields == {"m", "var", "found", "tail"}

LEMMA ResultsHaveFields ==
  ASSUME NEW m, NEW d, NEW sym
  PROVE  /\ DOMAIN Get(m, d, sym) = ResultFields /\ DOMAIN Find(m, d, sym) = ResultFields
         /\ DOMAIN Access(m, d, sym) = ResultFields
<1>1. \A o, v, f, t : DOMAIN Found(o, v, f, t) = ResultFields
  BY DEF Found, ResultFields
<1>2. \A o, v, t : DOMAIN FindTail(o, v, t) = ResultFields
  BY <1>1 DEF FindTail
<1>3. DOMAIN GetSimple(m, d, sym) = ResultFields
  BY <1>1 DEF GetSimple
<1>4. DOMAIN GetCompound(m, d) = ResultFields
  BY <1>2 DEF GetCompound
<1>5. DOMAIN Get(m, d, sym) = ResultFields
  BY <1>3, <1>4 DEF Get
<1>6. DOMAIN Find(m, d, sym) = ResultFields
  <2>1. CASE sym = Compound
    BY <1>2, <2>1 DEF Find
  <2>2. CASE sym # Compound
    <3>1. Find(m, d, sym) = Found(m, GetVar(m, d, sym), GetVar(m, d, sym) # NoVar, Null)
      BY <2>2 DEF Find
    <3> QED BY <1>1, <3>1, Zenon
  <2> QED BY <2>1, <2>2
<1>7. DOMAIN Access(m, d, sym) = ResultFields
  <2> DEFINE r == Get(m, d, sym)
  <2> DEFINE c == CreateSimple(r.m, d, Key(sym))
  <2>1. DOMAIN c = ResultFields
    BY <1>1 DEF CreateSimple
  <2>2. DOMAIN CreateCompound(r, d) = ResultFields
    BY <1>1 DEF CreateCompound, CreateTail
  <2> HIDE DEF c
  <2>3. DOMAIN [c EXCEPT !.m = CacheVar(c.m, d, sym, c.var)] = ResultFields
    BY <2>1
  <2>4. \/ Access(m, d, sym) = r \/ Access(m, d, sym) = CreateCompound(r, d)
        \/ Access(m, d, sym) = [c EXCEPT !.m = CacheVar(c.m, d, sym, c.var)]
    BY DEF Access, c
  <2> QED BY <1>5, <2>2, <2>3, <2>4
<1> QED BY <1>5, <1>6, <1>7

-----------------------------------------------------------------------------
(***************************************************************************)
(* Creating.                                                               *)
(***************************************************************************)
\* The variables that scope d of m may change: its stem's tails, and new ones.
Touches(m, n, d) ==
  Sane(n) => \A v \in Address :
    \/ n.heap[v] = m.heap[v]
    \/ Fresh(m, v)
    \/ GetVar(m, d, "S.") # NoVar /\ v = Source(m, GetVar(m, d, "S."))

\* What access() and setValue() get for a symbol, found or created.
Made(m, d, sym, r) ==
  /\ Fine(r.m) /\ Adds(m, r.m) /\ Touches(m, r.m, d)
  /\ r.var \in Address /\ r.tail \in Tails /\ r.found \in BOOLEAN
  /\ r.found => r.m.heap = m.heap /\ r.m.scopes = m.scopes
  /\ ~r.found => /\ r.m.heap[r.var].src = r.var /\ r.m.heap[r.var].live
                 /\ sym = Compound => r.m.heap[r.var].key = Compound
                 /\ sym # Compound => r.m.heap[r.var].key = Key(sym)
                 /\ Sane(r.m) => Fresh(m, r.var)
  /\ Sane(r.m) => /\ r.var # NoVar /\ r.m.heap[r.var].live
                  /\ sym # Compound => r.var = GetVar(r.m, d, Key(sym))
                  /\ sym = Compound =>
                       LET st == GetVar(r.m, d, "S.")
                           ts == r.m.heap[Source(r.m, st)].tails
                       IN  st # NoVar /\ r.tail \in DOMAIN ts /\ r.var = ts[r.tail]

\* A search changes no variable.
LEMMA LocatedFine ==
  ASSUME NEW m, NEW top, Pool(m, top), Fine(m), NEW d, NEW sym, NEW r, Located(m, d, sym, r)
  PROVE  Fine(r.m) /\ Adds(m, r.m) /\ Touches(m, r.m, d)
<1>1. r.m.heap = m.heap /\ r.m.scopes = m.scopes /\ r.m.left = m.left
      /\ (m.bad => r.m.bad) /\ r.m.bad \in BOOLEAN /\ (RcRight(m) => RcRight(r.m))
  BY DEF Located
<1> QED BY <1>1, SameHeapFine DEF Touches

LEMMA FoundMade ==
  ASSUME NEW m, NEW top, Pool(m, top), Fine(m), NEW d \in 1..Len(m.scopes),
         NEW sym \in Cached \union {Compound},
         NEW r, Located(m, d, sym, r), r.found
  PROVE  Made(m, d, sym, r)
<1>1. /\ r.m.heap = m.heap /\ r.m.scopes = m.scopes /\ r.var \in Address /\ r.tail \in Tails
      /\ r.found \in BOOLEAN
  BY DEF Located
<1>2. \A k : GetVar(r.m, d, k) = GetVar(m, d, k)
  BY <1>1 DEF GetVar
<1>3. Fine(r.m) /\ Adds(m, r.m) /\ Touches(m, r.m, d)
  BY LocatedFine
<1>4. ASSUME Sane(r.m), sym # Compound
      PROVE  r.var # NoVar /\ r.m.heap[r.var].live /\ r.var = GetVar(r.m, d, Key(sym))
  <2>1. r.var # NoVar /\ r.var = GetVar(m, d, Key(sym)) /\ Key(sym) \in Simple
    BY <1>4, Names DEF Located
  <2>2. Forest(m)
    BY <1>3, <1>4, AddsSane DEF Fine
  <2> QED BY <1>1, <1>2, <2>1, <2>2 DEF Forest, EntriesLive
<1>5. ASSUME Sane(r.m), sym = Compound
      PROVE  /\ r.var # NoVar /\ r.m.heap[r.var].live
             /\ GetVar(r.m, d, "S.") # NoVar
             /\ r.tail \in DOMAIN r.m.heap[Source(r.m, GetVar(r.m, d, "S."))].tails
             /\ r.var = r.m.heap[Source(r.m, GetVar(r.m, d, "S."))].tails[r.tail]
  <2> DEFINE st == GetVar(m, d, "S.")
  <2>1. Forest(m) /\ Sane(m) /\ Typed(m) /\ st \in Address
    BY <1>3, <1>5, AddsSane, EntryAddress, Sorts DEF Fine
  <2>2. TailFound(m, st, r)
    BY <1>5 DEF Located
  <2>3. /\ r.var # NoVar /\ r.tail \in DOMAIN m.heap[Source(m, st)].tails
        /\ r.var = m.heap[Source(m, st)].tails[r.tail]
        /\ Usable(m, r.var)
    BY <1>5, <2>2 DEF TailFound, Sane
  <2>4. st # NoVar
    <3> SUFFICES ASSUME st = NoVar PROVE FALSE
      OBVIOUS
    <3>1. Source(m, NoVar) = NoVar
      BY <2>1, Sorts DEF Forest, SourcesAlive, LeftApart, Sane
    <3>2. m.heap[NoVar].live
      BY <2>1, <2>3, <3>1, Sorts DEF Forest, TailsOwn
    <3> QED BY <2>1, <3>2 DEF Sane
  <2> QED BY <1>1, <1>2, <2>3, <2>4 DEF Usable, Source
<1> QED BY <1>1, <1>3, <1>4, <1>5 DEF Made

\* What is found is not left out.
LEMMA LocatedApart ==
  ASSUME NEW m, NEW top, Pool(m, top), Fine(m), NEW d \in 1..Len(m.scopes),
         NEW sym \in Cached \union {Compound}, NEW r, Located(m, d, sym, r), Sane(r.m)
  PROVE  r.var \notin r.m.left
<1>1. r.m.heap = m.heap /\ r.m.left = m.left /\ Sane(m) /\ Forest(m) /\ Typed(m)
  BY DEF Located, Sane, Fine
<1>2. CASE sym # Compound
  <2>1. r.var = GetVar(m, d, Key(sym)) /\ Key(sym) \in Simple
    BY <1>2, Names DEF Located
  <2> QED BY <1>1, <2>1, NotLeft DEF InScopes
<1>3. CASE sym = Compound
  <2> DEFINE st == GetVar(m, d, "S.")
  <2>1. TailFound(m, st, r)
    BY <1>3 DEF Located
  <2>2. st \in Address
    BY EntryAddress, Sorts
  <2>3. Source(m, st) \in Address
    BY <1>1, <2>2, TypedHeap
  <2>4. CASE r.found
    <3>1. r.tail \in DOMAIN m.heap[Source(m, st)].tails /\ r.var = m.heap[Source(m, st)].tails[r.tail]
      BY <2>1, <2>4 DEF TailFound
    <3> QED BY <1>1, <2>3, <3>1, NotLeft DEF InTails
  <2>5. CASE ~r.found
    <3>1. r.var = st
      BY <2>1, <2>5 DEF TailFound
    <3> QED BY <1>1, <3>1, NotLeft, Sorts DEF InScopes
  <2> QED BY <2>4, <2>5
<1> QED BY <1>2, <1>3

\* Nor is what access() and setValue() get.
LEMMA MadeApart ==
  ASSUME NEW m, NEW top, NEW d \in 1..Len(m.scopes), NEW sym \in Cached \union {Compound},
         NEW r, Made(m, d, sym, r), Pool(r.m, top), Sane(r.m)
  PROVE  r.var \notin r.m.left
<1>1. Forest(r.m) /\ Typed(r.m) /\ d \in 1..Len(r.m.scopes)
  BY DEF Made, Fine, Adds
<1>2. CASE sym # Compound
  <2>1. r.var = GetVar(r.m, d, Key(sym)) /\ Key(sym) \in Simple
    BY <1>2, Names DEF Made
  <2> QED BY <1>1, <2>1, NotLeft DEF InScopes
<1>3. CASE sym = Compound
  <2> DEFINE st == GetVar(r.m, d, "S.")
  <2>1. r.tail \in DOMAIN r.m.heap[Source(r.m, st)].tails /\ r.var = r.m.heap[Source(r.m, st)].tails[r.tail]
    BY <1>3 DEF Made
  <2>2. st \in Address
    BY <1>1, EntryAddress, Sorts
  <2>3. Source(r.m, st) \in Address
    BY <1>1, <2>2, TypedHeap
  <2> QED BY <1>1, <2>1, <2>3, NotLeft DEF InTails
<1> QED BY <1>2, <1>3

\* Of what is true of a memory that a search has gone through, what is true of the first.
LEMMA TouchesAfter ==
  ASSUME NEW m, NEW o, NEW n, NEW d, o.heap = m.heap, o.scopes = m.scopes, Touches(o, n, d)
  PROVE  Touches(m, n, d)
<1>1. \A v : Fresh(o, v) <=> Fresh(m, v)
  BY DEF Fresh
<1>2. \A k : GetVar(o, d, k) = GetVar(m, d, k)
  BY DEF GetVar
<1>3. \A v : Source(o, v) = Source(m, v)
  BY DEF Source
<1> QED BY <1>1, <1>2, <1>3 DEF Touches

LEMMA CreateSimpleMade ==
  ASSUME NEW m, NEW top, Pool(m, top), Fine(m), NEW d \in 1..Len(m.scopes), NEW k \in Simple,
         GetVar(m, d, k) = NoVar
  PROVE  Made(m, d, k, CreateSimple(m, d, k)) /\ CreateSimple(m, d, k).found = FALSE
<1> DEFINE w == NewAddr(m)
<1> DEFINE n == PutVar(New(m, w, k, w), d, k, w)
<1>1. w \in Address
  BY NewAddrIsAddress
<1> HIDE DEF w
<1>2. /\ Fine(n) /\ Adds(m, n) /\ n.bad = m.bad
      /\ n.heap[w].live /\ n.heap[w].key = k /\ n.heap[w].src = w /\ DOMAIN n.heap[w].tails = {}
      /\ \A v \in Address : v # w => n.heap[v] = m.heap[v]
      /\ \A i \in 1..Len(m.scopes), l \in Simple :
           GetVar(n, i, l) = IF i = d /\ l = k THEN w ELSE GetVar(m, i, l)
      /\ Sane(n) => Sane(m) /\ Fresh(m, w)
  BY <1>1, EntryAdded DEF w
<1> DEFINE r == CreateSimple(m, d, k)
<1>3. r = Found(n, w, FALSE, Null)
  BY DEF CreateSimple, w
<1>4. r.m = n /\ r.var = w /\ r.found = FALSE /\ r.tail = Null
  BY <1>3 DEF Found
<1> HIDE DEF n, r
<1>5. Key(k) = k /\ k # Compound
  BY Names
<1>6. Sane(n) => w # NoVar /\ GetVar(n, d, k) = w
  BY <1>2 DEF Sane
<1>7. Touches(m, n, d)
  BY <1>2 DEF Touches
<1>8. Made(m, d, k, r)
  BY <1>1, <1>2, <1>4, <1>5, <1>6, <1>7, Sorts DEF Made
<1> QED BY <1>4, <1>8 DEF r

LEMMA CreateStemFine ==
  ASSUME NEW r, NEW top, Pool(r.m, top), Fine(r.m), NEW d \in 1..Len(r.m.scopes),
         DOMAIN r = ResultFields, r.var = GetVar(r.m, d, "S.")
  PROVE  LET s == CreateStem(r, d)
         IN  /\ Fine(s.m) /\ Adds(r.m, s.m) /\ Pool(s.m, top) /\ DOMAIN s = ResultFields
             /\ s.tail = r.tail /\ s.var = GetVar(s.m, d, "S.") /\ s.var \in Address
             /\ r.var # NoVar => s = r
             /\ r.var = NoVar /\ Sane(s.m) =>
                  /\ Fresh(r.m, s.var) /\ Source(s.m, s.var) = s.var
                  /\ DOMAIN s.m.heap[s.var].tails = {}
                  /\ \A v \in Address : v # s.var => s.m.heap[v] = r.m.heap[v]
             /\ Sane(s.m) => s.var # NoVar
             /\ \A i \in 1..Len(r.m.scopes), l \in Simple :
                  i # d \/ l # "S." => GetVar(s.m, i, l) = GetVar(r.m, i, l)
<1> DEFINE s == CreateStem(r, d)
<1>1. /\ Reached(r.m, top, d, s.m)
  BY CreateStemKeeps DEF ResultFields
<1>2. Pool(s.m, top)
  BY <1>1 DEF Reached
<1>3. CASE r.var # NoVar
  <2>1. s = r
    BY <1>3 DEF CreateStem
  <2>2. Adds(r.m, r.m)
    BY DEF Adds
  <2>3. r.var \in Address
    BY EntryAddress, Sorts
  <2> QED BY <1>3, <2>1, <2>2, <2>3
<1>4. CASE r.var = NoVar
  <2> DEFINE w == NewAddr(r.m)
  <2> DEFINE n == PutVar(New(r.m, w, "S.", w), d, "S.", w)
  <2>1. w \in Address
    BY NewAddrIsAddress
  <2> HIDE DEF w
  <2>2. /\ Fine(n) /\ Adds(r.m, n) /\ n.bad = r.m.bad
        /\ n.heap[w].live /\ n.heap[w].key = "S." /\ n.heap[w].src = w /\ DOMAIN n.heap[w].tails = {}
        /\ \A v \in Address : v # w => n.heap[v] = r.m.heap[v]
        /\ \A i \in 1..Len(r.m.scopes), l \in Simple :
             GetVar(n, i, l) = IF i = d /\ l = "S." THEN w ELSE GetVar(r.m, i, l)
        /\ Sane(n) => Sane(r.m) /\ Fresh(r.m, w)
    BY <1>4, <2>1, EntryAdded, Sorts DEF w
  <2>3. s = [r EXCEPT !.m = n, !.var = w]
    BY <1>4 DEF CreateStem, w
  <2> HIDE DEF n, s
  <2>4. s.m = n /\ s.var = w /\ s.tail = r.tail /\ DOMAIN s = ResultFields
    BY <2>3 DEF ResultFields
  <2>5. Sane(n) => w # NoVar
    BY <2>2 DEF Sane
  <2>6. GetVar(n, d, "S.") = w
    BY <2>2, Sorts
  <2> QED BY <1>2, <1>4, <2>1, <2>2, <2>4, <2>5, <2>6 DEF s, Source
<1> QED BY <1>3, <1>4

\* What is missing when the search has failed is created: the stem, if there was none,
\* and the tail.
LEMMA CreateCompoundMade ==
  ASSUME NEW m, NEW top, Pool(m, top), Fine(m), NEW d \in 1..Len(m.scopes),
         NEW r, Located(m, d, Compound, r), DOMAIN r = ResultFields, ~r.found, Pool(r.m, top)
  PROVE  Made(m, d, Compound, CreateCompound(r, d)) /\ CreateCompound(r, d).found = FALSE
<1> DEFINE s == CreateStem(r, d)
<1> DEFINE o == Use(s.m, {s.var})
<1> DEFINE w == NewAddr(s.m)
<1> DEFINE n == PutTail(New(o, w, Compound, w), s.var, s.tail, w)
<1> DEFINE c == CreateCompound(r, d)
<1>1. /\ r.m.heap = m.heap /\ r.m.scopes = m.scopes /\ r.var \in Address /\ r.tail \in Tails
      /\ r.var = GetVar(m, d, "S.")
      /\ r.tail \in DOMAIN m.heap[Source(m, r.var)].tails => m.heap[Source(m, r.var)].tails[r.tail] = NoVar
  BY Names DEF Located, TailFound
<1>2. GetVar(r.m, d, "S.") = r.var /\ d \in 1..Len(r.m.scopes)
  BY <1>1 DEF GetVar
<1>3. Fine(r.m) /\ Adds(m, r.m)
  BY LocatedFine
<1>4. /\ Fine(s.m) /\ Adds(r.m, s.m) /\ Pool(s.m, top) /\ DOMAIN s = ResultFields
      /\ s.tail = r.tail /\ s.var = GetVar(s.m, d, "S.") /\ s.var \in Address
      /\ r.var # NoVar => s = r
      /\ r.var = NoVar /\ Sane(s.m) =>
           /\ Fresh(r.m, s.var) /\ Source(s.m, s.var) = s.var
           /\ DOMAIN s.m.heap[s.var].tails = {}
           /\ \A v \in Address : v # s.var => s.m.heap[v] = r.m.heap[v]
      /\ Sane(s.m) => s.var # NoVar
  BY <1>2, <1>3, CreateStemFine
<1>5. c = Found(n, w, FALSE, s.tail)
  BY DEF CreateCompound, CreateTail
<1> HIDE DEF s
<1>6. DOMAIN s.m = Fields /\ Typed(s.m)
  BY <1>4, PoolFields DEF Fine
<1>7. /\ o.heap = s.m.heap /\ DOMAIN o = Fields /\ Typed(o) /\ o.scopes = s.m.scopes /\ o.left = s.m.left
      /\ o.cache = s.m.cache /\ o.bad \in BOOLEAN
      /\ s.m.bad => o.bad
  BY <1>6, UseTyped, HeapOnly DEF Alike, Typed
<1> HIDE DEF o, w
<1>8. Fine(o) /\ Adds(s.m, o)
  <2>1. RcRight(s.m) => RcRight(o)
    BY <1>7, SameRc
  <2> QED BY <1>4, <1>7, <2>1, SameHeapFine
<1>9. Pool(o, top)
  BY <1>4, <1>6, <1>7, AlikePool DEF Alike
<1>10. w \in Address
  BY NewAddrIsAddress DEF w
<1>11. Sane(o) => Sane(s.m)
  BY <1>8, AddsSane
<1>12. Fresh(s.m, w) => Fresh(o, w)
  BY <1>7 DEF Fresh
<1>13. Sane(o) /\ w # NoVar => Fresh(o, w) /\ Unpointed(o, w)
  <2>1. PointedByCaches(o) = PointedByCaches(s.m)
    BY <1>7 DEF PointedByCaches
  <2> QED BY <1>4, <1>11, <1>12, <2>1, NewAddrFresh DEF Fine, Unpointed, w
<1>14. Sane(s.m) => s.tail \notin DOMAIN s.m.heap[Source(s.m, s.var)].tails
  <2>1. CASE r.var = NoVar
    BY <1>4, <2>1
  <2>2. ASSUME r.var # NoVar, Sane(s.m), s.tail \in DOMAIN s.m.heap[Source(s.m, s.var)].tails
        PROVE  FALSE
    <3>1. s = r
      BY <1>4, <2>2
    <3> DEFINE g == Source(m, r.var)
    <3>2. Source(s.m, s.var) = g /\ s.m.heap = m.heap
      BY <1>1, <3>1 DEF Source
    <3>3. g \in Address
      BY <1>1, TypedHeap DEF Fine
    <3>4. TailsOwn(s.m)
      BY <1>4, <2>2 DEF Fine, Forest
    <3>5. r.tail \in DOMAIN m.heap[g].tails
      BY <2>2, <3>1, <3>2
    <3>6. m.heap[g].tails[r.tail] \in Vars
      BY <3>2, <3>3, <3>4, <3>5 DEF TailsOwn
    <3> QED BY <1>1, <3>5, <3>6, Sorts
  <2> QED BY <2>1, <2>2
<1>15. GetVar(o, d, "S.") = s.var /\ Source(o, s.var) = Source(s.m, s.var) /\ Len(o.scopes) = Len(m.scopes)
  BY <1>1, <1>4, <1>7 DEF GetVar, Source, Adds
<1>16. Sane(o) => /\ s.var # NoVar /\ s.var = GetVar(o, d, "S.")
                  /\ s.tail \notin DOMAIN o.heap[Source(o, s.var)].tails
  BY <1>4, <1>7, <1>11, <1>14, <1>15
<1>17. d \in 1..Len(o.scopes) /\ s.tail \in Tails
  BY <1>1, <1>4, <1>15
<1>18. /\ Fine(n) /\ Adds(o, n) /\ n.bad = o.bad /\ n.scopes = o.scopes
       /\ n.heap[w].live /\ n.heap[w].key = Compound /\ n.heap[w].src = w
       /\ Sane(n) => /\ Sane(o) /\ Fresh(o, w) /\ Source(n, s.var) = Source(o, s.var)
                     /\ s.tail \in DOMAIN n.heap[Source(o, s.var)].tails
                     /\ n.heap[Source(o, s.var)].tails[s.tail] = w
                     /\ \A v \in Address : v # w /\ v # Source(o, s.var) => n.heap[v] = o.heap[v]
  BY <1>4, <1>8, <1>9, <1>10, <1>13, <1>16, <1>17, TailAdded
<1>19. c.m = n /\ c.var = w /\ c.found = FALSE /\ c.tail = s.tail
  BY <1>5 DEF Found
<1> HIDE DEF n, c
<1>20. Adds(m, n)
  BY <1>3, <1>4, <1>8, <1>18, AddsTwice
<1>21. ASSUME Sane(n)
       PROVE  /\ w # NoVar /\ GetVar(n, d, "S.") = s.var /\ s.var # NoVar
              /\ s.tail \in DOMAIN n.heap[Source(n, s.var)].tails
              /\ n.heap[Source(n, s.var)].tails[s.tail] = w
  <2>1. GetVar(n, d, "S.") = s.var
    BY <1>15, <1>18 DEF GetVar
  <2> QED BY <1>16, <1>18, <1>21, <2>1, Sorts DEF Fresh
<1>22. ASSUME Sane(n)
       PROVE  /\ Fresh(m, w)
              /\ \A v \in Address : \/ n.heap[v] = m.heap[v] \/ Fresh(m, v)
                                    \/ GetVar(m, d, "S.") # NoVar /\ v = Source(m, GetVar(m, d, "S."))
  <2>1. /\ Sane(s.m) /\ Fresh(o, w)
        /\ \A v \in Address : v # w /\ v # Source(s.m, s.var) => n.heap[v] = s.m.heap[v]
    BY <1>7, <1>11, <1>15, <1>18, <1>22
  <2>2. CASE r.var # NoVar
    <3>1. s = r /\ s.m.heap = m.heap
      BY <1>1, <1>4, <2>2
    <3>2. Source(s.m, s.var) = Source(m, r.var)
      BY <3>1 DEF Source
    <3>3. Fresh(m, w)
      BY <1>7, <2>1, <3>1 DEF Fresh
    <3> QED BY <1>1, <2>1, <2>2, <3>1, <3>2, <3>3
  <2>3. CASE r.var = NoVar
    <3>1. /\ Fresh(m, s.var) /\ Source(s.m, s.var) = s.var /\ DOMAIN s.m.heap[s.var].tails = {}
          /\ \A v \in Address : v # s.var => s.m.heap[v] = m.heap[v]
      BY <1>1, <1>4, <2>1, <2>3 DEF Fresh
    <3>2. s.m.heap[s.var].live /\ s.var # NoVar
      <4>1. d \in 1..Len(s.m.scopes) /\ GetVar(s.m, d, "S.") # NoVar /\ EntriesLive(s.m)
        BY <1>1, <1>4, <2>1 DEF Fine, Forest, Adds
      <4> QED BY <1>4, <4>1, Sorts DEF EntriesLive
    <3>3. w \in Vars /\ ~s.m.heap[w].live
          /\ \A g \in Address : \A t \in DOMAIN s.m.heap[g].tails : s.m.heap[g].tails[t] # w
      BY <1>7, <2>1 DEF Fresh
    <3>4. w # s.var /\ ~m.heap[w].live
      BY <3>1, <3>2, <3>3, Sorts
    <3>5. Sane(m) /\ TailsOwn(m)
      BY <1>20, <1>22, AddsSane DEF Fine, Forest
    <3>6. ASSUME NEW g \in Address, NEW t \in DOMAIN m.heap[g].tails PROVE m.heap[g].tails[t] # w
      <4>1. CASE g = s.var
        <5>1. m.heap[g].live
          BY <3>5, <3>6 DEF TailsOwn
        <5> QED BY <3>1, <4>1, <5>1 DEF Fresh
      <4>2. CASE g # s.var
        BY <3>1, <3>3, <3>6, <4>2
      <4> QED BY <4>1, <4>2
    <3>7. Fresh(m, w)
      BY <3>3, <3>4, <3>6 DEF Fresh
    <3>8. ASSUME NEW v \in Address PROVE n.heap[v] = m.heap[v] \/ Fresh(m, v)
      BY <2>1, <3>1, <3>7
    <3> QED BY <3>7, <3>8
  <2> QED BY <2>2, <2>3
<1>23. Touches(m, n, d)
  BY <1>22 DEF Touches
<1>24. Made(m, d, Compound, c)
  BY <1>10, <1>17, <1>18, <1>19, <1>20, <1>21, <1>22, <1>23 DEF Made
<1> QED BY <1>19, <1>24 DEF c

\* access(): found, or created and, if it has a cache, cached.
LEMMA AccessMade ==
  ASSUME NEW m, NEW top, Pool(m, top), Fine(m), NEW d \in 1..Len(m.scopes),
         NEW sym \in Cached \union {Compound}
  PROVE  Made(m, d, sym, Access(m, d, sym))
<1> DEFINE g == Get(m, d, sym)
<1> DEFINE a == Access(m, d, sym)
<1>1. Located(m, d, sym, g) /\ DOMAIN g = ResultFields
  BY GetLocated, ResultsHaveFields DEF Fine
<1>2. Pool(g.m, top)
  BY GetKeeps DEF Searched
<1>3. /\ g.m.heap = m.heap /\ g.m.scopes = m.scopes /\ g.found \in BOOLEAN
      /\ sym \in Cached => g.var = GetVar(m, d, Key(sym)) /\ (g.found <=> g.var # NoVar)
  BY <1>1 DEF Located
<1>4. Fine(g.m) /\ Adds(m, g.m)
  BY <1>1, LocatedFine
<1>5. CASE g.found
  <2>1. a = g
    BY <1>5 DEF Access
  <2> QED BY <1>1, <1>5, <2>1, FoundMade
<1>6. CASE ~g.found /\ sym = Compound
  <2>1. a = CreateCompound(g, d)
    BY <1>6 DEF Access
  <2> QED BY <1>1, <1>2, <1>6, <2>1, CreateCompoundMade
<1>7. CASE ~g.found /\ sym # Compound
  <2> DEFINE k == Key(sym)
  <2> DEFINE c == CreateSimple(g.m, d, k)
  <2>1. sym \in Cached /\ k \in Simple /\ Key(k) = k /\ k # Compound
    BY <1>7, Names
  <2>2. a = [c EXCEPT !.m = CacheVar(c.m, d, sym, c.var)]
    BY <1>7 DEF Access
  <2>3. GetVar(g.m, d, k) = NoVar /\ d \in 1..Len(g.m.scopes)
    BY <1>3, <1>7, <2>1 DEF GetVar
  <2>4. Made(g.m, d, k, c) /\ c.found = FALSE
    BY <1>2, <1>4, <2>1, <2>3, CreateSimpleMade
  <2>5. Reached(g.m, top, d, c.m) /\ c.var = GetVar(c.m, d, k) /\ d \in 1..Len(c.m.scopes)
    BY <1>2, <2>1, <2>3, CreateSimpleKeeps DEF Reached, Grown
  <2>6. DOMAIN c.m = Fields /\ Pool(c.m, top)
    BY <2>5, PoolFields DEF Reached
  <2>7. DOMAIN c = ResultFields
    BY DEF CreateSimple, Found, ResultFields
  <2> HIDE DEF c, g, k
  <2> DEFINE n == CacheVar(c.m, d, sym, c.var)
  <2>8. n.heap = c.m.heap /\ n.bad = c.m.bad /\ n.scopes = c.m.scopes /\ n.left = c.m.left
    BY <2>6, CacheHeap DEF CacheVar, Fields
  <2> HIDE DEF n
  <2>9. a.m = n /\ a.var = c.var /\ a.found = c.found /\ a.tail = c.tail
    BY <2>2, <2>7 DEF n, ResultFields
  <2>10. Fine(c.m) /\ Adds(g.m, c.m) /\ Touches(g.m, c.m, d)
    BY <2>4 DEF Made
  <2>11. n.bad \in BOOLEAN
    BY <2>8, <2>10 DEF Fine, Typed
  <2>12. Fine(n) /\ Adds(c.m, n)
    <3>1. RcRight(c.m) => RcRight(n)
      BY <2>1, <2>5, <2>6, CachedRc DEF n, k
    <3> QED BY <2>6, <2>8, <2>10, <2>11, <3>1, SameHeapFine
  <2>13. Adds(m, n)
    BY <1>4, <2>10, <2>12, AddsTwice
  <2>14. Touches(g.m, n, d)
    BY <2>8, <2>10 DEF Touches, Sane
  <2>15. Touches(m, n, d)
    BY <1>3, <2>14, TouchesAfter
  <2>16. \A l : GetVar(n, d, l) = GetVar(c.m, d, l)
    BY <2>8 DEF GetVar
  <2>17. Sane(n) <=> Sane(c.m)
    BY <2>8 DEF Sane
  <2>18. \A v : Fresh(g.m, v) => Fresh(m, v)
    BY <1>3 DEF Fresh
  <2>19. /\ c.m.heap[c.var].src = c.var /\ c.m.heap[c.var].live /\ c.m.heap[c.var].key = k
         /\ Sane(c.m) => /\ Fresh(g.m, c.var) /\ c.var # NoVar /\ c.var = GetVar(c.m, d, k)
         /\ c.var \in Address /\ c.tail \in Tails
    BY <2>1, <2>4 DEF Made
  <2>20. Made(m, d, sym, a)
    BY <1>7, <2>4, <2>8, <2>9, <2>12, <2>13, <2>15, <2>16, <2>17, <2>18, <2>19 DEF Made, k
  <2> QED BY <2>20
<1> QED BY <1>3, <1>5, <1>6, <1>7

-----------------------------------------------------------------------------
(***************************************************************************)
(* The clauses that delete nothing.                                        *)
(***************************************************************************)
\* What a clause that deletes nothing leaves: what there was, and more.
Grows(m, n) == Fine(n) /\ Adds(m, n)

LEMMA GrowsTwice ==
  ASSUME NEW m, NEW n, NEW o, Grows(m, n), Grows(n, o) PROVE Grows(m, o)
BY AddsTwice DEF Grows

LEMMA UseGrows ==
  ASSUME NEW m, NEW top, Pool(m, top), Fine(m), NEW vs
  PROVE  Grows(m, Use(m, vs)) /\ Use(m, vs).heap = m.heap
<1>1. DOMAIN m = Fields /\ Typed(m)
  BY PoolFields DEF Fine
<1>2. /\ Use(m, vs).heap = m.heap /\ Use(m, vs).scopes = m.scopes /\ Use(m, vs).left = m.left
      /\ Use(m, vs).bad \in BOOLEAN /\ (m.bad => Use(m, vs).bad)
      /\ Use(m, vs).cache = m.cache
  BY <1>1, UseTyped, HeapOnly DEF Alike, Typed
<1>3. RcRight(m) => RcRight(Use(m, vs))
  BY <1>2, SameRc
<1> QED BY <1>2, <1>3, SameHeapFine DEF Grows

LEMMA LoadGrows ==
  ASSUME Inv, Fine(mem), NEW sym \in Symbols, loadVar(sym)
  PROVE  Grows(mem, mem') /\ mem'.heap = mem.heap
<1> DEFINE r == CachedOr(mem, Depth, sym, Get(mem, Depth, sym))
<1>1. Located(mem, Depth, sym, Get(mem, Depth, sym))
  BY DepthIsScope, GetLocated, Names DEF Inv, Symbols, Fine
<1>2. Located(mem, Depth, sym, r)
  BY <1>1, DepthIsScope, CachedLocated DEF Inv, Fine
<1>3. mem' = r.m
  BY DEF loadVar
<1> HIDE DEF r
<1>4. Fine(r.m) /\ Adds(mem, r.m) /\ r.m.heap = mem.heap
  BY <1>2, LocatedFine DEF Inv, Located
<1> QED BY <1>3, <1>4 DEF Grows

\* A symbol of the program: what is in its cache is what access() would have found.
LEMMA CachedMade ==
  ASSUME NEW m, NEW top, Pool(m, top), Fine(m), NEW d \in 1..Len(m.scopes), NEW sym \in Symbols
  PROVE  Made(m, d, sym, CachedOr(m, d, sym, Access(m, d, sym)))
<1> DEFINE v == IF sym = Compound THEN NoVar ELSE GetCached(m, d, sym)
<1> DEFINE r == CachedOr(m, d, sym, Access(m, d, sym))
<1> DEFINE g == CachedOr(m, d, sym, Get(m, d, sym))
<1>1. sym \in Cached \union {Compound}
  BY Names DEF Symbols
<1>2. CASE v = NoVar
  <2>1. r = Access(m, d, sym)
    BY <1>2 DEF CachedOr
  <2> QED BY <1>1, <2>1, AccessMade
<1>3. CASE v # NoVar
  <2>1. r = Found(Use(m, {v}), v, TRUE, Null) /\ g = r
    BY <1>3 DEF CachedOr
  <2>2. Located(m, d, sym, g)
    BY <1>1, GetLocated, CachedLocated DEF Fine
  <2>3. r.found
    BY <2>1 DEF Found
  <2> HIDE DEF g, r
  <2>4. Made(m, d, sym, r)
    BY <1>1, <2>1, <2>2, <2>3, FoundMade
  <2> QED BY <2>4 DEF r
<1> QED BY <1>2, <1>3

LEMMA CreateGrows ==
  ASSUME Inv, Fine(mem), NEW sym \in Symbols, createVar(sym)
  PROVE  Grows(mem, mem') /\ target'.var \in Address
<1> DEFINE r == CachedOr(mem, Depth, sym, Access(mem, Depth, sym))
<1>1. Made(mem, Depth, sym, r)
  BY DepthIsScope, CachedMade DEF Inv
<1>2. mem' = r.m /\ target' = [var |-> r.var, depth |-> Depth, stem |-> sym = "S."]
  BY DEF createVar
<1> QED BY <1>1, <1>2 DEF Made, Grows

LEMMA SetStemGrows ==
  ASSUME NEW m, NEW top, Pool(m, top), Fine(m), Depth \in 1..Len(m.scopes)
  PROVE  Grows(m, SetStem(m)) /\ SetStem(m).heap = m.heap
<1> DEFINE r == CachedOr(m, Depth, "S.", Get(m, Depth, "S."))
<1>1. Located(m, Depth, "S.", Get(m, Depth, "S."))
  BY GetLocated, Names DEF Fine
<1>2. Located(m, Depth, "S.", r)
  BY <1>1, CachedLocated, Sorts DEF Fine
<1>3. SetStem(m) = IF r.found THEN AssignStem(r) ELSE r.m
  BY DEF SetStem
<1>4. Reached(m, top, Depth, Get(m, Depth, "S.").m)
  BY GetKeeps, SearchedReached, Names
<1>5. Pool(r.m, top)
  BY <1>4, CachedOrReached, ReachedKept DEF Kept
<1> HIDE DEF r
<1>6. Grows(m, r.m) /\ r.m.heap = m.heap
  BY <1>2, LocatedFine DEF Grows, Located
<1>7. AssignStem(r) = Use(r.m, Range(TailsOf(r.m, r.var)))
  BY DEF AssignStem
<1>8. Grows(r.m, AssignStem(r)) /\ AssignStem(r).heap = r.m.heap
  BY <1>5, <1>6, <1>7, UseGrows DEF Grows
<1>9. CASE r.found
  <2>1. SetStem(m) = AssignStem(r)
    BY <1>3, <1>9
  <2> QED BY <1>6, <1>8, <2>1, GrowsTwice
<1>10. CASE ~r.found
  BY <1>3, <1>6, <1>10
<1> QED BY <1>9, <1>10

LEMMA SetValueGrows ==
  ASSUME NEW m, NEW top, Pool(m, top), Fine(m), NEW v \in Address, Sane(m) => v \notin m.left, NEW x,
         x \in Values \/ m.heap[Source(m, v)].key # "RC"
  PROVE  /\ Grows(m, SetValue(m, v, x)) /\ Pool(SetValue(m, v, x), top)
         /\ SetValue(m, v, x).scopes = m.scopes
         /\ \A u \in Address : SetValue(m, v, x).heap[u].live = m.heap[u].live
<1>1. DOMAIN m = Fields /\ Typed(m)
  BY PoolFields DEF Fine
<1>2. Pool(SetValue(m, v, x), top)
  BY <1>1, HeapOnly, AlikePool
<1>3. \A u \in Address : SetValue(m, v, x).heap[u].live = m.heap[u].live
  BY <1>1, SetValueTyped
<1> QED BY <1>2, <1>3, SetValueFine DEF Grows

LEMMA AssignGrows ==
  ASSUME Inv, Fine(mem), Fits(mem), TargetRight(mem, target), NEW x \in Data, assign(x)
  PROVE  Grows(mem, mem') /\ Fits(mem')
<1> DEFINE m1 == SetValue(mem, target.var, x)
<1>0. target.var \in Address
  BY DEF TargetRight
<1>5. ASSUME Sane(mem) PROVE target.var \notin mem.left
  <2> DEFINE v == target.var
  <2> DEFINE d == target.depth
  <2>1. Forest(mem) /\ Typed(mem)
    BY <1>5 DEF Fine
  <2>2. CASE ~mem.heap[v].live
    BY <1>5, <2>1, <2>2, NotLeft
  <2>3. CASE d \in 1..Len(mem.scopes) /\ \E k \in Simple : v = GetVar(mem, d, k)
    BY <1>5, <2>1, <2>3, NotLeft DEF InScopes
  <2>4. CASE d \in 1..Len(mem.scopes) /\ TailUnder(mem, d, v)
    <3>1. GetVar(mem, d, "S.") \in Address
      BY <2>4, EntryAddress, Sorts DEF Inv
    <3>2. Source(mem, GetVar(mem, d, "S.")) \in Address
      BY <2>1, <3>1, TypedHeap
    <3>3. InTails(mem, v)
      BY <2>4, <3>2 DEF TailUnder, TailsOf, InTails
    <3> QED BY <1>5, <2>1, <3>3, NotLeft
  <2> QED BY <2>2, <2>3, <2>4 DEF TargetRight
<1>1. /\ Grows(mem, m1) /\ Pool(m1, idMax) /\ m1.scopes = mem.scopes
      /\ \A u \in Address : m1.heap[u].live = mem.heap[u].live
  BY <1>0, <1>5, SetValueGrows, Sorts DEF Inv
<1>2. Depth \in 1..Len(m1.scopes) /\ Fine(m1)
  BY <1>1, DepthIsScope DEF Grows
<1>3. mem' = m1 \/ mem' = SetStem(m1)
  BY DEF assign
<1> HIDE DEF m1
<1>4. Grows(m1, SetStem(m1)) /\ SetStem(m1).heap = m1.heap
  BY <1>1, <1>2, SetStemGrows
<1> QED BY <1>1, <1>3, <1>4, GrowsTwice, Sorts DEF Fits

LEMMA SetRCGrows ==
  ASSUME Inv, Fine(mem), RcRight(mem), NEW x \in Data, setRC(x)
  PROVE  Grows(mem, mem')
<1> DEFINE v == GetCached(mem, Depth, "rc")
<1> DEFINE a == Access(mem, Depth, "rc")
<1> DEFINE r == CachedOr(mem, Depth, "rc", a)
<1>1. "rc" \in Cached /\ "rc" # Compound
  BY Names DEF Cached, Compound
<1>2. Made(mem, Depth, "rc", a)
  BY <1>1, DepthIsScope, AccessMade DEF Inv
<1>3. Reached(mem, idMax, Depth, a.m)
  BY <1>1, DepthIsScope, AccessKeeps DEF Inv
<1>4. mem' = SetValue(r.m, r.var, x)
  BY DEF setRC
<1>5. CASE v = NoVar
  <2>1. r = a
    BY <1>1, <1>5 DEF CachedOr
  <2>2. Sane(a.m) => a.var \notin a.m.left
    BY <1>1, <1>2, <1>3, DepthIsScope, MadeApart DEF Inv, Reached
  <2> HIDE DEF a
  <2> QED BY <1>2, <1>3, <1>4, <2>1, <2>2, SetValueGrows, GrowsTwice, Sorts DEF Made, Grows, Reached
<1>6. CASE v # NoVar
  <2>1. r = Found(Use(mem, {v}), v, TRUE, Null)
    BY <1>1, <1>6 DEF CachedOr
  <2>2. r.m = Use(mem, {v}) /\ r.var = v
    BY <2>1 DEF Found
  <2>3. mem.cache["rc"].var \in Address
    BY <1>1 DEF Inv, Pool, CacheType
  <2>4. v \in Address
    BY <2>3, Sorts DEF GetCached
  <2>5. Grows(mem, r.m) /\ r.m.heap = mem.heap
    BY <2>2, UseGrows DEF Inv
  <2>6. Pool(r.m, idMax)
    BY <2>2, HeapOnly, AlikePool, PoolFields DEF Inv
  <2>8. mem.cache["rc"].id = mem.scopes[Depth].id /\ v = mem.cache["rc"].var
    BY <1>6 DEF GetCached
  <2>9. ASSUME Sane(r.m) PROVE v \notin r.m.left
    <3>1. Sane(mem) /\ Forest(mem)
      BY <2>5, <2>9, AddsSane DEF Grows, Fine
    <3>2. r.m.left = mem.left
      BY <2>2, PoolFields, UseTyped DEF Inv, Fine
    <3>3. mem.heap[v].live => v = GetVar(mem, Depth, "RC") /\ Depth \in 1..Len(mem.scopes)
      BY <2>8, DepthIsScope DEF RcRight, Inv
    <3>4. ~mem.heap[v].live \/ InScopes(mem, v)
      BY <3>3, Sorts DEF InScopes
    <3> QED BY <3>1, <3>2, <3>4, NotLeft
  <2> HIDE DEF v, r
  <2>7. Grows(r.m, mem')
    BY <1>4, <2>2, <2>4, <2>5, <2>6, <2>9, SetValueGrows, Sorts DEF Grows
  <2> QED BY <2>5, <2>7, GrowsTwice
<1> QED BY <1>5, <1>6

\* What VALUE() gets for a name, found or created.
LEMMA FoundOrMade ==
  ASSUME NEW m, NEW top, Pool(m, top), Fine(m), NEW d \in 1..Len(m.scopes), NEW k \in Symbols, NEW c,
         c = IF Find(m, d, k).found THEN Find(m, d, k)
             ELSE IF k = Compound THEN CreateCompound(Find(m, d, k), d)
             ELSE CreateSimple(Find(m, d, k).m, d, k)
  PROVE  Made(m, d, k, c) /\ Reached(m, top, d, c.m)
<1> DEFINE r == Find(m, d, k)
<1>1. Searched(m, top, d, k, r)
  BY FindKeeps DEF Symbols
<1>2. Located(m, d, k, r) /\ DOMAIN r = ResultFields
  BY FindLocated, ResultsHaveFields DEF Fine
<1>3. k \in Cached \union {Compound}
  BY Names DEF Symbols
<1>4. Pool(r.m, top)
  BY <1>1 DEF Searched
<1>5. c = IF r.found THEN r ELSE IF k = Compound THEN CreateCompound(r, d) ELSE CreateSimple(r.m, d, k)
  OBVIOUS
<1>6. CASE r.found
  <2>1. c = r
    BY <1>5, <1>6
  <2> QED BY <1>1, <1>2, <1>3, <1>6, <2>1, FoundMade, SearchedReached
<1>7. CASE ~r.found /\ k = Compound
  <2>1. c = CreateCompound(r, d)
    BY <1>5, <1>7
  <2> QED BY <1>1, <1>2, <1>4, <1>7, <2>1, CreateCompoundMade, CreateCompoundKeeps
<1>8. CASE ~r.found /\ k # Compound
  <2>1. c = CreateSimple(r.m, d, k) /\ k \in Simple /\ k \in Cached /\ Key(k) = k
    BY <1>5, <1>8, Names DEF Symbols
  <2>2. r = Found(m, GetVar(m, d, k), GetVar(m, d, k) # NoVar, Null)
    BY <1>8 DEF Find
  <2>3. r.m = m
    BY <2>2 DEF Found
  <2>4. GetVar(m, d, k) = NoVar
    BY <1>1, <1>8, <2>1, <2>3 DEF Searched
  <2>5. Made(m, d, k, c)
    BY <2>1, <2>3, <2>4, CreateSimpleMade
  <2>6. Reached(m, top, d, c.m)
    BY <1>1, <1>8, <2>1, CreateMissingKeeps
  <2> QED BY <2>5, <2>6
<1> QED BY <1>2, <1>6, <1>7, <1>8 DEF Located

LEMMA SetValueActGrows ==
  ASSUME Inv, Fine(mem), NEW k \in Symbols, NEW x \in Data, setValue(k, x)
  PROVE  Grows(mem, mem')
<1> DEFINE r == Find(mem, Depth, k)
<1> DEFINE c == IF r.found THEN r
                ELSE IF k = Compound THEN CreateCompound(r, Depth) ELSE CreateSimple(r.m, Depth, k)
<1>1. Made(mem, Depth, k, c) /\ Reached(mem, idMax, Depth, c.m)
  BY DepthIsScope, FoundOrMade DEF Inv
<1>2. mem' = SetValue(c.m, c.var, x)
  BY DEF setValue
<1> HIDE DEF c
<1>3. Sane(c.m) => c.var \notin c.m.left
  <2>1. k \in Cached \union {Compound}
    BY Names DEF Symbols
  <2> QED BY <1>1, <2>1, DepthIsScope, MadeApart DEF Inv, Reached
<1> QED BY <1>1, <1>2, <1>3, SetValueGrows, GrowsTwice, Sorts DEF Made, Grows, Reached

-----------------------------------------------------------------------------
(***************************************************************************)
(* The clauses that delete.                                                *)
(***************************************************************************)
\* The entries that expose something, in the scopes that remain, and their variables.
Exposures(m, n) == Sane(n) => \A i \in 1..Len(m.scopes), k \in Simple :
  LET v == GetVar(m, i, k)
  IN  v # NoVar /\ IsExposed(m, v) /\ i <= Len(n.scopes) =>
        GetVar(n, i, k) = v /\ n.heap[v] = m.heap[v]

\* What a clause that deletes leaves.
Shrinks(m, n) ==
  /\ Fine(n) /\ ~n.heap[NoVar].live /\ (m.bad => n.bad)
  /\ Len(n.scopes) \in 0..Len(m.scopes)
  /\ Exposures(m, n)
  /\ Sane(n) /\ Pointed(m) => Pointed(n)

\* An entry is nobody's tail.
LEMMA EntryNoTail ==
  ASSUME NEW m, NEW top, Pool(m, top), Forest(m), NEW i \in 1..Len(m.scopes), NEW k \in Simple,
         GetVar(m, i, k) # NoVar, NEW g \in Address, NEW t \in DOMAIN m.heap[g].tails
  PROVE  m.heap[g].tails[t] # GetVar(m, i, k)
BY Names DEF Forest, EntriesLive, TailsOwn

\* A variable that is no live stem of its own has no tails.
LEMMA NoTailsOf ==
  ASSUME NEW m, Forest(m), NEW g \in Address,
         ~m.heap[g].live \/ m.heap[g].key # "S." \/ m.heap[g].src # g
  PROVE  DOMAIN m.heap[g].tails = {} /\ Range(m.heap[g].tails) = {}
<1>1. DOMAIN m.heap[g].tails = {}
  BY DEF Forest, TailsOwn
<1> QED BY <1>1 DEF Range

\* What ~Variable deletes: entries of scope i are not among it, but the one that goes,
\* and what it deletes has no tails that remain.
LEMMA OwnedAlone ==
  ASSUME NEW m, NEW top, Pool(m, top), Typed(m), Sane(m), Forest(m),
         NEW i \in 1..Len(m.scopes), NEW k \in Simple, NEW v, v = GetVar(m, i, k), v # NoVar
  PROVE  /\ \A j \in 1..Len(m.scopes), l \in Simple :
              GetVar(m, j, l) # NoVar /\ GetVar(m, j, l) \in Owned(m, v) => j = i /\ l = k
         /\ \A g \in Address : g \in Owned(m, v) =>
              \A t \in DOMAIN m.heap[g].tails : m.heap[g].tails[t] \in Owned(m, v)
         /\ v \in Owned(m, v) /\ NoVar \notin Owned(m, v) /\ Owned(m, v) \subseteq Address
<1>1. v \in Address /\ m.heap[v].live /\ m.heap[v].key = k
  BY EntryAddress DEF Forest, EntriesLive
<1>2. Owned(m, v) = {v} \union (IF IsExposed(m, v) THEN {} ELSE Range(m.heap[v].tails))
  BY DEF Owned
<1>3. \A w \in Owned(m, v) : w # v => \E t \in DOMAIN m.heap[v].tails : w = m.heap[v].tails[t]
  BY <1>2 DEF Range
<1>4. ASSUME NEW j \in 1..Len(m.scopes), NEW l \in Simple, GetVar(m, j, l) # NoVar,
             GetVar(m, j, l) \in Owned(m, v)
      PROVE  j = i /\ l = k
  <2>1. GetVar(m, j, l) = v
    BY <1>1, <1>3, <1>4, EntryNoTail
  <2>2. m.heap[v].key = l
    BY <1>4, <2>1 DEF Forest, EntriesLive
  <2>3. EntriesApart(m)
    BY DEF Forest
  <2> QED BY <1>1, <1>4, <2>1, <2>2, <2>3 DEF EntriesApart
<1>5. ASSUME NEW g \in Address, g \in Owned(m, v), NEW t \in DOMAIN m.heap[g].tails
      PROVE  m.heap[g].tails[t] \in Owned(m, v)
  <2>1. m.heap[g].live /\ m.heap[g].key = "S." /\ m.heap[g].src = g
    BY <1>5 DEF Forest, TailsOwn
  <2>2. CASE g = v
    BY <1>2, <1>5, <2>1, <2>2 DEF IsExposed, Source, Range
  <2>3. CASE g # v
    <3>1. PICK u \in DOMAIN m.heap[v].tails : g = m.heap[v].tails[u]
      BY <1>3, <1>5, <2>3
    <3>2. m.heap[g].key = Compound
      BY <1>1, <2>1, <3>1 DEF Forest, TailsOwn
    <3> QED BY <2>1, <3>2, Names
  <2> QED BY <2>2, <2>3
<1>6. \A w \in Owned(m, v) : w # NoVar /\ w \in Address
  <2>1. \A t \in DOMAIN m.heap[v].tails : m.heap[v].tails[t] \in Vars
    BY <1>1 DEF Forest, TailsOwn
  <2> QED BY <1>1, <1>3, <2>1, Sorts
<1> QED BY <1>2, <1>4, <1>5, <1>6

\* An entry of the last scope that exposes nothing is removed.
LEMMA RemoveShrinks ==
  ASSUME NEW m, NEW top, Pool(m, top), Fine(m), Sane(m), NEW D, D = Len(m.scopes), D >= 1,
         NEW k \in Simple, NEW v, v = GetVar(m, D, k), v # NoVar, ~IsExposed(m, v)
  PROVE  Shrinks(m, RemoveVar(m, D, k)) /\ DOMAIN RemoveVar(m, D, k) = Fields
<1> DEFINE F == Owned(m, v)
<1> DEFINE o == Free(m, F)
<1> DEFINE n == PutVar(o, D, k, NoVar)
<1>1. RemoveVar(m, D, k) = n
  BY DEF RemoveVar
<1>2. DOMAIN m = Fields /\ Typed(m) /\ Forest(m) /\ D \in 1..Len(m.scopes) /\ Len(m.scopes) \in Nat
  BY PoolFields, EntryAddress DEF Fine
<1>3. /\ Typed(o) /\ DOMAIN o = Fields /\ o.left = m.left
      /\ o.bad <=> m.bad \/ \E u \in F : ~m.heap[u].live
      /\ \A u \in Address : u \notin F => o.heap[u] = m.heap[u]
      /\ \A u \in Address : u \in F => o.heap[u] = Dead
  BY <1>2, FreeTyped
<1>4. Pool(o, top) /\ o.scopes = m.scopes /\ o.cache = m.cache
  BY <1>2, HeapOnly, AlikePool DEF Alike
<1>5. n.heap = o.heap /\ n.bad = o.bad /\ n.left = o.left
  BY <1>3, PutVarHeap
<1>6. DOMAIN n = Fields
  BY <1>3, PutVarHeap
<1> HIDE DEF o
<1>7. /\ Len(n.scopes) = Len(m.scopes)
      /\ \A i \in 1..Len(m.scopes), l \in Simple :
           GetVar(n, i, l) = IF i = D /\ l = k THEN NoVar ELSE GetVar(m, i, l)
  <2>1. /\ Len(n.scopes) = Len(o.scopes)
        /\ \A i \in 1..Len(o.scopes), l \in Simple :
             GetVar(n, i, l) = IF i = D /\ l = k THEN NoVar ELSE GetVar(o, i, l)
    BY <1>2, <1>4, PutVarMap
  <2>2. \A i, l : GetVar(o, i, l) = GetVar(m, i, l)
    BY <1>4 DEF GetVar
  <2> QED BY <1>4, <2>1, <2>2
<1>8. /\ \A j \in 1..Len(m.scopes), l \in Simple :
           GetVar(m, j, l) # NoVar /\ GetVar(m, j, l) \in F => j = D /\ l = k
      /\ \A g \in Address : g \in F => \A t \in DOMAIN m.heap[g].tails : m.heap[g].tails[t] \in F
      /\ v \in F /\ NoVar \notin F
  BY <1>2, OwnedAlone
<1>9. /\ \A u \in Address \ m.left : m.heap[u].live /\ u \notin F => m.heap[u].src \notin F
      /\ \A u \in m.left : u \notin F
  <2>1. InScopes(m, v) /\ v \in Address
    BY <1>2, EntryAddress DEF InScopes
  <2> QED BY <1>2, <2>1, OwnedSources, LeftNotOwned
<1> HIDE DEF F, n
<1>10. \A u \in Address : (u \notin F => n.heap[u] = m.heap[u]) /\ (u \in F => n.heap[u] = Dead)
  BY <1>3, <1>5
<1>11. \A i \in 1..Len(m.scopes), l \in Simple : GetVar(n, i, l) # NoVar => GetVar(n, i, l) \notin F
  BY <1>7, <1>8
<1>12. \A i \in 1..Len(m.scopes), l \in Simple : GetVar(m, i, l) \notin F =>
          GetVar(m, i, l) = NoVar \/ (i <= D /\ GetVar(n, i, l) = GetVar(m, i, l))
  BY <1>2, <1>7, <1>8
<1>13. \A i \in 1..D, l \in Simple : \/ GetVar(n, i, l) = GetVar(m, i, l)
                                     \/ i = Len(m.scopes) /\ GetVar(n, i, l) = NoVar
  BY <1>7
<1>14. Forest(n)
  <2>1. D \in Nat /\ D = Len(n.scopes) /\ D <= Len(m.scopes)
    BY <1>2, <1>7
  <2>2. \A i \in 1..D, l \in Simple : GetVar(n, i, l) # NoVar => GetVar(n, i, l) \notin F
    BY <1>11
  <2>3. n.left = m.left
    BY <1>3, <1>5
  <2>4. Frees(m, n, F, D)
    BY <1>8, <1>9, <1>10, <1>12, <1>13, <2>1, <2>2, <2>3 DEF Frees
  <2> QED BY <1>2, <2>4, FreeForest
<1>15. Typed(n) /\ ~n.heap[NoVar].live /\ (m.bad => n.bad)
  BY <1>3, <1>5, <1>8, <1>10, Sorts DEF Typed, Sane
<1>16. Exposures(m, n)
  <2> SUFFICES ASSUME NEW i \in 1..Len(m.scopes), NEW l \in Simple, GetVar(m, i, l) # NoVar,
                      IsExposed(m, GetVar(m, i, l))
               PROVE  GetVar(n, i, l) = GetVar(m, i, l) /\ n.heap[GetVar(m, i, l)] = m.heap[GetVar(m, i, l)]
    BY DEF Exposures
  <2>1. ~(i = D /\ l = k)
    OBVIOUS
  <2>2. GetVar(m, i, l) \notin F /\ GetVar(m, i, l) \in Address
    BY <1>8, <2>1, EntryAddress
  <2> QED BY <1>7, <1>10, <2>1, <2>2
<1>17. n.cache = o.cache /\ \A i \in 1..Len(o.scopes) : n.scopes[i].id = o.scopes[i].id
  BY <1>3, <1>4, PutVarIds DEF n
<1>18. ASSUME Pointed(m) PROVE Pointed(n)
  <2> DEFINE E == D
  <2>1. E \in Nat /\ E = Len(n.scopes) /\ E <= Len(m.scopes)
    BY <1>2, <1>7
  <2>2. n.cache["rc"] = m.cache["rc"] /\ \A i \in 1..E : n.scopes[i].id = m.scopes[i].id
    BY <1>4, <1>17
  <2>3. \A u \in Address : n.heap[u].live => m.heap[u].live \/ Unpointed(m, u)
    BY <1>10 DEF Dead
  <2>4. ASSUME NEW i \in 1..E, NEW l \in Simple, GetVar(m, i, l) # NoVar
        PROVE  \/ GetVar(n, i, l) = GetVar(m, i, l) /\ Source(n, GetVar(m, i, l)) = Source(m, GetVar(m, i, l))
               \/ /\ ~n.heap[GetVar(m, i, l)].live
                  /\ \A t \in DOMAIN TailsOf(m, GetVar(m, i, l)) : ~n.heap[TailsOf(m, GetVar(m, i, l))[t]].live
    <3>1. GetVar(m, i, l) \in Address /\ i \in 1..Len(m.scopes)
      BY <2>1, EntryAddress
    <3>2. CASE i = D /\ l = k
      <4>1. Source(m, v) = v /\ v \in Address
        BY <3>1, <3>2 DEF IsExposed
      <4>2. \A t \in DOMAIN TailsOf(m, v) : TailsOf(m, v)[t] \in F /\ TailsOf(m, v)[t] \in Address
        BY <1>2, <1>8, <4>1, TypedHeap DEF TailsOf
      <4> QED BY <1>8, <1>10, <3>2, <4>1, <4>2 DEF Dead
    <3>3. CASE ~(i = D /\ l = k)
      <4>1. GetVar(m, i, l) \notin F
        BY <1>8, <2>4, <3>1, <3>3
      <4> QED BY <1>7, <1>10, <3>1, <3>3, <4>1 DEF Source
    <3> QED BY <3>2, <3>3
  <2>5. ASSUME NEW g \in Address, NEW t \in DOMAIN m.heap[g].tails
        PROVE  \/ ~n.heap[m.heap[g].tails[t]].live
               \/ t \in DOMAIN n.heap[g].tails /\ n.heap[g].tails[t] = m.heap[g].tails[t]
    <3>1. m.heap[g].tails[t] \in Address
      BY <1>2, TypedHeap
    <3>2. CASE g \in F
      BY <1>8, <1>10, <3>1, <3>2 DEF Dead
    <3>3. CASE g \notin F
      BY <1>10, <3>3
    <3> QED BY <3>2, <3>3
  <2>6. target.depth \in 1..Len(m.scopes) => target.depth <= E
    OBVIOUS
  <2> HIDE DEF E
  <2> QED BY <1>2, <1>18, <2>1, <2>2, <2>3, <2>4, <2>5, <2>6, StillPointed
<1> QED BY <1>1, <1>2, <1>6, <1>7, <1>14, <1>15, <1>16, <1>18 DEF Shrinks, Fine

\* The tails of a stem that the last scope exposes are deleted; another variable has none.
LEMMA ClearShrinks ==
  ASSUME NEW m, NEW top, Pool(m, top), Fine(m), Sane(m), Len(m.scopes) >= 1, NEW v \in Address,
         \/ v = GetVar(m, Len(m.scopes), "S.") /\ v # NoVar /\ IsExposed(m, v)
         \/ Range(TailsOf(m, v)) = {}
  PROVE  LET n == ClearTail(m, v)
         IN  Shrinks(m, n) /\ n.scopes = m.scopes /\ n.cache = m.cache /\ Pool(n, top)
<1> DEFINE F == Range(TailsOf(m, v))
<1> DEFINE n == Free(m, F)
<1>1. ClearTail(m, v) = n
  BY DEF ClearTail
<1>2. DOMAIN m = Fields /\ Typed(m) /\ Forest(m) /\ Len(m.scopes) \in Nat /\ Source(m, v) \in Address
  BY PoolFields, EntryAddress, TypedHeap DEF Fine
<1>3. /\ Typed(n) /\ n.left = m.left
      /\ n.bad <=> m.bad \/ \E u \in F : ~m.heap[u].live
      /\ \A u \in Address : u \notin F => n.heap[u] = m.heap[u]
      /\ \A u \in Address : u \in F => n.heap[u] = Dead
  BY <1>2, FreeTyped
<1>4. Pool(n, top) /\ n.scopes = m.scopes /\ n.cache = m.cache
  BY <1>2, HeapOnly, AlikePool DEF Alike
<1>5. \A w \in F : \E t \in DOMAIN m.heap[Source(m, v)].tails : w = m.heap[Source(m, v)].tails[t]
  BY DEF Range, TailsOf
<1>16. \A u \in m.left : u \notin F
  BY <1>2, <1>5, LeftOut DEF InTails
<1>6. \A u \in Address \ m.left : m.heap[u].live /\ u \notin F => m.heap[u].src \notin F
  <2>1. CASE F = {}
    BY <2>1
  <2>2. CASE v = GetVar(m, Len(m.scopes), "S.") /\ v # NoVar /\ IsExposed(m, v)
    BY <1>2, <2>2, ExposedTailSources
  <2> QED BY <2>1, <2>2
<1> HIDE DEF F, n
<1>7. \A i \in 1..Len(m.scopes), l \in Simple : GetVar(m, i, l) # NoVar => GetVar(m, i, l) \notin F
  BY <1>2, <1>5, EntryNoTail
<1>8. \A w \in F : w \in Vars /\ (m.heap[w].live => m.heap[w].key = Compound)
  BY <1>2, <1>5 DEF Forest, TailsOwn
<1>9. \A g \in Address : g \in F => \A t \in DOMAIN m.heap[g].tails : m.heap[g].tails[t] \in F
  BY <1>2, <1>8, Names DEF Forest, TailsOwn
<1>10. \A i, l : GetVar(n, i, l) = GetVar(m, i, l)
  BY <1>4 DEF GetVar
<1>11. Forest(n)
  <2> DEFINE E == Len(m.scopes)
  <2>1. E \in Nat /\ E = Len(n.scopes) /\ E <= Len(m.scopes)
    BY <1>2, <1>4
  <2>2. \A i \in 1..E, l \in Simple : GetVar(n, i, l) # NoVar => GetVar(n, i, l) \notin F
    BY <1>7, <1>10
  <2>3. \A i \in 1..Len(m.scopes), l \in Simple : GetVar(m, i, l) \notin F =>
           GetVar(m, i, l) = NoVar \/ (i <= E /\ GetVar(n, i, l) = GetVar(m, i, l))
    BY <1>2, <1>10
  <2>4. \A i \in 1..E, l \in Simple : \/ GetVar(n, i, l) = GetVar(m, i, l)
                                      \/ i = Len(m.scopes) /\ GetVar(n, i, l) = NoVar
    BY <1>10
  <2> HIDE DEF E
  <2>5. n.left = m.left
    BY <1>3
  <2>6. /\ \A u \in Address : u \notin F => n.heap[u] = m.heap[u]
        /\ \A u \in Address : u \in F => n.heap[u] = Dead
    BY <1>3
  <2>7. Frees(m, n, F, E)
    BY <1>6, <1>9, <1>16, <2>1, <2>2, <2>3, <2>4, <2>5, <2>6 DEF Frees
  <2> QED BY <1>2, <2>7, FreeForest
<1>12. Typed(n) /\ ~n.heap[NoVar].live /\ (m.bad => n.bad)
  BY <1>3, <1>8, Sorts DEF Sane
<1>13. Exposures(m, n)
  BY <1>3, <1>7, <1>10, EntryAddress DEF Exposures
<1>14. Len(n.scopes) \in 0..Len(m.scopes)
  BY <1>2, <1>4
<1>15. ASSUME Pointed(m) PROVE Pointed(n)
  <2> DEFINE E == Len(m.scopes)
  <2>1. E \in Nat /\ E = Len(n.scopes) /\ E <= Len(m.scopes)
    BY <1>2, <1>4
  <2>2. n.cache["rc"] = m.cache["rc"] /\ \A i \in 1..E : n.scopes[i].id = m.scopes[i].id
    BY <1>4
  <2>3. \A u \in Address : n.heap[u].live => m.heap[u].live \/ Unpointed(m, u)
    BY <1>3 DEF Dead
  <2>4. ASSUME NEW i \in 1..E, NEW l \in Simple, GetVar(m, i, l) # NoVar
        PROVE  GetVar(n, i, l) = GetVar(m, i, l) /\ Source(n, GetVar(m, i, l)) = Source(m, GetVar(m, i, l))
    BY <1>2, <1>3, <1>7, <1>10, <2>4, EntryAddress DEF Source
  <2>5. ASSUME NEW g \in Address, NEW t \in DOMAIN m.heap[g].tails
        PROVE  \/ ~n.heap[m.heap[g].tails[t]].live
               \/ t \in DOMAIN n.heap[g].tails /\ n.heap[g].tails[t] = m.heap[g].tails[t]
    <3>1. m.heap[g].tails[t] \in Address
      BY <1>2, TypedHeap
    <3>2. CASE g \in F
      BY <1>3, <1>9, <3>1, <3>2 DEF Dead
    <3>3. CASE g \notin F
      BY <1>3, <3>3
    <3> QED BY <3>2, <3>3
  <2>6. target.depth \in 1..Len(m.scopes) => target.depth <= E
    OBVIOUS
  <2> HIDE DEF E
  <2> QED BY <1>2, <1>15, <2>1, <2>2, <2>3, <2>4, <2>5, <2>6, StillPointed
<1> QED BY <1>1, <1>4, <1>11, <1>12, <1>13, <1>14, <1>15 DEF Shrinks, Fine

\* The last scope goes, with what it has.
LEMMA PopShrinks ==
  ASSUME Inv, Fine(mem), Sane(mem), popScope
  PROVE  Shrinks(mem, mem')
<1> DEFINE D == Len(mem.scopes)
<1> DEFINE vs == Range(mem.scopes[D].map) \ {NoVar}
<1> DEFINE F == UNION {Owned(mem, v) : v \in vs}
<1> DEFINE o == Free(mem, F)
<1> DEFINE n == [o EXCEPT !.scopes = SubSeq(@, 1, D - 1)]
<1>1. mem' = n /\ D > 1
  BY DEF popScope, Depth
<1>2. /\ DOMAIN mem = Fields /\ Typed(mem) /\ Forest(mem) /\ D \in 1..D /\ D \in Nat /\ Pool(mem, idMax)
  BY <1>1, PoolFields, EntryAddress DEF Fine, Inv
<1>3. /\ Typed(o) /\ DOMAIN o = Fields /\ o.left = mem.left
      /\ o.bad <=> mem.bad \/ \E u \in F : ~mem.heap[u].live
      /\ \A u \in Address : u \notin F => o.heap[u] = mem.heap[u]
      /\ \A u \in Address : u \in F => o.heap[u] = Dead
  BY <1>2, FreeTyped
<1>4. o.scopes = mem.scopes
  BY <1>2, HeapOnly DEF Alike
<1>0. o.cache = mem.cache
  BY <1>2, HeapOnly DEF Alike
<1> HIDE DEF o
<1>5. /\ n.heap = o.heap /\ n.bad = o.bad /\ n.scopes = SubSeq(mem.scopes, 1, D - 1)
      /\ n.cache = mem.cache /\ n.left = mem.left
  BY <1>0, <1>3, <1>4 DEF Fields
<1>6. Len(n.scopes) = D - 1 /\ \A i \in 1..D - 1 : n.scopes[i] = mem.scopes[i]
  <2>1. mem.scopes \in Seq(ScopeType(idMax)) /\ 1 \in 1..D + 1 /\ D - 1 \in 0..D
    BY <1>1, <1>2 DEF Pool
  <2>2. DOMAIN mem.scopes = 1..D
    BY <1>2, ScopesTyped
  <2>3. n.scopes = SubSeq(mem.scopes, 1, D - 1)
    BY <1>5
  <2> HIDE DEF n
  <2> QED BY <1>1, <1>2, <2>1, <2>2, <2>3
<1> HIDE DEF n
<1>7. \A i \in 1..D - 1, l \in Simple : GetVar(n, i, l) = GetVar(mem, i, l)
  BY <1>6 DEF GetVar
<1>8. \A v \in vs : \E k \in Simple : v = GetVar(mem, D, k) /\ v # NoVar
  <2>1. DOMAIN mem.scopes[D].map = Simple
    BY <1>2, ScopesTyped DEF ScopeType
  <2> QED BY <2>1 DEF Range, GetVar
<1>9. \A k \in Simple : GetVar(mem, D, k) # NoVar => GetVar(mem, D, k) \in vs
  <2>1. DOMAIN mem.scopes[D].map = Simple
    BY <1>2, ScopesTyped DEF ScopeType
  <2> QED BY <2>1 DEF Range, GetVar
<1>10. \A u : u \in F <=> \E v \in vs : u \in Owned(mem, v)
  OBVIOUS
<1> HIDE DEF F, vs, D
<1>11. \A i \in 1..D - 1, l \in Simple : GetVar(mem, i, l) # NoVar => GetVar(mem, i, l) \notin F
  <2> SUFFICES ASSUME NEW i \in 1..D - 1, NEW l \in Simple, GetVar(mem, i, l) # NoVar, GetVar(mem, i, l) \in F
               PROVE  FALSE
    OBVIOUS
  <2>1. PICK v \in vs : GetVar(mem, i, l) \in Owned(mem, v)
    BY <1>10
  <2>2. PICK k \in Simple : v = GetVar(mem, D, k) /\ v # NoVar
    BY <1>8
  <2>3. i \in 1..Len(mem.scopes) /\ D \in 1..Len(mem.scopes)
    BY <1>2 DEF D
  <2>4. i = D
    BY <1>2, <2>1, <2>2, <2>3, OwnedAlone
  <2> QED BY <1>2, <2>4
<1>12. \A g \in Address : g \in F => \A t \in DOMAIN mem.heap[g].tails : mem.heap[g].tails[t] \in F
  <2> SUFFICES ASSUME NEW g \in Address, g \in F, NEW t \in DOMAIN mem.heap[g].tails
               PROVE  mem.heap[g].tails[t] \in F
    OBVIOUS
  <2>1. PICK v \in vs : g \in Owned(mem, v)
    BY <1>10
  <2>2. PICK k \in Simple : v = GetVar(mem, D, k) /\ v # NoVar
    BY <1>8
  <2>3. D \in 1..Len(mem.scopes)
    BY <1>2 DEF D
  <2>4. mem.heap[g].tails[t] \in Owned(mem, v)
    BY <1>2, <2>1, <2>2, <2>3, OwnedAlone
  <2> QED BY <1>10, <2>4
<1>22. \A u \in mem.left : u \notin F
  <2> SUFFICES ASSUME NEW v \in vs PROVE \A u \in mem.left : u \notin Owned(mem, v)
    BY <1>10
  <2>1. D \in 1..Len(mem.scopes)
    BY <1>2 DEF D
  <2>2. InScopes(mem, v) /\ v \in Address
    BY <1>2, <1>8, <2>1, EntryAddress DEF InScopes
  <2> QED BY <1>2, <2>2, LeftNotOwned
<1>13. \A u \in Address \ mem.left : mem.heap[u].live /\ u \notin F => mem.heap[u].src \notin F
  <2> SUFFICES ASSUME NEW u \in Address \ mem.left, mem.heap[u].live, mem.heap[u].src \in F PROVE u \in F
    OBVIOUS
  <2>1. PICK v \in vs : mem.heap[u].src \in Owned(mem, v)
    BY <1>10
  <2>2. PICK k \in Simple : v = GetVar(mem, D, k) /\ v # NoVar
    BY <1>8
  <2>3. v = GetVar(mem, Len(mem.scopes), k) /\ Len(mem.scopes) >= 1
    BY <1>2, <2>2 DEF D
  <2>4. u \in Owned(mem, v)
    BY <1>2, <2>1, <2>2, <2>3, OwnedSources
  <2> QED BY <1>10, <2>4
<1>14. \A v \in vs : v \in F /\ NoVar \notin F
  <2> SUFFICES ASSUME NEW v \in vs PROVE v \in F /\ NoVar \notin F
    OBVIOUS
  <2>1. D \in 1..Len(mem.scopes)
    BY <1>2 DEF D
  <2>2. \A u \in vs : u \in Owned(mem, u) /\ NoVar \notin Owned(mem, u)
    BY <1>2, <1>8, <2>1, OwnedAlone
  <2> QED BY <1>10, <2>2
<1>15. \A u \in Address : (u \notin F => n.heap[u] = mem.heap[u]) /\ (u \in F => n.heap[u] = Dead)
  BY <1>3, <1>5
<1>16. NoVar \notin F
  BY <1>10, <1>14
<1>17. Forest(n)
  <2> DEFINE E == D - 1
  <2>1. E \in Nat /\ E = Len(n.scopes) /\ E <= Len(mem.scopes)
    BY <1>1, <1>2, <1>6 DEF D
  <2>2. \A i \in 1..E, l \in Simple : GetVar(n, i, l) # NoVar => GetVar(n, i, l) \notin F
    BY <1>7, <1>11
  <2>3. \A i \in 1..Len(mem.scopes), l \in Simple : GetVar(mem, i, l) \notin F =>
           GetVar(mem, i, l) = NoVar \/ (i <= E /\ GetVar(n, i, l) = GetVar(mem, i, l))
    <3> SUFFICES ASSUME NEW i \in 1..Len(mem.scopes), NEW l \in Simple, GetVar(mem, i, l) \notin F,
                        GetVar(mem, i, l) # NoVar
                 PROVE  i <= E /\ GetVar(n, i, l) = GetVar(mem, i, l)
      OBVIOUS
    <3>1. i # D
      BY <1>9, <1>14
    <3>2. i \in 1..D - 1
      BY <1>1, <1>2, <3>1 DEF D
    <3> QED BY <1>7, <3>2
  <2>4. \A i \in 1..E, l \in Simple : \/ GetVar(n, i, l) = GetVar(mem, i, l)
                                      \/ i = Len(mem.scopes) /\ GetVar(n, i, l) = NoVar
    BY <1>7
  <2> HIDE DEF E
  <2>5. n.left = mem.left
    BY <1>5
  <2>6. Frees(mem, n, F, E)
    BY <1>12, <1>13, <1>15, <1>22, <2>1, <2>2, <2>3, <2>4, <2>5 DEF Frees
  <2> QED BY <1>2, <2>6, FreeForest
<1>18. Typed(n) /\ ~n.heap[NoVar].live /\ (mem.bad => n.bad)
  BY <1>3, <1>5, <1>15, <1>16, Sorts DEF Typed, Sane
<1>19. Exposures(mem, n)
  <2> SUFFICES ASSUME NEW i \in 1..Len(mem.scopes), NEW l \in Simple, GetVar(mem, i, l) # NoVar,
                      i <= Len(n.scopes)
               PROVE  GetVar(n, i, l) = GetVar(mem, i, l) /\ n.heap[GetVar(mem, i, l)] = mem.heap[GetVar(mem, i, l)]
    BY DEF Exposures
  <2>1. i \in 1..D - 1
    BY <1>1, <1>2, <1>6
  <2>2. GetVar(mem, i, l) \notin F /\ GetVar(mem, i, l) \in Address
    BY <1>2, <1>11, <2>1, EntryAddress
  <2> QED BY <1>7, <1>15, <2>1, <2>2
<1>20. Len(n.scopes) \in 0..Len(mem.scopes)
  BY <1>1, <1>2, <1>6 DEF D
<1>21. ASSUME Pointed(mem) PROVE Pointed(n)
  <2> DEFINE E == D - 1
  <2>1. E \in Nat /\ E = Len(n.scopes) /\ E <= Len(mem.scopes)
    BY <1>1, <1>2, <1>6 DEF D
  <2>2. n.cache["rc"] = mem.cache["rc"] /\ \A i \in 1..E : n.scopes[i].id = mem.scopes[i].id
    BY <1>5, <1>6
  <2>3. \A u \in Address : n.heap[u].live => mem.heap[u].live \/ Unpointed(mem, u)
    BY <1>15 DEF Dead
  <2>4. ASSUME NEW i \in 1..E, NEW l \in Simple, GetVar(mem, i, l) # NoVar
        PROVE  GetVar(n, i, l) = GetVar(mem, i, l)
               /\ Source(n, GetVar(mem, i, l)) = Source(mem, GetVar(mem, i, l))
    <3>1. GetVar(mem, i, l) \notin F /\ GetVar(n, i, l) = GetVar(mem, i, l)
      BY <1>7, <1>11, <2>4
    <3>2. i \in 1..Len(mem.scopes)
      BY <1>2, <2>1
    <3>3. GetVar(mem, i, l) \in Address
      BY <1>2, <3>2, EntryAddress
    <3> QED BY <1>15, <3>1, <3>3 DEF Source
  <2>5. ASSUME NEW g \in Address, NEW t \in DOMAIN mem.heap[g].tails
        PROVE  \/ ~n.heap[mem.heap[g].tails[t]].live
               \/ t \in DOMAIN n.heap[g].tails /\ n.heap[g].tails[t] = mem.heap[g].tails[t]
    <3>1. mem.heap[g].tails[t] \in Address
      BY <1>2, TypedHeap
    <3>2. CASE g \in F
      BY <1>12, <1>15, <3>1, <3>2 DEF Dead
    <3>3. CASE g \notin F
      BY <1>15, <3>3
    <3> QED BY <3>2, <3>3
  <2>6. target.depth \in 1..Len(mem.scopes) => target.depth <= E
    <3>1. target.depth < Len(mem.scopes)
      BY DEF popScope, Depth
    <3> QED BY <1>2, <3>1 DEF D
  <2> HIDE DEF E
  <2> QED BY <1>2, <1>21, <2>1, <2>2, <2>3, <2>4, <2>5, <2>6, StillPointed
<1> QED BY <1>1, <1>17, <1>18, <1>19, <1>20, <1>21 DEF Shrinks, Fine

LEMMA GrowsShrinks ==
  ASSUME NEW m, NEW top, Pool(m, top), Fine(m), NEW n, Grows(m, n), ~n.heap[NoVar].live
  PROVE  Shrinks(m, n)
<1>1. Len(n.scopes) = Len(m.scopes) /\ Len(m.scopes) \in Nat /\ (m.bad => n.bad) /\ Fine(n)
  BY EntryAddress DEF Grows, Adds
<1>2. Exposures(m, n)
  <2> SUFFICES ASSUME Sane(n), NEW i \in 1..Len(m.scopes), NEW k \in Simple, NEW v, v = GetVar(m, i, k),
                      v # NoVar, IsExposed(m, v)
               PROVE  GetVar(n, i, k) = v /\ n.heap[v] = m.heap[v]
    BY DEF Exposures
  <2>1. Sane(m)
    BY AddsSane DEF Grows
  <2>2. m.heap[v].live /\ v \in Address
    BY <2>1, EntryAddress DEF Fine, Forest, EntriesLive
  <2> QED BY <2>2 DEF Grows, Adds, IsExposed, Source
<1>3. Sane(n) /\ Pointed(m) => Pointed(n)
  BY DEF Grows, Adds
<1> QED BY <1>1, <1>2, <1>3 DEF Shrinks

LEMMA ShrinksTwice ==
  ASSUME NEW m, NEW n, NEW o, Shrinks(m, n), Shrinks(n, o), Len(m.scopes) \in Nat
  PROVE  Shrinks(m, o)
<1>1. Len(n.scopes) \in 0..Len(m.scopes) /\ Len(o.scopes) \in 0..Len(n.scopes)
  BY DEF Shrinks
<1>2. Len(o.scopes) \in 0..Len(m.scopes)
  BY <1>1
<1>3. Exposures(m, o)
  <2> SUFFICES ASSUME Sane(o), NEW i \in 1..Len(m.scopes), NEW k \in Simple, NEW v, v = GetVar(m, i, k),
                      v # NoVar, IsExposed(m, v), i <= Len(o.scopes)
               PROVE  GetVar(o, i, k) = v /\ o.heap[v] = m.heap[v]
    BY DEF Exposures
  <2>1. Sane(n)
    BY DEF Shrinks, Sane
  <2>2. i <= Len(n.scopes) /\ i \in 1..Len(n.scopes)
    BY <1>1
  <2>3. GetVar(n, i, k) = v /\ n.heap[v] = m.heap[v]
    BY <2>1, <2>2 DEF Shrinks, Exposures
  <2>4. IsExposed(n, v)
    BY <2>3 DEF IsExposed, Source
  <2> QED BY <2>2, <2>3, <2>4 DEF Shrinks, Exposures
<1>4. Sane(o) => Sane(n)
  BY DEF Shrinks, Sane
<1>5. Sane(o) /\ Pointed(m) => Pointed(o)
  BY <1>4 DEF Shrinks
<1> QED BY <1>2, <1>3, <1>5 DEF Shrinks

\* Only the heap, the scopes, bad and the cache of the handler's own RC count.
LEMMA UncacheShrinks ==
  ASSUME NEW m, NEW n, DOMAIN n = Fields, Shrinks(m, n), NEW sym \in Simple
  PROVE  Shrinks(m, Uncache(n, sym))
<1> DEFINE o == Uncache(n, sym)
<1>1. o.heap = n.heap /\ o.scopes = n.scopes /\ o.bad = n.bad /\ o.left = n.left
  BY DEF Uncache, Fields
<1>0. o.cache["rc"] = n.cache["rc"]
  <2>1. o.cache = [n.cache EXCEPT ![sym] = NoCache] /\ sym # "rc"
    BY DEF Uncache, Fields, Simple
  <2> QED BY <2>1
<1> HIDE DEF o
<1>2. \A i, k : GetVar(o, i, k) = GetVar(n, i, k)
  BY <1>1 DEF GetVar
<1>3. \A v : Source(o, v) = Source(n, v) /\ (IsExposed(o, v) <=> IsExposed(n, v))
  BY <1>1 DEF Source, IsExposed
<1>4. \A i, v : TailIn(o, i, v) <=> TailIn(n, i, v)
  BY <1>1, <1>2 DEF TailIn
<1>5. ASSUME Forest(n) PROVE Forest(o)
  <2>1. EntriesLive(o) /\ EntriesApart(o)
    BY <1>1, <1>2, <1>5 DEF Forest, EntriesLive, EntriesApart
  <2>2. TailsOwn(o) /\ TailsApart(o)
    BY <1>1, <1>5 DEF Forest, TailsOwn, TailsApart
  <2>3. AllOwned(o) /\ LeftApart(o)
    BY <1>1, <1>2, <1>5 DEF Forest, AllOwned, LeftApart, InScopes, InTails
  <2>4. SourcesAlive(o)
    BY <1>1, <1>3, <1>5 DEF Forest, SourcesAlive
  <2>5. EntriesExposed(o) /\ TailsExposed(o)
    BY <1>1, <1>2, <1>3, <1>4, <1>5 DEF Forest, EntriesExposed, TailsExposed
  <2> QED BY <2>1, <2>2, <2>3, <2>4, <2>5 DEF Forest
<1>6. Fine(o)
  BY <1>1, <1>5 DEF Shrinks, Fine, Typed, Sane
<1>7. Exposures(m, o)
  BY <1>1, <1>2 DEF Shrinks, Exposures, Sane
<1>8. Pointed(n) => Pointed(o)
  BY <1>0, <1>1, SameRc, SamePointed
<1>9. Sane(o) => Sane(n)
  BY <1>1 DEF Sane
<1>10. Shrinks(m, o)
  BY <1>1, <1>6, <1>7, <1>8, <1>9 DEF Shrinks
<1> QED BY <1>10 DEF o

LEMMA LiveUsable ==
  ASSUME NEW m, Sane(m), Forest(m), NEW v \in Address, m.heap[v].live, v \notin m.left
  PROVE  Usable(m, v) /\ m.heap[Source(m, v)].key = m.heap[v].key /\ m.heap[Source(m, v)].live
BY DEF Forest, SourcesAlive, Usable

\* DROP of an exposed variable, the last scope's or a tail: the name, then the tails.
LEMMA ClearExposed ==
  ASSUME NEW m, NEW top, Pool(m, top), Fine(m), Sane(m), Len(m.scopes) >= 1,
         NEW v \in Address, m.heap[v].live, v \notin m.left, IsExposed(m, v),
         v = GetVar(m, Len(m.scopes), "S.") \/ m.heap[v].key # "S.",
         NEW x, x \in Values \/ m.heap[v].key # "RC"
  PROVE  Shrinks(m, ClearTail(m, v)) /\ Shrinks(m, ClearTail(SetValue(m, v, x), v))
<1> DEFINE g == Source(m, v)
<1> DEFINE n == SetValue(m, v, x)
<1>1. DOMAIN m = Fields /\ Typed(m) /\ Forest(m) /\ Len(m.scopes) \in Nat /\ v # NoVar /\ g \in Address
  BY PoolFields, EntryAddress, TypedHeap DEF Fine, Sane
<1>2. Usable(m, v) /\ m.heap[g].key = m.heap[v].key /\ m.heap[g].live
  BY <1>1, LiveUsable
<1>3. m.heap[v].key # "S." => Range(TailsOf(m, v)) = {}
  BY <1>1, <1>2, NoTailsOf DEF TailsOf
<1>4. Shrinks(m, ClearTail(m, v))
  BY <1>1, <1>3, ClearShrinks
<1>5. x \in Values \/ m.heap[Source(m, v)].key # "RC"
  BY <1>2
<1>6. /\ Grows(m, n) /\ Pool(n, top) /\ n.scopes = m.scopes
      /\ \A u \in Address : n.heap[u].live = m.heap[u].live
  BY <1>5, SetValueGrows
<1>7. /\ n.bad <=> m.bad \/ ~Usable(m, v)
      /\ n.heap[v].src = m.heap[v].src /\ n.heap[g].tails = m.heap[g].tails
  BY <1>1, <1>5, SetValueTyped
<1> HIDE DEF n
<1>8. Sane(n) /\ Fine(n) /\ ~n.heap[NoVar].live
  BY <1>2, <1>6, <1>7, Sorts DEF Sane, Grows
<1>9. TailsOf(n, v) = TailsOf(m, v) /\ (IsExposed(n, v) <=> IsExposed(m, v))
      /\ GetVar(n, Len(n.scopes), "S.") = GetVar(m, Len(m.scopes), "S.")
  BY <1>6, <1>7 DEF TailsOf, IsExposed, Source, GetVar
<1>10. Shrinks(n, ClearTail(n, v))
  <2>1. \/ v = GetVar(n, Len(n.scopes), "S.") /\ v # NoVar /\ IsExposed(n, v)
        \/ Range(TailsOf(n, v)) = {}
    BY <1>1, <1>3, <1>9
  <2> QED BY <1>6, <1>8, <2>1, ClearShrinks
<1>11. Shrinks(m, n)
  BY <1>6, <1>8, GrowsShrinks
<1> QED BY <1>1, <1>4, <1>10, <1>11, ShrinksTwice DEF n

\* DROP of the variable r that was found.
LEMMA DroppedShrinks ==
  ASSUME NEW m, NEW top, NEW r, Pool(r.m, top), Fine(r.m), Sane(r.m), NEW D, D = Len(r.m.scopes), D >= 1,
         NEW sym \in Symbols, r.var \in Address, r.var # NoVar, r.var \notin r.m.left,
         sym # Compound => r.var = GetVar(r.m, D, sym)
  PROVE  Shrinks(r.m, Dropped(r, D, sym)) /\ DOMAIN Dropped(r, D, sym) = Fields
<1> DEFINE n == r.m
<1> DEFINE v == r.var
<1>1. Forest(n) /\ D \in 1..Len(n.scopes) /\ Len(n.scopes) \in Nat /\ DOMAIN n = Fields
  BY EntryAddress, PoolFields DEF Fine
<1>0. DOMAIN SetValue(n, v, Null) = Fields
      /\ \A o, x : DOMAIN o = Fields => DOMAIN ClearTail(o, v) = Fields /\ DOMAIN SetValue(o, v, x) = Fields
  BY <1>1, HeapOnly DEF Alike
<1>2. CASE sym = Compound
  <2>1. Dropped(r, D, sym) = SetValue(n, v, Null)
    BY <1>2 DEF Dropped
  <2>2. /\ Grows(n, SetValue(n, v, Null))
        /\ \A u \in Address : SetValue(n, v, Null).heap[u].live = n.heap[u].live
    BY SetValueGrows, Sorts
  <2>3. ~SetValue(n, v, Null).heap[NoVar].live
    BY <2>2, Sorts DEF Sane
  <2> QED BY <1>0, <2>1, <2>2, <2>3, GrowsShrinks
<1>3. CASE sym # Compound
  <2>1. sym \in Simple /\ Key(sym) = sym /\ v = GetVar(n, D, sym)
    BY <1>3, Names DEF Symbols
  <2>2. n.heap[v].live /\ n.heap[v].key = sym
    BY <1>1, <2>1 DEF Forest, EntriesLive
  <2>3. CASE ~IsExposed(n, v)
    <3>1. Dropped(r, D, sym) = RemoveVar(n, D, sym)
      BY <1>3, <2>1, <2>3 DEF Dropped
    <3> QED BY <2>1, <2>3, <3>1, RemoveShrinks
  <2>4. CASE IsExposed(n, v)
    <3>1. \/ Dropped(r, D, sym) = ClearTail(n, v)
          \/ Dropped(r, D, sym) = ClearTail(SetValue(n, v, sym), v)
      BY <1>3, <2>1, <2>4 DEF Dropped
    <3>2. v = GetVar(n, Len(n.scopes), "S.") \/ n.heap[v].key # "S."
      BY <2>1, <2>2
    <3>3. sym \in Values \/ n.heap[v].key # "RC"
      BY <2>2, Sorts
    <3>4. DOMAIN Dropped(r, D, sym) = Fields
      BY <1>0, <1>1, <3>1
    <3>5. Len(n.scopes) >= 1 /\ v \notin n.left /\ Fine(n) /\ Sane(n) /\ Pool(n, top) /\ v \in Address
      OBVIOUS
    <3>6. Shrinks(n, ClearTail(n, v)) /\ Shrinks(n, ClearTail(SetValue(n, v, sym), v))
      <4> HIDE DEF n, v
      <4> QED BY <2>2, <2>4, <3>2, <3>3, <3>5, ClearExposed
    <3> QED BY <3>1, <3>4, <3>6
  <2> QED BY <2>3, <2>4
<1> QED BY <1>2, <1>3

LEMMA DropShrinks ==
  ASSUME Inv, Fine(mem), Fits(mem), NEW sym \in Symbols, dropVar(sym)
  PROVE  Shrinks(mem, mem')
<1> DEFINE r == CachedOr(mem, Depth, sym, Get(mem, Depth, sym))
<1> DEFINE n == IF r.var = NoVar \/ r.m.bad THEN r.m ELSE Dropped(r, Depth, sym)
<1>1. Located(mem, Depth, sym, Get(mem, Depth, sym))
  BY DepthIsScope, GetLocated, Names DEF Inv, Symbols, Fine
<1>2. Located(mem, Depth, sym, r)
  BY <1>1, DepthIsScope, CachedLocated DEF Inv, Fine
<1>3. Reached(mem, idMax, Depth, Get(mem, Depth, sym).m)
  BY DepthIsScope, GetKeeps, SearchedReached, Names DEF Inv, Symbols
<1>4. Pool(r.m, idMax) /\ Kept(mem, idMax, r.m)
  BY <1>3, CachedOrReached, ReachedKept DEF Inv, Kept
<1>5. mem' = IF sym = Compound THEN n ELSE Uncache(n, sym)
  BY DEF dropVar
<1> HIDE DEF r
<1>6. Fine(r.m) /\ Adds(mem, r.m) /\ r.m.heap = mem.heap /\ r.m.scopes = mem.scopes /\ r.var \in Address
  BY <1>2, LocatedFine DEF Inv, Located
<1>7. Shrinks(mem, r.m)
  BY <1>6, GrowsShrinks DEF Inv, Grows, Fits
<1>8. Shrinks(mem, n) /\ DOMAIN n = Fields
  <2>1. CASE r.var = NoVar \/ r.m.bad
    BY <1>4, <1>7, <2>1, PoolFields
  <2>2. CASE r.var # NoVar /\ ~r.m.bad
    <3>1. n = Dropped(r, Depth, sym)
      BY <2>2
    <3>2. Sane(r.m)
      BY <1>6, <2>2 DEF Sane, Fits
    <3>3. sym # Compound => r.var = GetVar(r.m, Depth, sym)
      <4>1. ASSUME sym # Compound PROVE sym \in Cached /\ Key(sym) = sym
        BY <4>1, Names DEF Symbols
      <4> QED BY <1>2, <1>6, <4>1 DEF Located, GetVar
    <3>4. Depth = Len(r.m.scopes) /\ Depth >= 1 /\ Len(mem.scopes) \in Nat
      BY <1>6, EntryAddress DEF Depth, Inv
    <3>7. r.var \notin r.m.left
      <4>1. sym \in Cached \union {Compound}
        BY Names DEF Symbols
      <4> QED BY <1>2, <3>2, <4>1, DepthIsScope, LocatedApart DEF Inv
    <3>5. Shrinks(r.m, Dropped(r, Depth, sym)) /\ DOMAIN Dropped(r, Depth, sym) = Fields
      BY <1>4, <1>6, <2>2, <3>2, <3>3, <3>4, <3>7, DroppedShrinks
    <3>6. Shrinks(mem, n)
      BY <1>7, <3>1, <3>4, <3>5, ShrinksTwice
    <3> QED BY <3>1, <3>5, <3>6
  <2> QED BY <2>1, <2>2
<1> HIDE DEF n
<1>9. CASE sym = Compound
  BY <1>5, <1>8, <1>9
<1>10. CASE sym # Compound
  <2>1. mem' = Uncache(n, sym) /\ sym \in Simple
    BY <1>5, <1>10 DEF Symbols
  <2> QED BY <1>8, <2>1, UncacheShrinks
<1> QED BY <1>9, <1>10

LEMMA DropIndirectShrinks ==
  ASSUME Inv, Fine(mem), Fits(mem), NEW k \in Symbols, dropIndirect(k)
  PROVE  Shrinks(mem, mem')
<1> DEFINE r == Find(mem, Depth, k)
<1> DEFINE n == r.m
<1> DEFINE v == r.var
<1>1. Located(mem, Depth, k, r)
  BY DepthIsScope, FindLocated DEF Inv, Fine
<1>2. Pool(n, idMax)
  BY DepthIsScope, FindKeeps DEF Inv, Symbols, Searched
<1>3. mem' = IF v = NoVar \/ n.bad THEN n
             ELSE IF IsExposed(n, v) THEN ClearTail(SetValue(n, v, k), v)
             ELSE IF k = Compound THEN SetValue(n, v, Null)
             ELSE Uncache(RemoveVar(n, Depth, k), k)
  BY DEF dropIndirect, Uncached
<1> HIDE DEF r
<1>4. Fine(n) /\ Adds(mem, n) /\ n.heap = mem.heap /\ n.scopes = mem.scopes /\ v \in Address
  BY <1>1, LocatedFine DEF Inv, Located
<1>5. Shrinks(mem, n)
  BY <1>4, GrowsShrinks DEF Inv, Grows, Fits
<1>6. Len(mem.scopes) \in Nat /\ Depth = Len(n.scopes) /\ Depth >= 1
  BY <1>4, EntryAddress DEF Inv, Depth
<1>7. CASE v = NoVar \/ n.bad
  BY <1>3, <1>5, <1>7
<1>8. CASE v # NoVar /\ ~n.bad
  <2>1. Sane(n) /\ Forest(n)
    BY <1>4, <1>8 DEF Sane, Fits, Fine
  <2>7. v \notin n.left
    <3>1. k \in Cached \union {Compound}
      BY Names DEF Symbols
    <3> QED BY <1>1, <2>1, <3>1, DepthIsScope, LocatedApart DEF Inv
  <2>2. k # Compound => v = GetVar(n, Depth, k) /\ k \in Simple
    <3>1. k # Compound => k \in Cached /\ Key(k) = k /\ k \in Simple
      BY Names DEF Symbols
    <3> QED BY <1>1, <1>4, <3>1 DEF Located, GetVar
  <2>3. /\ n.heap[v].live
        /\ v = GetVar(n, Len(n.scopes), "S.") \/ n.heap[v].key # "S."
        /\ k \in Values \/ n.heap[v].key # "RC"
    <3>1. CASE k # Compound
      <4>1. n.heap[v].live /\ n.heap[v].key = k
        BY <1>6, <1>8, <2>1, <2>2, <3>1 DEF Forest, EntriesLive
      <4> QED BY <1>6, <2>2, <3>1, <4>1, Sorts
    <3>2. CASE k = Compound /\ r.found
      <4>1. r.tail \in DOMAIN n.heap[Source(n, GetVar(n, Depth, "S."))].tails
            /\ v = n.heap[Source(n, GetVar(n, Depth, "S."))].tails[r.tail] /\ Usable(n, v)
        BY <1>1, <1>4, <1>8, <3>2 DEF Located, TailFound, Source, GetVar, Usable
      <4>2. GetVar(n, Depth, "S.") \in Address
        BY <1>2, <1>6, EntryAddress, Sorts
      <4>3. Source(n, GetVar(n, Depth, "S.")) \in Address
        BY <1>4, <4>2, TypedHeap DEF Fine
      <4>4. n.heap[v].live /\ n.heap[v].key = Compound
        <5>1. TailsOwn(n)
          BY <2>1 DEF Forest
        <5>2. PICK g \in Address : g = Source(n, GetVar(n, Depth, "S."))
          BY <4>3
        <5>3. PICK t \in DOMAIN n.heap[g].tails : v = n.heap[g].tails[t]
          BY <4>1, <5>2
        <5>4. n.heap[v].live => n.heap[v].key = Compound
          BY <5>1, <5>3 DEF TailsOwn
        <5>5. QED BY <4>1, <5>4 DEF Usable
      <4> QED BY <4>4, Sorts
    <3>3. CASE k = Compound /\ ~r.found
      <4>1. v = GetVar(n, Depth, "S.")
        BY <1>1, <1>4, <3>3 DEF Located, TailFound, GetVar
      <4>2. n.heap[v].live /\ n.heap[v].key = "S."
        BY <1>6, <1>8, <2>1, <4>1, Sorts DEF Forest, EntriesLive
      <4> QED BY <1>6, <4>1, <4>2, Sorts
    <3> QED BY <3>1, <3>2, <3>3
  <2>4. CASE IsExposed(n, v)
    <3>1. mem' = ClearTail(SetValue(n, v, k), v)
      BY <1>3, <1>8, <2>4
    <3>2. Shrinks(n, mem')
      BY <1>2, <1>4, <1>6, <2>1, <2>3, <2>4, <2>7, <3>1, ClearExposed
    <3> QED BY <1>5, <1>6, <3>2, ShrinksTwice
  <2>5. CASE ~IsExposed(n, v) /\ k = Compound
    <3>1. mem' = SetValue(n, v, Null)
      BY <1>3, <1>8, <2>5
    <3>2. Grows(n, mem') /\ \A u \in Address : mem'.heap[u].live = n.heap[u].live
      BY <1>2, <1>4, <2>7, <3>1, SetValueGrows, Sorts
    <3>3. Grows(mem, mem') /\ ~mem'.heap[NoVar].live
      BY <1>4, <2>1, <3>2, GrowsTwice, Sorts DEF Grows, Sane
    <3> QED BY <3>3, GrowsShrinks DEF Inv
  <2>6. CASE ~IsExposed(n, v) /\ k # Compound
    <3>1. mem' = Uncache(RemoveVar(n, Depth, k), k)
      BY <1>3, <1>8, <2>6
    <3>2. Shrinks(n, RemoveVar(n, Depth, k)) /\ DOMAIN RemoveVar(n, Depth, k) = Fields
      BY <1>2, <1>4, <1>6, <1>8, <2>1, <2>2, <2>6, RemoveShrinks
    <3>3. Shrinks(n, mem')
      BY <2>2, <2>6, <3>1, <3>2, UncacheShrinks
    <3> QED BY <1>5, <1>6, <3>3, ShrinksTwice
  <2> QED BY <2>4, <2>5, <2>6
<1> QED BY <1>7, <1>8

-----------------------------------------------------------------------------
(***************************************************************************)
(* PROCEDURE.                                                              *)
(***************************************************************************)
\* What is to be exposed is found in the previous scope, or created there with its name
\* for value.
NamedIn(m, d, sym, r) ==
  LET a == Access(m, d, sym)
  IN  r = IF a.found THEN a ELSE [a EXCEPT !.m = SetValue(a.m, a.var, sym)]

\* What is known of the variable that a name finds or makes in the scope d.
NamedGrown(m, top, d, sym, r) ==
  /\ Grows(m, r.m) /\ Pool(r.m, top) /\ DOMAIN r = ResultFields
  /\ r.var \in Address /\ r.tail \in Tails
  /\ \A i \in 1..Len(m.scopes) : i # d => \A l \in Simple : GetVar(r.m, i, l) = GetVar(m, i, l)
  /\ Sane(r.m) =>
       /\ r.var # NoVar /\ r.m.heap[r.var].live
       /\ sym # Compound => r.var = GetVar(r.m, d, sym)
       /\ sym = Compound =>
            LET st == GetVar(r.m, d, "S.")
                ts == r.m.heap[Source(r.m, st)].tails
            IN  st # NoVar /\ r.tail \in DOMAIN ts /\ r.var = ts[r.tail]

LEMMA NamedGrows ==
  ASSUME NEW m, NEW top, Pool(m, top), Fine(m), NEW d \in 1..Len(m.scopes), NEW sym \in Symbols,
         NEW r, NamedIn(m, d, sym, r)
  PROVE  NamedGrown(m, top, d, sym, r)
<1> DEFINE a == Access(m, d, sym)
<1> DEFINE v == SetValue(a.m, a.var, sym)
<1>0. sym \in Cached \union {Compound} /\ (sym # Compound => Key(sym) = sym)
  BY Names DEF Symbols
<1>1. Made(m, d, sym, a)
  BY <1>0, AccessMade
<1>2. Reached(m, top, d, a.m)
  BY <1>0, AccessKeeps
<1>3. DOMAIN a = ResultFields
  BY ResultsHaveFields
<1>4. r = IF a.found THEN a ELSE [a EXCEPT !.m = v]
  BY DEF NamedIn
<1>5. Pool(a.m, top) /\ Grows(m, a.m)
      /\ \A i \in 1..Len(m.scopes) : i # d => \A l \in Simple : GetVar(a.m, i, l) = GetVar(m, i, l)
  BY <1>1, <1>2, GrownElsewhere DEF Made, Grows, Reached
<1>6. /\ a.var \in Address /\ a.tail \in Tails
      /\ Sane(a.m) =>
           /\ a.var # NoVar /\ a.m.heap[a.var].live
           /\ sym # Compound => a.var = GetVar(a.m, d, sym)
           /\ sym = Compound =>
                LET st == GetVar(a.m, d, "S.")
                    ts == a.m.heap[Source(a.m, st)].tails
                IN  st # NoVar /\ a.tail \in DOMAIN ts /\ a.var = ts[a.tail]
  BY <1>0, <1>1 DEF Made
<1>7. CASE a.found
  <2>1. r = a
    BY <1>4, <1>7
  <2> QED BY <1>3, <1>5, <1>6, <2>1 DEF NamedGrown
<1>8. CASE ~a.found
  <2>1. r = [a EXCEPT !.m = v]
    BY <1>4, <1>8
  <2>2. sym \in Values \/ a.m.heap[Source(a.m, a.var)].key # "RC"
    <3>1. a.m.heap[a.var].src = a.var /\ a.m.heap[a.var].key = sym
      BY <1>0, <1>1, <1>8 DEF Made
    <3> QED BY <3>1, Sorts DEF Source
  <2>13. ASSUME Sane(a.m) PROVE a.var \notin a.m.left
    BY <1>0, <1>1, <1>5, <2>13, MadeApart, ZenonT(40)
  <2>3. /\ Grows(a.m, v) /\ Pool(v, top) /\ v.scopes = a.m.scopes
    BY <1>5, <1>6, <2>2, <2>13, SetValueGrows DEF Grows
  <2>4. \A u \in Address : /\ v.heap[u].live = a.m.heap[u].live /\ v.heap[u].src = a.m.heap[u].src
                           /\ v.heap[u].tails = a.m.heap[u].tails
    BY <1>5, <1>6, <2>2, PoolFields, SetValueTyped DEF Grows, Fine
  <2> HIDE DEF a, v
  <2>5. r.m = v /\ r.var = a.var /\ r.tail = a.tail /\ DOMAIN r = ResultFields
    BY <1>3, <2>1 DEF ResultFields
  <2>6. Grows(m, v)
    BY <1>5, <2>3, GrowsTwice
  <2>7. \A i, l : GetVar(v, i, l) = GetVar(a.m, i, l)
    BY <2>3 DEF GetVar
  <2>8. GetVar(a.m, d, "S.") \in Address /\ d \in 1..Len(a.m.scopes)
    BY <1>5, EntryAddress, Sorts DEF Grows, Adds
  <2>9. Source(a.m, GetVar(a.m, d, "S.")) \in Address
    BY <1>5, <2>8, TypedHeap DEF Grows, Fine
  <2>10. Sane(v) => Sane(a.m)
    BY <2>3, AddsSane DEF Grows
  <2>11. Source(v, GetVar(v, d, "S.")) = Source(a.m, GetVar(a.m, d, "S."))
    BY <2>4, <2>7, <2>8 DEF Source
  <2>12. Sane(v) =>
           /\ a.var # NoVar /\ v.heap[a.var].live
           /\ sym # Compound => a.var = GetVar(v, d, sym)
           /\ sym = Compound =>
                LET st == GetVar(v, d, "S.")
                    ts == v.heap[Source(v, st)].tails
                IN  st # NoVar /\ a.tail \in DOMAIN ts /\ a.var = ts[a.tail]
    BY <1>6, <2>4, <2>7, <2>9, <2>10, <2>11
  <2> QED BY <1>5, <1>6, <2>3, <2>5, <2>6, <2>7, <2>12 DEF NamedGrown
<1> QED BY <1>7, <1>8

\* The entry of the new scope exposes the source of the variable r of the scope below.
LEMMA ExposedSimpleGrows ==
  ASSUME NEW r, NEW top, Pool(r.m, top), Fine(r.m), NEW d \in 2..Len(r.m.scopes), NEW k \in Simple,
         GetVar(r.m, d, k) = NoVar, r.var \in Address,
         Sane(r.m) => r.var # NoVar /\ r.var = GetVar(r.m, d - 1, k)
  PROVE  LET n == ExposedSimple(r.m, d, k, ExposedSource(r.m, r.var))
         IN  Grows(r.m, n)
<1> DEFINE m == r.m
<1> DEFINE s == Source(m, r.var)
<1> DEFINE w == NewAddr(m)
<1> DEFINE n == PutVar(New(m, w, k, s), d, k, w)
<1>1. ExposedSimple(m, d, k, ExposedSource(m, r.var)) = n
  BY DEF ExposedSimple, ExposedSource
<1>2. s \in Address /\ w \in Address /\ d \in 1..Len(m.scopes) /\ d > 1
  BY TypedHeap, NewAddrIsAddress DEF Fine
<1> HIDE DEF w, n
<1>3. Sane(m) => d > 1 /\ GetVar(m, d - 1, k) # NoVar /\ s = Source(m, GetVar(m, d - 1, k))
  BY <1>2
<1>4. /\ Fine(n) /\ Adds(m, n)
  BY <1>2, <1>3, EntryAdded DEF w, n
<1> QED BY <1>1, <1>4 DEF Grows

\* The new scope's own stem, made if there is none, gets a tail that exposes the tail u,
\* or has that tail already, and then a variable is left out.
LEMMA NewStemTail ==
  ASSUME NEW q, NEW top, Pool(q.m, top), Fine(q.m), NEW d \in 2..Len(q.m.scopes),
         DOMAIN q = ResultFields, q.var = GetVar(q.m, d, "S."), q.tail \in Tails, NEW u \in Address,
         NEW st, st = GetVar(q.m, d - 1, "S."),
         Sane(q.m) => /\ q.var # NoVar => ~IsExposed(q.m, q.var)
                      /\ st # NoVar /\ q.m.heap[u].live
                      /\ q.tail \in DOMAIN q.m.heap[Source(q.m, st)].tails
                      /\ u = q.m.heap[Source(q.m, st)].tails[q.tail]
  PROVE  LET s == CreateStem(q, d)
             w == NewAddr(s.m)
         IN  Grows(q.m, PutTail(New(s.m, w, Compound, Source(q.m, u)), s.var, s.tail, w))
<1> DEFINE v == Source(q.m, u)
<1> DEFINE s == CreateStem(q, d)
<1> DEFINE w == NewAddr(s.m)
<1> DEFINE n == PutTail(New(s.m, w, Compound, v), s.var, s.tail, w)
<1>3. v \in Address /\ d \in 1..Len(q.m.scopes) /\ d - 1 \in 1..Len(q.m.scopes) /\ d > 1
  BY TypedHeap DEF Fine
<1>4. /\ Fine(s.m) /\ Adds(q.m, s.m) /\ Pool(s.m, top) /\ DOMAIN s = ResultFields
      /\ s.tail = q.tail /\ s.var = GetVar(s.m, d, "S.") /\ s.var \in Address
      /\ q.var # NoVar => s = q
      /\ q.var = NoVar /\ Sane(s.m) =>
           /\ Fresh(q.m, s.var) /\ Source(s.m, s.var) = s.var
           /\ DOMAIN s.m.heap[s.var].tails = {}
           /\ \A x \in Address : x # s.var => s.m.heap[x] = q.m.heap[x]
      /\ Sane(s.m) => s.var # NoVar
  BY <1>3, CreateStemFine, ZenonT(40)
<1>10. \A i \in 1..Len(q.m.scopes), l \in Simple :
         i # d \/ l # "S." => GetVar(s.m, i, l) = GetVar(q.m, i, l)
  BY <1>3, CreateStemFine
<1>5. w \in Address /\ (Sane(s.m) /\ w # NoVar => Fresh(s.m, w) /\ Unpointed(s.m, w))
  BY <1>4, NewAddrIsAddress, NewAddrFresh DEF Fine, Unpointed
<1> HIDE DEF s, w
<1>6. ASSUME Sane(s.m)
      PROVE  /\ s.var # NoVar /\ s.var = GetVar(s.m, d, "S.")
             /\ ~IsExposed(s.m, s.var) /\ s.m.heap[v].live /\ s.m.heap[v].src = v
             /\ \E j \in 1..(d - 1) : TailIn(s.m, j, v)
  <2>1. Sane(q.m) /\ Forest(q.m) /\ Typed(q.m) /\ Len(q.m.scopes) \in Nat
    BY <1>4, <1>6, AddsSane, EntryAddress DEF Fine
  <2>2. /\ q.var = NoVar => Source(s.m, s.var) = s.var
        /\ \A x \in Address : q.m.heap[x].live => s.m.heap[x] = q.m.heap[x]
    BY <1>4, <1>6 DEF Fresh
  <2> DEFINE g == Source(q.m, st)
  <2>3. st \in Address /\ st # NoVar /\ q.m.heap[st].live /\ InScopes(q.m, st)
    BY <1>3, <2>1, EntryAddress, Sorts DEF Forest, EntriesLive, InScopes
  <2>4. PICK j \in 1..(d - 1) : GetVar(q.m, j, "S.") = g
    BY <1>3, <2>1, <2>3, SourceBelow, Sorts
  <2>5. q.m.heap[g].live /\ g \in Address
    BY <2>1, <2>3, NotLeft, LiveUsable, TypedHeap DEF Usable
  <2>6. TailIn(q.m, j, u) /\ u \notin q.m.left
    <3>1. InTails(q.m, u)
      BY <2>1, <2>5 DEF InTails
    <3> QED BY <2>1, <2>4, <2>5, <3>1, NotLeft DEF TailIn, Sane
  <2>7. j \in 1..Len(q.m.scopes)
    BY <1>3, <2>1
  <2>8. PICK i \in 1..j : TailIn(q.m, i, v)
    BY <2>1, <2>6, <2>7, TailSource
  <2>9. i \in 1..(d - 1) /\ i \in 1..Len(q.m.scopes) /\ i # d
    BY <1>3, <2>1, <2>7
  <2>10. GetVar(s.m, i, "S.") = GetVar(q.m, i, "S.") /\ GetVar(q.m, i, "S.") # NoVar
    BY <1>10, <2>8, <2>9, Sorts DEF TailIn
  <2>11. q.m.heap[GetVar(q.m, i, "S.")].live /\ GetVar(q.m, i, "S.") \in Address
    BY <2>1, <2>9, <2>10, EntryAddress, Sorts DEF Forest, EntriesLive
  <2>12. s.m.heap[GetVar(q.m, i, "S.")] = q.m.heap[GetVar(q.m, i, "S.")]
    BY <2>2, <2>11
  <2>13. TailIn(s.m, i, v)
    BY <2>8, <2>10, <2>12 DEF TailIn
  <2>14. q.m.heap[v].live /\ q.m.heap[v].src = v
    BY <2>1, <2>6 DEF Forest, SourcesAlive, Source
  <2>15. s.m.heap[v] = q.m.heap[v]
    BY <1>3, <2>2, <2>14
  <2>16. ~IsExposed(s.m, s.var)
    BY <1>4, <2>1, <2>2 DEF IsExposed
  <2> QED BY <1>4, <1>6, <2>9, <2>13, <2>14, <2>15, <2>16
<1>7. d \in 1..Len(s.m.scopes)
  BY <1>3, <1>4 DEF Adds
<1>11. s.tail \in Tails
  BY <1>4
<1>12. Sane(s.m) => s.var # NoVar /\ s.var = GetVar(s.m, d, "S.") /\ s.m.heap[v].live
  BY <1>6
<1>8. Fine(n) /\ Adds(s.m, n)
  <2>1. CASE s.tail \in DOMAIN s.m.heap[Source(s.m, s.var)].tails
    <3> HIDE DEF v
    <3> QED BY <1>3, <1>4, <1>5, <1>7, <1>11, <1>12, <2>1, TailLeft
  <2>2. CASE s.tail \notin DOMAIN s.m.heap[Source(s.m, s.var)].tails
    <3>1. Sane(s.m) => /\ s.var # NoVar /\ s.var = GetVar(s.m, d, "S.")
                       /\ s.tail \notin DOMAIN s.m.heap[Source(s.m, s.var)].tails
      BY <1>12, <2>2
    <3>2. Sane(s.m) => /\ ~IsExposed(s.m, s.var) /\ s.m.heap[v].live /\ s.m.heap[v].src = v
                       /\ \E j \in 1..(d - 1) : TailIn(s.m, j, v)
      BY <1>6
    <3> HIDE DEF v
    <3> QED BY <1>3, <1>4, <1>5, <1>7, <1>11, <3>1, <3>2, TailAdded
  <2> QED BY <2>1, <2>2
<1>9. Adds(q.m, n)
  BY <1>4, <1>8, AddsTwice
<1> QED BY <1>8, <1>9 DEF Grows, n, w, s

LEMMA ExposedTailGrows ==
  ASSUME NEW r, NEW top, Pool(r.m, top), Fine(r.m), NEW d \in 2..Len(r.m.scopes),
         DOMAIN r = ResultFields, r.var \in Address, r.tail \in Tails,
         NEW st, st = GetVar(r.m, d - 1, "S."),
         Sane(r.m) => /\ GetVar(r.m, d, "S.") # NoVar => ~IsExposed(r.m, GetVar(r.m, d, "S."))
                      /\ st # NoVar /\ r.m.heap[r.var].live
                      /\ r.tail \in DOMAIN r.m.heap[Source(r.m, st)].tails
                      /\ r.var = r.m.heap[Source(r.m, st)].tails[r.tail]
  PROVE  Grows(r.m, ExposedTail(r, d, ExposedSource(r.m, r.var)))
<1> DEFINE q == [r EXCEPT !.var = GetVar(r.m, d, "S.")]
<1> DEFINE s == CreateStem(q, d)
<1> DEFINE w == NewAddr(s.m)
<1>1. ExposedTail(r, d, ExposedSource(r.m, r.var))
        = PutTail(New(s.m, w, Compound, Source(r.m, r.var)), s.var, s.tail, w)
  BY DEF ExposedTail, ExposedSource
<1>2. q.m = r.m /\ q.var = GetVar(r.m, d, "S.") /\ q.tail = r.tail /\ DOMAIN q = ResultFields
  BY DEF ResultFields
<1> HIDE DEF q
<1>3. Grows(q.m, PutTail(New(s.m, w, Compound, Source(q.m, r.var)), s.var, s.tail, w))
  <2>1. /\ Pool(q.m, top) /\ Fine(q.m) /\ d \in 2..Len(q.m.scopes) /\ DOMAIN q = ResultFields
        /\ q.var = GetVar(q.m, d, "S.") /\ q.tail \in Tails /\ r.var \in Address
        /\ st = GetVar(q.m, d - 1, "S.")
        /\ Sane(q.m) => /\ q.var # NoVar => ~IsExposed(q.m, q.var)
                        /\ st # NoVar /\ q.m.heap[r.var].live
                        /\ q.tail \in DOMAIN q.m.heap[Source(q.m, st)].tails
                        /\ r.var = q.m.heap[Source(q.m, st)].tails[q.tail]
    BY <1>2
  <2> QED BY <2>1, NewStemTail, Zenon
<1> QED BY <1>1, <1>2, <1>3

\* expose(): the new scope, the last, and the one below it only gain variables.
LEMMA ExposeGrows ==
  ASSUME NEW m, NEW top, Pool(m, top), Fine(m), NEW d \in 2..Len(m.scopes), NEW sym \in Symbols
  PROVE  Grows(m, Expose(m, d, sym))
<1> DEFINE here == Get(m, d, sym)
<1> DEFINE a == Access(here.m, d - 1, sym)
<1> DEFINE r == IF a.found THEN a ELSE [a EXCEPT !.m = SetValue(a.m, a.var, sym)]
<1>0. /\ d \in 1..Len(m.scopes) /\ d - 1 \in 1..Len(m.scopes) /\ d - 1 # d
      /\ sym \in Cached \union {Compound}
      /\ sym # Compound => sym \in Simple /\ sym \in Cached /\ Key(sym) = sym
  BY ScopesTyped, Names DEF Symbols
<1>1. Searched(m, top, d, sym, here) /\ Located(m, d, sym, here)
  BY <1>0, GetKeeps, GetLocated DEF Fine
<1>2. Pool(here.m, top)
  BY <1>1 DEF Searched
<1>3. Expose(m, d, sym) = IF here.m.bad \/ here.found \/ (here.var # NoVar /\ IsExposed(here.m, here.var))
                          THEN here.m ELSE NewExposed(r, d, sym)
  BY DEF Expose
<1>4. NamedIn(here.m, d - 1, sym, r)
  BY DEF NamedIn
<1> HIDE DEF here, r
<1>5. Grows(m, here.m) /\ here.m.heap = m.heap /\ here.m.scopes = m.scopes
  BY <1>1, LocatedFine DEF Grows, Located
<1>6. \A i, l : GetVar(here.m, i, l) = GetVar(m, i, l)
  BY <1>5 DEF GetVar
<1>8. CASE here.m.bad \/ here.found \/ (here.var # NoVar /\ IsExposed(here.m, here.var))
  BY <1>3, <1>5, <1>8
<1>9. CASE ~(here.m.bad \/ here.found \/ (here.var # NoVar /\ IsExposed(here.m, here.var)))
  <2>1. Expose(m, d, sym) = NewExposed(r, d, sym)
    BY <1>3, <1>9
  <2>2. d - 1 \in 1..Len(here.m.scopes) /\ Fine(here.m)
    BY <1>0, <1>5 DEF Grows
  <2>3. /\ Grows(here.m, r.m) /\ Pool(r.m, top) /\ DOMAIN r = ResultFields
        /\ r.var \in Address /\ r.tail \in Tails
        /\ \A i \in 1..Len(here.m.scopes) : i # d - 1 => \A l \in Simple : GetVar(r.m, i, l) = GetVar(here.m, i, l)
        /\ Sane(r.m) =>
             /\ r.var # NoVar /\ r.m.heap[r.var].live
             /\ sym # Compound => r.var = GetVar(r.m, d - 1, sym)
             /\ sym = Compound =>
                  LET st == GetVar(r.m, d - 1, "S.")
                      ts == r.m.heap[Source(r.m, st)].tails
                  IN  st # NoVar /\ r.tail \in DOMAIN ts /\ r.var = ts[r.tail]
    <3> DEFINE o == here.m
    <3>1. Pool(o, top) /\ Fine(o) /\ d - 1 \in 1..Len(o.scopes) /\ NamedIn(o, d - 1, sym, r)
      BY <1>2, <1>4, <2>2
    <3> HIDE DEF o
    <3>2. NamedGrown(o, top, d - 1, sym, r)
      BY <3>1, NamedGrows, Zenon
    <3> QED BY <3>2 DEF o, NamedGrown
  <2>4. Grows(m, r.m) /\ Fine(r.m) /\ d \in 2..Len(r.m.scopes) /\ d \in 1..Len(r.m.scopes)
    <3>1. Grows(m, r.m)
      BY <1>5, <2>3, GrowsTwice
    <3>2. Len(r.m.scopes) = Len(m.scopes) /\ Fine(r.m)
      BY <3>1 DEF Grows, Adds
    <3> QED BY <1>0, <3>1, <3>2
  <2>5. \A l \in Simple : GetVar(r.m, d, l) = GetVar(m, d, l)
    BY <1>0, <1>5, <1>6, <2>3
  <2>7. CASE r.m.bad
    BY <2>1, <2>4, <2>7 DEF NewExposed
  <2>8. CASE ~r.m.bad /\ sym # Compound
    <3>1. NewExposed(r, d, sym) = ExposedSimple(r.m, d, sym, ExposedSource(r.m, r.var))
      BY <2>8 DEF NewExposed
    <3>2. sym \in Simple /\ GetVar(r.m, d, sym) = NoVar
      BY <1>0, <1>1, <1>9, <2>5, <2>8 DEF Located
    <3>3. Sane(r.m) => r.var # NoVar /\ r.var = GetVar(r.m, d - 1, sym)
      BY <2>3, <2>8
    <3>4. Grows(r.m, NewExposed(r, d, sym))
      BY <2>3, <2>4, <3>1, <3>2, <3>3, ExposedSimpleGrows
    <3> QED BY <2>1, <2>4, <3>4, GrowsTwice
  <2>9. CASE ~r.m.bad /\ sym = Compound
    <3>1. NewExposed(r, d, sym) = ExposedTail(r, d, ExposedSource(r.m, r.var))
      BY <2>9 DEF NewExposed
    <3> DEFINE st == GetVar(r.m, d - 1, "S.")
    <3>2. ASSUME Sane(r.m)
          PROVE  /\ GetVar(r.m, d, "S.") # NoVar => ~IsExposed(r.m, GetVar(r.m, d, "S."))
                 /\ st # NoVar /\ r.m.heap[r.var].live
                 /\ r.tail \in DOMAIN r.m.heap[Source(r.m, st)].tails
                 /\ r.var = r.m.heap[Source(r.m, st)].tails[r.tail]
      <4> DEFINE x == GetVar(r.m, d, "S.")
      <4>1. Sane(here.m)
        BY <2>3, <3>2, AddsSane DEF Grows
      <4>2. here.var = GetVar(m, d, "S.")
        BY <1>1, <1>9, <2>9 DEF Located, TailFound
      <4>3. x = here.var /\ x = GetVar(here.m, d, "S.")
        BY <1>6, <2>5, <4>2, Sorts
      <4>4. ASSUME x # NoVar PROVE ~IsExposed(r.m, x)
        <5>1. ~IsExposed(here.m, x)
          BY <1>9, <4>3, <4>4
        <5>2. x \in Address /\ here.m.heap[x].live
          BY <1>0, <1>2, <1>5, <2>2, <4>1, <4>3, <4>4, EntryAddress, Sorts DEF Fine, Forest, EntriesLive
        <5>3. r.m.heap[x].src = here.m.heap[x].src
          BY <2>3, <3>2, <5>2 DEF Grows, Adds
        <5> QED BY <5>1, <5>3 DEF IsExposed, Source
      <4> QED BY <2>3, <2>9, <3>2, <4>4
    <3>3. Grows(r.m, NewExposed(r, d, sym))
      BY <2>3, <2>4, <3>1, <3>2, ExposedTailGrows
    <3> QED BY <2>1, <2>4, <2>9, <3>3, GrowsTwice
  <2> QED BY <2>7, <2>8, <2>9
<1> QED BY <1>8, <1>9

\* The listed symbols in order.
LEMMA ExposeAllGrows ==
  ASSUME NEW m, NEW top, Pool(m, top), Fine(m), NEW d \in 2..Len(m.scopes),
         NEW list \in Seq(Symbols)
  PROVE  Grows(m, ExposeAll(m, d, list))
<1> DEFINE n == Len(list)
<1> DEFINE Good(k, g) == g = [i \in 0..k |-> IF i = 0 THEN m ELSE Expose(g[i - 1], d, list[i])]
<1> DEFINE after == CHOOSE g : Good(n, g)
<1>1. n \in Nat /\ \A i \in 1..n : list[i] \in Symbols
  OBVIOUS
<1>2. \E g : Good(n, g)
  <2> DEFINE Bad == {k \in Nat : ~\E g : Good(k, g)}
  <2>1. CASE Bad # {}
    <3>1. PICK k \in Bad : \A l \in Bad : k <= l
      BY <2>1, HasLeast
    <3>2. Good(0, [i \in 0..0 |-> m])
      OBVIOUS
    <3>3. k # 0
      BY <3>1, <3>2
    <3>4. PICK g : Good(k - 1, g)
      <4>1. k - 1 \in Nat /\ ~(k <= k - 1)
        BY <3>1, <3>3
      <4>2. k - 1 \notin Bad
        BY <3>1, <4>1
      <4> HIDE DEF Good
      <4> QED BY <4>1, <4>2
    <3> DEFINE h == [i \in 0..k |-> IF i = 0 THEN m ELSE Expose(g[i - 1], d, list[i])]
    <3>5. \A i \in 0..(k - 1) : h[i] = g[i]
      BY <3>1, <3>3, <3>4
    <3>6. \A i \in 0..k : (IF i = 0 THEN m ELSE Expose(g[i - 1], d, list[i]))
                          = (IF i = 0 THEN m ELSE Expose(h[i - 1], d, list[i]))
      <4> HIDE DEF h
      <4> QED BY <3>1, <3>5
    <3>7. Good(k, h)
      BY <3>6
    <3> QED BY <3>1, <3>7
  <2> QED BY <1>1, <2>1
<1>3. Good(n, after)
  BY <1>2
<1> HIDE DEF after
<1> DEFINE Right(k) == Grows(m, after[k]) /\ Kept(m, top, after[k])
<1>4. \A k \in 0..n : Right(k)
  <2> DEFINE Bad == {k \in Nat : k <= n /\ ~Right(k)}
  <2>1. CASE Bad # {}
    <3>1. PICK k \in Bad : \A l \in Bad : k <= l
      BY <2>1, HasLeast
    <3>2. after[0] = m
      BY <1>1, <1>3
    <3>3. Right(0)
      <4>1. Adds(m, m)
        BY DEF Adds
      <4> QED BY <3>2, <4>1 DEF Kept, Grows
    <3>4. k # 0 /\ k \in 1..n /\ k - 1 \in Nat /\ k - 1 <= n /\ ~(k <= k - 1)
      BY <1>1, <3>1, <3>3
    <3>5. Right(k - 1)
      BY <3>1, <3>4
    <3>6. after[k] = Expose(after[k - 1], d, list[k])
      BY <1>1, <1>3, <3>4
    <3>7. /\ Pool(after[k - 1], top) /\ d \in 2..Len(after[k - 1].scopes) /\ Fine(after[k - 1])
          /\ Len(after[k - 1].scopes) = Len(m.scopes)
      BY <3>5 DEF Kept, Grows
    <3>8. list[k] \in Symbols
      BY <1>1, <3>4
    <3>9. Kept(after[k - 1], top, after[k])
      BY <3>6, <3>7, <3>8, ExposeKeeps
    <3>10. Grows(after[k - 1], after[k])
      BY <3>6, <3>7, <3>8, ExposeGrows
    <3>11. Grows(m, after[k]) /\ Kept(m, top, after[k])
      BY <3>5, <3>7, <3>9, <3>10, GrowsTwice DEF Kept
    <3> QED BY <3>1, <3>11
  <2> QED BY <1>1, <2>1
<1>5. ExposeAll(m, d, list) = after[n]
  BY DEF ExposeAll, after
<1> QED BY <1>1, <1>4, <1>5

\* A new scope is empty.
LEMMA PushFine ==
  ASSUME NEW m, NEW top, Pool(m, top), Fine(m), NEW n, n.heap = m.heap, n.bad = m.bad,
         n.left = m.left, n.scopes = Append(m.scopes, [id |-> top + 1, map |-> EmptyMap])
  PROVE  /\ Fine(n) /\ Len(n.scopes) = Len(m.scopes) + 1
         /\ \A i \in 1..Len(m.scopes), k \in Simple : GetVar(n, i, k) = GetVar(m, i, k)
<1> DEFINE D == Len(m.scopes)
<1>1. D \in Nat /\ m.scopes \in Seq(ScopeType(top))
  BY EntryAddress DEF Pool
<1>2. /\ Len(n.scopes) = D + 1 /\ n.scopes[D + 1] = [id |-> top + 1, map |-> EmptyMap]
      /\ \A i \in 1..D : n.scopes[i] = m.scopes[i]
  BY <1>1, AppendProperties
<1>3. \A i \in 1..D, k \in Simple : GetVar(n, i, k) = GetVar(m, i, k)
  BY <1>2 DEF GetVar
<1>4. \A k \in Simple : GetVar(n, D + 1, k) = NoVar
  BY <1>2 DEF GetVar, EmptyMap
<1>5. \A i \in 1..Len(n.scopes) : i \in 1..D \/ i = D + 1
  BY <1>1, <1>2
<1>0. \A i \in 1..Len(n.scopes) : \A j \in 1..(i - 1) : j \in 1..D
  BY <1>1, <1>2
<1> HIDE DEF D
<1>6. \A v : Source(n, v) = Source(m, v) /\ (IsExposed(n, v) <=> IsExposed(m, v))
  BY DEF Source, IsExposed
<1>7. ASSUME Forest(m) PROVE Forest(n)
  <2>1. EntriesLive(n)
    BY <1>3, <1>4, <1>5, <1>7 DEF Forest, EntriesLive, D
  <2>2. EntriesApart(n)
    BY <1>3, <1>4, <1>5, <1>7 DEF Forest, EntriesApart, D
  <2>3. TailsOwn(n) /\ TailsApart(n) /\ SourcesAlive(n)
    BY <1>6, <1>7 DEF Forest, TailsOwn, TailsApart, SourcesAlive
  <2>7. LeftApart(n)
    BY <1>7 DEF Forest, LeftApart, InTails
  <2>4. AllOwned(n)
    <3> SUFFICES ASSUME NEW v \in Address \ m.left, m.heap[v].live PROVE InScopes(n, v) \/ InTails(n, v)
      BY DEF AllOwned
    <3>1. InScopes(m, v) \/ InTails(m, v)
      BY <1>7 DEF Forest, AllOwned
    <3>2. CASE InTails(m, v)
      BY <3>2 DEF InTails
    <3>3. CASE InScopes(m, v)
      <4>1. PICK i \in 1..D, k \in Simple : v = GetVar(m, i, k)
        BY <3>3 DEF InScopes, D
      <4>2. i \in 1..Len(n.scopes) /\ v = GetVar(n, i, k)
        BY <1>1, <1>2, <1>3, <4>1 DEF D
      <4> QED BY <4>2 DEF InScopes
    <3> QED BY <3>1, <3>2, <3>3
  <2>5. EntriesExposed(n)
    <3> SUFFICES ASSUME NEW i \in 1..Len(n.scopes), NEW k \in Simple, GetVar(n, i, k) # NoVar,
                        IsExposed(n, GetVar(n, i, k))
                 PROVE  i > 1 /\ GetVar(n, i - 1, k) # NoVar
                        /\ Source(n, GetVar(n, i - 1, k)) = Source(n, GetVar(n, i, k))
      BY DEF EntriesExposed
    <3>1. i \in 1..D
      BY <1>4, <1>5
    <3>2. i > 1 /\ GetVar(m, i - 1, k) # NoVar
          /\ Source(m, GetVar(m, i - 1, k)) = Source(m, GetVar(m, i, k))
      BY <1>3, <1>6, <1>7, <3>1 DEF Forest, EntriesExposed, D
    <3>3. i - 1 \in 1..D
      BY <1>1, <3>1, <3>2 DEF D
    <3> QED BY <1>3, <1>6, <3>1, <3>2, <3>3
  <2>6. TailsExposed(n)
    <3> SUFFICES ASSUME NEW i \in 1..Len(n.scopes), NEW v \in Address, TailIn(n, i, v), n.heap[v].live,
                        IsExposed(n, v)
                 PROVE  \E j \in 1..(i - 1) : TailIn(n, j, Source(n, v))
      BY DEF TailsExposed
    <3>1. i \in 1..D
      BY <1>4, <1>5, Sorts DEF TailIn
    <3>2. TailIn(m, i, v) /\ i \in 1..Len(m.scopes)
      BY <1>3, <3>1, Sorts DEF TailIn, D
    <3>3. PICK j \in 1..(i - 1) : TailIn(m, j, Source(m, v))
      BY <1>6, <1>7, <3>2 DEF Forest, TailsExposed
    <3>4. j \in 1..D
      BY <1>0
    <3>5. TailIn(n, j, Source(n, v))
      BY <1>3, <1>6, <3>3, <3>4, Sorts DEF TailIn
    <3> QED BY <3>5
  <2> QED BY <2>1, <2>2, <2>3, <2>4, <2>5, <2>6, <2>7 DEF Forest
<1>8. Fine(n)
  BY <1>7 DEF Fine, Typed, Sane
<1> QED BY <1>2, <1>3, <1>8 DEF D

\* No cache has the new identifier.
LEMMA PushPointed ==
  ASSUME NEW m, NEW top, Pool(m, top), Fine(m), Sane(m), Pointed(m), NEW n, n.heap = m.heap, n.cache = m.cache,
         n.scopes = Append(m.scopes, [id |-> top + 1, map |-> EmptyMap])
  PROVE  Pointed(n)
<1> DEFINE D == Len(m.scopes)
<1>1. D \in Nat /\ m.scopes \in Seq(ScopeType(top))
  BY EntryAddress DEF Pool
<1>2. /\ Len(n.scopes) = D + 1 /\ n.scopes[D + 1] = [id |-> top + 1, map |-> EmptyMap]
      /\ \A i \in 1..D : n.scopes[i] = m.scopes[i]
  BY <1>1, AppendProperties
<1>3. \A i \in 1..D : \A k : GetVar(n, i, k) = GetVar(m, i, k)
  BY <1>2 DEF GetVar
<1>4. \A i \in 1..Len(n.scopes) : i \in 1..D \/ i = D + 1
  BY <1>1, <1>2
<1>5. m.cache["rc"].id # top + 1 /\ n.scopes[D + 1].id = top + 1
  <2>1. "rc" \in Cached
    BY DEF Cached
  <2>2. m.cache["rc"] \in CacheType(top) /\ top \in Nat
    BY <2>1 DEF Pool
  <2> QED BY <1>2, <2>2 DEF CacheType
<1> HIDE DEF D
<1>6. RcRight(n)
  BY <1>2, <1>3, <1>4, <1>5 DEF Pointed, RcRight, D
<1>7. ASSUME m.heap[target.var].live
      PROVE  /\ target.depth \in 1..Len(n.scopes)
             /\ (\E k \in Simple : target.var = GetVar(n, target.depth, k)) \/ TailUnder(n, target.depth, target.var)
  <2>1. target.depth \in 1..D
    BY <1>7 DEF Pointed, TargetRight, D
  <2>2. target.depth \in 1..Len(n.scopes)
    BY <1>1, <1>2, <2>1
  <2>3. CASE \E k \in Simple : target.var = GetVar(m, target.depth, k)
    BY <1>3, <2>1, <2>2, <2>3
  <2>4. CASE TailUnder(m, target.depth, target.var)
    <3>1. \A v : TailsOf(n, v) = TailsOf(m, v)
      BY DEF TailsOf, Source
    <3> QED BY <1>3, <2>1, <2>2, <2>4, <3>1 DEF TailUnder
  <2> QED BY <1>7, <2>3, <2>4 DEF Pointed, TargetRight
<1> QED BY <1>6, <1>7 DEF Pointed, TargetRight

LEMMA ProcedureFine ==
  ASSUME Inv, Fine(mem), NEW list \in ExposeLists, procedure(list)
  PROVE  /\ Fine(mem') /\ Exposures(mem, mem') /\ Len(mem'.scopes) = Len(mem.scopes) + 1
         /\ Sane(mem') /\ Pointed(mem) => Pointed(mem')
<1> DEFINE m == [mem EXCEPT !.scopes = Append(@, [id |-> idMax + 1, map |-> EmptyMap])]
<1>1. /\ DOMAIN m = Fields /\ m.cache = mem.cache /\ m.heap = mem.heap /\ m.bad = mem.bad
      /\ m.left = mem.left /\ m.scopes = Append(mem.scopes, [id |-> idMax + 1, map |-> EmptyMap])
  BY DEF Inv, Pool, Fields
<1>2. mem' = ExposeAll(m, Depth + 1, list)
  BY DEF procedure
<1> HIDE DEF m
<1>3. Pool(m, idMax + 1) /\ Len(m.scopes) = Len(mem.scopes) + 1
  BY <1>1, PushKeeps DEF Inv
<1>4. /\ Fine(m)
      /\ \A i \in 1..Len(mem.scopes), k \in Simple : GetVar(m, i, k) = GetVar(mem, i, k)
  BY <1>1, PushFine DEF Inv, Depth
<1>5. Depth + 1 \in 2..Len(m.scopes)
  BY <1>3, ScopesTyped DEF Inv, Depth
<1>6. list \in Seq(Symbols)
  <2>1. PICK k \in 0..MaxExposed : list \in [1..k -> Symbols]
    BY DEF ExposeLists, Symbols
  <2>2. k \in Nat
    BY BoundsAreNat
  <2> QED BY <2>1, <2>2
<1>7. Grows(m, mem')
  BY <1>2, <1>3, <1>4, <1>5, <1>6, ExposeAllGrows
<1>8. Exposures(mem, mem')
  <2> SUFFICES ASSUME Sane(mem'), NEW i \in 1..Len(mem.scopes), NEW k \in Simple, NEW v, v = GetVar(mem, i, k),
                      v # NoVar, IsExposed(mem, v)
               PROVE  GetVar(mem', i, k) = v /\ mem'.heap[v] = mem.heap[v]
    BY DEF Exposures
  <2>1. Sane(m)
    BY <1>7, AddsSane DEF Grows
  <2>2. GetVar(m, i, k) = v /\ i \in 1..Len(m.scopes)
    BY <1>3, <1>4, EntryAddress DEF Inv
  <2>3. m.heap[v].live /\ v \in Address
    BY <1>3, <1>4, <2>1, <2>2, EntryAddress DEF Fine, Forest, EntriesLive
  <2> QED BY <1>1, <1>7, <2>2, <2>3 DEF Grows, Adds, IsExposed, Source
<1>9. ASSUME Sane(mem'), Pointed(mem) PROVE Pointed(mem')
  <2>1. Sane(m)
    BY <1>7, <1>9, AddsSane DEF Grows
  <2>2. Sane(mem)
    BY <1>1, <2>1 DEF Sane
  <2>3. Pointed(m)
    BY <1>1, <1>9, <2>2, PushPointed DEF Inv
  <2> QED BY <1>7, <1>9, <2>3 DEF Grows, Adds
<1>10. Fine(mem') /\ Len(mem'.scopes) = Len(mem.scopes) + 1
  BY <1>3, <1>7 DEF Grows, Adds
<1> QED BY <1>8, <1>9, <1>10

-----------------------------------------------------------------------------
(***************************************************************************)
(* Every step.                                                             *)
(***************************************************************************)
TargetType == [var : Address, depth : 0..MaxDepth, stem : BOOLEAN]

HeapInv ==
  /\ Inv
  /\ Fine(mem) /\ Fits(mem)
  /\ ~mem.bad => Pointed(mem)
  /\ idMax \in 1..MaxId /\ Depth <= MaxDepth
  /\ target \in TargetType

\* What every step keeps of the variables, and of those that are exposed.
HeapStep ==
  /\ Fine(mem') /\ Fits(mem') /\ Exposures(mem, mem')
  /\ ~mem'.bad => Pointed(mem')
  /\ Len(mem'.scopes) <= MaxDepth

LEMMA GrowsStep ==
  ASSUME Inv, Fine(mem), Pointed(mem), Depth <= MaxDepth, Grows(mem, mem'), Fits(mem') PROVE HeapStep
<1>1. Shrinks(mem, mem')
  BY GrowsShrinks DEF Inv, Fits
<1>2. Len(mem'.scopes) <= MaxDepth
  BY DEF Grows, Adds, Depth
<1> QED BY <1>1, <1>2 DEF Shrinks, HeapStep, Fits, Sane

LEMMA ShrinksStep ==
  ASSUME Inv, Pointed(mem), Depth <= MaxDepth, Shrinks(mem, mem') PROVE HeapStep
<1>1. Len(mem'.scopes) \in 0..Len(mem.scopes) /\ Len(mem.scopes) \in Nat /\ MaxDepth \in Nat
  BY EntryAddress, BoundsAreNat DEF Shrinks, Inv
<1>2. Len(mem'.scopes) <= MaxDepth
  BY <1>1 DEF Depth
<1> QED BY <1>2 DEF Shrinks, HeapStep, Fits, Sane

LEMMA NextHeap == ASSUME HeapInv, Next PROVE HeapStep
<1>00. ~mem.bad
  BY DEF Next, Clause, Indirect, Interpreter, Routine, loadVar, createVar, dropVar, assign, dropIndirect,
         setValue, setRC, popScope, procedure, Runs, Idle
<1>0. Inv /\ Fine(mem) /\ Fits(mem) /\ Pointed(mem) /\ target.var \in Address /\ Depth <= MaxDepth
  BY <1>00 DEF HeapInv, TargetType
<1>1. ASSUME NEW sym \in Symbols, loadVar(sym) PROVE HeapStep
  BY <1>0, <1>1, LoadGrows, GrowsStep DEF Fits
<1>2. ASSUME NEW sym \in Symbols, createVar(sym) PROVE HeapStep
  BY <1>0, <1>2, CreateGrows, GrowsStep DEF createVar
<1>3. ASSUME NEW sym \in Symbols, dropVar(sym) PROVE HeapStep
  BY <1>0, <1>3, DropShrinks, ShrinksStep
<1>4. ASSUME NEW x \in Data, assign(x) PROVE HeapStep
  BY <1>0, <1>4, AssignGrows, GrowsStep DEF Pointed
<1>5. ASSUME NEW k \in Symbols, dropIndirect(k) PROVE HeapStep
  BY <1>0, <1>5, DropIndirectShrinks, ShrinksStep
<1>6. ASSUME NEW k \in Symbols, NEW x \in Data, setValue(k, x) PROVE HeapStep
  BY <1>0, <1>6, SetValueActGrows, GrowsStep DEF setValue
<1>7. ASSUME NEW x \in Data, setRC(x) PROVE HeapStep
  BY <1>0, <1>7, SetRCGrows, GrowsStep DEF setRC, Pointed
<1>8. ASSUME popScope PROVE HeapStep
  BY <1>0, <1>8, PopShrinks, ShrinksStep DEF popScope, Runs, Sane, Fits
<1>9. ASSUME NEW list \in ExposeLists, procedure(list) PROVE HeapStep
  <2>1. /\ Fine(mem') /\ Exposures(mem, mem') /\ Len(mem'.scopes) = Len(mem.scopes) + 1
        /\ Sane(mem') => Pointed(mem')
    BY <1>0, <1>9, ProcedureFine
  <2>2. Fits(mem') /\ Depth < MaxDepth
    BY <1>9 DEF procedure
  <2>3. Len(mem'.scopes) <= MaxDepth
    BY <1>0, <2>1, <2>2, EntryAddress, BoundsAreNat DEF Inv, Depth
  <2> QED BY <2>1, <2>2, <2>3 DEF HeapStep, Sane, Fits
<1> QED BY <1>1, <1>2, <1>3, <1>4, <1>5, <1>6, <1>7, <1>8, <1>9
        DEF Next, Clause, Indirect, Interpreter, Routine

LEMMA InitHeap == Init => HeapInv
<1> SUFFICES ASSUME Init PROVE HeapInv
  OBVIOUS
<1>1. Inv
  BY InitInv
<1>2. /\ mem.heap = [v \in Address |-> Dead] /\ mem.bad = FALSE
      /\ mem.scopes = << [id |-> 1, map |-> EmptyMap] >> /\ mem.left = {}
  BY DEF Init
<1>3. \A v \in Address : /\ mem.heap[v] = Dead /\ ~mem.heap[v].live /\ mem.heap[v].src = NoVar
                         /\ DOMAIN mem.heap[v].tails = {} /\ Source(mem, v) = NoVar
  BY <1>2, DeadIsVariable DEF Dead, Source
<1>4. Len(mem.scopes) = 1 /\ \A i \in 1..Len(mem.scopes), k \in Simple : GetVar(mem, i, k) = NoVar
  BY <1>2 DEF GetVar, EmptyMap
<1>5. Typed(mem)
  BY <1>2, DeadIsVariable DEF Typed
<1>6. Forest(mem)
  <2>1. EntriesLive(mem) /\ EntriesApart(mem) /\ EntriesExposed(mem)
    BY <1>4 DEF EntriesLive, EntriesApart, EntriesExposed
  <2>2. TailsOwn(mem) /\ TailsApart(mem) /\ AllOwned(mem) /\ LeftApart(mem) /\ SourcesAlive(mem)
        /\ TailsExposed(mem)
    BY <1>2, <1>3 DEF TailsOwn, TailsApart, AllOwned, LeftApart, SourcesAlive, TailsExposed
  <2> QED BY <2>1, <2>2 DEF Forest
<1>7. target \in TargetType
  BY BoundsAreNat, Sorts DEF Init, NoTarget, TargetType
<1>8. Fine(mem) /\ Fits(mem)
  BY <1>3, <1>5, <1>6, Sorts DEF Fine, Fits
<1>9. idMax \in 1..MaxId /\ Depth <= MaxDepth
  BY <1>4, BoundsAreNat DEF Init, Depth
<1>10. Pointed(mem)
  <2>1. "rc" \in Cached
    BY DEF Cached
  <2>2. mem.cache["rc"].var = NoVar
    BY <2>1 DEF Init, NoCache
  <2>3. target.var = NoVar
    BY DEF Init, NoTarget
  <2> QED BY <1>3, <2>2, <2>3, Sorts DEF Pointed, RcRight, TargetRight
<1> QED BY <1>1, <1>7, <1>8, <1>9, <1>10 DEF HeapInv

LEMMA CountersStep ==
  ASSUME HeapInv, Next
  PROVE  idMax' \in 1..MaxId /\ target' \in TargetType
<1>0. idMax \in 1..MaxId /\ target \in TargetType /\ MaxId \in Nat /\ Depth \in 0..MaxDepth
  BY BoundsAreNat, EntryAddress DEF HeapInv, Inv, Depth
<1>1. ASSUME NEW sym \in Symbols, createVar(sym) PROVE idMax' \in 1..MaxId /\ target' \in TargetType
  <2>1. target'.var \in Address
    BY <1>1, CreateGrows DEF HeapInv
  <2>2. PICK v : target' = [var |-> v, depth |-> Depth, stem |-> sym = "S."]
    BY <1>1 DEF createVar
  <2>3. (sym = "S.") \in BOOLEAN /\ v \in Address
    BY <2>1, <2>2
  <2> QED BY <1>0, <1>1, <2>2, <2>3 DEF TargetType, createVar
<1>2. ASSUME NEW x \in Data, assign(x) PROVE idMax' \in 1..MaxId /\ target' \in TargetType
  BY <1>0, <1>2, BoundsAreNat, Sorts DEF assign, NoTarget, TargetType
<1>3. ASSUME NEW list \in ExposeLists, procedure(list) PROVE idMax' \in 1..MaxId /\ target' \in TargetType
  BY <1>0, <1>3 DEF procedure
<1>4. CASE UNCHANGED <<idMax, target>>
  BY <1>0, <1>4
<1> QED BY <1>1, <1>2, <1>3, <1>4
        DEF Next, Clause, Indirect, Interpreter, Routine, loadVar, dropVar, dropIndirect, setValue,
            setRC, popScope

\* The target of a new clause is what access() has got in the current scope.
LEMMA TargetNext ==
  ASSUME HeapInv, Next, HeapStep, ~mem'.bad
  PROVE  RcRight(mem') /\ TargetRight(mem', target')
<1>1. Pointed(mem') /\ Sane(mem')
  BY DEF HeapStep, Sane, Fits
<1>2. ASSUME NEW sym \in Symbols, createVar(sym) PROVE TargetRight(mem', target')
  <2> DEFINE r == CachedOr(mem, Depth, sym, Access(mem, Depth, sym))
  <2>1. Made(mem, Depth, sym, r)
    BY DepthIsScope, CachedMade DEF HeapInv, Inv
  <2>2. mem' = r.m /\ target' = [var |-> r.var, depth |-> Depth, stem |-> sym = "S."]
    BY <1>2 DEF createVar
  <2> HIDE DEF r
  <2>3. target'.var = r.var /\ target'.depth = Depth
    BY <2>2
  <2>4. Depth \in 1..Len(mem'.scopes) /\ r.var \in Address
    BY <2>1, <2>2, DepthIsScope DEF Made, Adds, HeapInv
  <2>5. CASE sym # Compound
    <3>1. Key(sym) = sym /\ sym \in Simple
      BY <2>5, Names DEF Symbols
    <3>2. r.var = GetVar(mem', Depth, sym)
      BY <1>1, <2>1, <2>2, <2>5, <3>1 DEF Made
    <3> QED BY <2>3, <2>4, <3>1, <3>2 DEF TargetRight
  <2>6. CASE sym = Compound
    <3>1. TailUnder(mem', Depth, r.var)
      BY <1>1, <2>1, <2>2, <2>6 DEF Made, TailUnder, TailsOf
    <3> QED BY <2>3, <2>4, <3>1 DEF TargetRight
  <2> QED BY <2>5, <2>6
<1>3. ASSUME NEW x \in Data, assign(x) PROVE TargetRight(mem', target')
  <2>1. target'.var = NoVar
    BY <1>3 DEF assign, NoTarget
  <2> QED BY <1>1, <2>1, Sorts DEF TargetRight, Sane
<1>4. CASE UNCHANGED target
  BY <1>1, <1>4 DEF Pointed
<1>5. TargetRight(mem', target')
  BY <1>2, <1>3, <1>4 DEF Next, Clause, Indirect, Interpreter, Routine, loadVar, dropVar, dropIndirect, setValue,
                          setRC, popScope, procedure
<1> QED BY <1>1, <1>5 DEF Pointed

LEMMA HeapNext == HeapInv /\ [Next]_vars => HeapInv'
<1> SUFFICES ASSUME HeapInv, [Next]_vars PROVE HeapInv'
  OBVIOUS
<1>1. Inv'
  BY NextInv DEF HeapInv
<1>2. CASE Next
  <2>1. HeapStep
    BY <1>2, NextHeap
  <2>2. ~mem'.bad => Pointed(mem)'
    BY <1>2, <2>1, TargetNext DEF Pointed, RcRight, TargetRight, TailUnder, TailsOf, Source, GetVar
  <2> QED BY <1>1, <1>2, <2>1, <2>2, CountersStep DEF HeapInv, HeapStep, Depth, Fine, Fits
<1>3. CASE UNCHANGED vars
  BY <1>1, <1>3 DEF vars, HeapInv, Depth, Pointed, TargetRight
<1> QED BY <1>2, <1>3

LEMMA AlwaysHeap == Spec => []HeapInv
<1> QED BY InitHeap, HeapNext, PTL DEF Spec

-----------------------------------------------------------------------------
(***************************************************************************)
(* What a step may change: what is new, and what the current scope reaches.*)
(***************************************************************************)
\* Scope d has v as an entry, or v is a tail of the stem that it has.
Holds(m, d, v) == (\E k \in Simple : v = GetVar(m, d, k) /\ v # NoVar) \/ TailUnder(m, d, v)
Reaches(m, d, v) == \E w \in Address : Holds(m, d, w) /\ v \in {w, Source(m, w)}
\* No other variable is changed, nor is one deleted.
Within(m, n, d) ==
  Sane(n) => \A v \in Address : n.heap[v] # m.heap[v] => Fresh(m, v) \/ Reaches(m, d, v)

\* What a scope holds was not left out, nor was what is dead.
LEMMA HeldApart ==
  ASSUME NEW m, NEW top, Pool(m, top), Typed(m), Sane(m), Forest(m),
         NEW d \in 1..Len(m.scopes), NEW v, Holds(m, d, v)
  PROVE  v \notin m.left
<1>1. CASE \E k \in Simple : v = GetVar(m, d, k)
  BY <1>1, NotLeft DEF InScopes
<1>2. CASE TailUnder(m, d, v)
  <2> DEFINE g == Source(m, GetVar(m, d, "S."))
  <2>1. g \in Address
    BY EntryAddress, TypedHeap, Sorts
  <2>2. \E t \in DOMAIN m.heap[g].tails : v = m.heap[g].tails[t]
    BY <1>2 DEF TailUnder, TailsOf
  <2>3. InTails(m, v)
    BY <2>1, <2>2 DEF InTails
  <2> QED BY <2>3, NotLeft
<1> QED BY <1>1, <1>2 DEF Holds

LEMMA NoVarSource ==
  ASSUME NEW m, Sane(m), Forest(m) PROVE Source(m, NoVar) = NoVar /\ NoVar \notin m.left
<1>1. ~m.heap[NoVar].live
  BY DEF Sane
<1>2. NoVar \notin m.left
  BY <1>1, NotLeft
<1> QED BY <1>1, <1>2, Sorts DEF Forest, SourcesAlive

\* What clear() and ~Variable delete is in the scope.
LEMMA HeldTails ==
  ASSUME NEW m, NEW top, Pool(m, top), Typed(m), Sane(m), Forest(m),
         NEW d \in 1..Len(m.scopes), NEW v \in Address, Holds(m, d, v)
  PROVE  /\ \A u \in Range(TailsOf(m, v)) : u \in Address /\ Holds(m, d, u)
         /\ \A u \in Owned(m, v) : u \in Address /\ Holds(m, d, u)
<1> DEFINE g == Source(m, v)
<1>1. g \in Address
  BY TypedHeap
<1>2. ASSUME NEW u \in Range(TailsOf(m, v)) PROVE u \in Address /\ Holds(m, d, u)
  <2>1. PICK t \in DOMAIN m.heap[g].tails : u = m.heap[g].tails[t]
    BY DEF Range, TailsOf
  <2>2. m.heap[g].live /\ m.heap[g].key = "S." /\ u \in Vars
    BY <1>1, <2>1 DEF Forest, TailsOwn
  <2>3. m.heap[v].live /\ m.heap[v].key = "S."
    <3>0. v \notin m.left
      BY HeldApart
    <3>1. CASE ~m.heap[v].live
      <4>1. g = NoVar
        BY <3>0, <3>1 DEF Forest, SourcesAlive
      <4> QED BY <2>2, <4>1 DEF Sane
    <3>2. CASE m.heap[v].live
      BY <2>2, <3>0, <3>2 DEF Forest, SourcesAlive
    <3> QED BY <3>1, <3>2
  <2>4. v = GetVar(m, d, "S.") /\ v # NoVar
    <3>1. CASE TailUnder(m, d, v)
      <4>1. PICK s \in DOMAIN TailsOf(m, GetVar(m, d, "S.")) : v = TailsOf(m, GetVar(m, d, "S."))[s]
        BY <3>1 DEF TailUnder
      <4>2. Source(m, GetVar(m, d, "S.")) \in Address
        BY EntryAddress, TypedHeap, Sorts
      <4>3. m.heap[v].key = Compound
        BY <2>3, <4>1, <4>2 DEF TailsOf, Forest, TailsOwn
      <4> QED BY <2>3, <4>3, Names
    <3>2. CASE \E k \in Simple : v = GetVar(m, d, k) /\ v # NoVar
      BY <2>3, <3>2 DEF Forest, EntriesLive
    <3> QED BY <3>1, <3>2 DEF Holds
  <2>5. TailUnder(m, d, u)
    BY <2>1, <2>4 DEF TailUnder, TailsOf
  <2> QED BY <2>2, <2>5, Sorts DEF Holds
<1>3. ASSUME NEW u \in Owned(m, v) PROVE u \in Address /\ Holds(m, d, u)
  <2>1. u = v \/ u \in Range(TailsOf(m, v))
    BY DEF Owned, IsExposed, TailsOf
  <2> QED BY <1>2, <2>1
<1> QED BY <1>2, <1>3

LEMMA WithinSame ==
  ASSUME NEW m, NEW o, NEW n, NEW d, Within(m, o, d), n.heap = o.heap, o.bad => n.bad
  PROVE  Within(m, n, d)
BY DEF Within, Sane

LEMMA SetWithin ==
  ASSUME NEW m, NEW o, NEW top, Pool(o, top), Typed(o), NEW d, Within(m, o, d),
         NEW v \in Address, NEW x, x \in Values \/ o.heap[Source(o, v)].key # "RC",
         Sane(o) /\ o.heap[v].live => Fresh(m, Source(o, v)) \/ Reaches(m, d, Source(o, v))
  PROVE  Within(m, SetValue(o, v, x), d)
<1> DEFINE n == SetValue(o, v, x)
<1>1. /\ n.bad <=> o.bad \/ ~Usable(o, v)
      /\ \A u \in Address : u # Source(o, v) => n.heap[u] = o.heap[u]
      /\ \A u \in Address : n.heap[u].live = o.heap[u].live
  BY PoolFields, SetValueTyped
<1> HIDE DEF n
<1> SUFFICES ASSUME Sane(n), NEW u \in Address, n.heap[u] # m.heap[u]
             PROVE  Fresh(m, u) \/ Reaches(m, d, u)
  BY DEF Within, n
<1>2. Sane(o) /\ o.heap[v].live
  BY <1>1, Sorts DEF Sane, Usable
<1>3. CASE u = Source(o, v)
  BY <1>2, <1>3
<1>4. CASE u # Source(o, v)
  BY <1>1, <1>2, <1>4 DEF Within
<1> QED BY <1>3, <1>4

LEMMA FreeWithin ==
  ASSUME NEW m, NEW o, NEW top, Pool(o, top), Typed(o), NEW d, Within(m, o, d), NEW vs, NoVar \notin vs,
         Sane(o) => \A u \in vs : Fresh(m, u) \/ Reaches(m, d, u)
  PROVE  Within(m, Free(o, vs), d)
<1> DEFINE n == Free(o, vs)
<1>1. /\ n.bad <=> o.bad \/ \E u \in vs : ~o.heap[u].live
      /\ \A u \in Address : u \notin vs => n.heap[u] = o.heap[u]
  BY PoolFields, FreeTyped
<1> HIDE DEF n
<1> SUFFICES ASSUME Sane(n), NEW u \in Address, n.heap[u] # m.heap[u]
             PROVE  Fresh(m, u) \/ Reaches(m, d, u)
  BY DEF Within, n
<1>2. Sane(o)
  BY <1>1, Sorts DEF Sane
<1>3. CASE u \in vs
  BY <1>2, <1>3
<1>4. CASE u \notin vs
  BY <1>1, <1>2, <1>4 DEF Within
<1> QED BY <1>3, <1>4

\* What a search finds is in the scope.
LEMMA FoundHeld ==
  ASSUME NEW m, NEW top, Pool(m, top), Typed(m), Sane(m), Forest(m), NEW d \in 1..Len(m.scopes),
         NEW sym \in Cached \union {Compound}, NEW r, Located(m, d, sym, r), r.var # NoVar
  PROVE  Holds(m, d, r.var)
<1>1. CASE sym # Compound
  <2>1. r.var = GetVar(m, d, Key(sym)) /\ Key(sym) \in Simple
    BY <1>1, Names DEF Located
  <2> QED BY <2>1 DEF Holds
<1>2. CASE sym = Compound
  <2> DEFINE st == GetVar(m, d, "S.")
  <2>1. TailFound(m, st, r) /\ r.found \in BOOLEAN
    BY <1>2 DEF Located
  <2>2. st \in Address
    BY EntryAddress, Sorts
  <2>3. CASE ~r.found
    BY <2>1, <2>3, Sorts DEF TailFound, Holds
  <2>4. CASE r.found
    <3>1. r.tail \in DOMAIN m.heap[Source(m, st)].tails /\ r.var = m.heap[Source(m, st)].tails[r.tail]
      BY <2>1, <2>4 DEF TailFound
    <3>2. st # NoVar
      <4> SUFFICES ASSUME st = NoVar PROVE FALSE
        OBVIOUS
      <4>1. Source(m, NoVar) = NoVar
        BY NoVarSource
      <4>2. m.heap[NoVar].live
        BY <3>1, <4>1, Sorts DEF Forest, TailsOwn
      <4> QED BY <4>2 DEF Sane
    <3> QED BY <3>1, <3>2 DEF Holds, TailUnder, TailsOf
  <2> QED BY <2>1, <2>3, <2>4
<1> QED BY <1>1, <1>2

\* What access() gets is new, or its source is reached from the scope.
LEMMA MadeWithin ==
  ASSUME NEW m, NEW top, Pool(m, top), Fine(m), NEW d \in 1..Len(m.scopes),
         NEW sym \in Cached \union {Compound}, NEW r, Made(m, d, sym, r)
  PROVE  /\ Within(m, r.m, d)
         /\ Sane(r.m) => Fresh(m, Source(r.m, r.var)) \/ Reaches(m, d, Source(r.m, r.var))
<1>1. ASSUME Sane(r.m), NEW v \in Address, r.m.heap[v] # m.heap[v] PROVE Fresh(m, v) \/ Reaches(m, d, v)
  <2> DEFINE st == GetVar(m, d, "S.")
  <2>1. Fresh(m, v) \/ (st # NoVar /\ v = Source(m, st))
    BY <1>1 DEF Made, Touches
  <2>2. st \in Address
    BY EntryAddress, Sorts
  <2>3. st # NoVar => Holds(m, d, st)
    BY Sorts DEF Holds
  <2> QED BY <2>1, <2>2, <2>3 DEF Reaches
<1>2. ASSUME Sane(r.m) PROVE Fresh(m, Source(r.m, r.var)) \/ Reaches(m, d, Source(r.m, r.var))
  <2>1. r.found \in BOOLEAN /\ r.var \in Address
    BY DEF Made
  <2>2. CASE ~r.found
    BY <1>2, <2>2 DEF Made, Source
  <2>3. CASE r.found
    <3>1. r.m.heap = m.heap /\ r.m.scopes = m.scopes
      BY <2>3 DEF Made
    <3>2. /\ \A k : GetVar(r.m, d, k) = GetVar(m, d, k)
          /\ \A v : Source(r.m, v) = Source(m, v)
      BY <3>1 DEF GetVar, Source
    <3>3. CASE sym # Compound
      <4>1. r.var # NoVar /\ r.var = GetVar(m, d, Key(sym)) /\ Key(sym) \in Simple
        BY <1>2, <3>2, <3>3, Names DEF Made
      <4>2. Holds(m, d, r.var)
        BY <4>1 DEF Holds
      <4> QED BY <2>1, <3>2, <4>2 DEF Reaches
    <3>4. CASE sym = Compound
      <4>1. TailUnder(m, d, r.var)
        BY <1>2, <3>1, <3>2, <3>4 DEF Made, TailUnder, TailsOf
      <4> QED BY <2>1, <3>2, <4>1 DEF Reaches, Holds
    <3> QED BY <3>3, <3>4
  <2> QED BY <2>1, <2>2, <2>3
<1> QED BY <1>1, <1>2 DEF Within

LEMMA LoadWithin ==
  ASSUME HeapInv, NEW sym \in Symbols, loadVar(sym)
  PROVE  Within(mem, mem', Depth)
BY LoadGrows DEF HeapInv, Within

LEMMA CreateWithin ==
  ASSUME HeapInv, NEW sym \in Symbols, createVar(sym)
  PROVE  Within(mem, mem', Depth)
<1> DEFINE r == CachedOr(mem, Depth, sym, Access(mem, Depth, sym))
<1>1. Made(mem, Depth, sym, r) /\ Depth \in 1..Len(mem.scopes) /\ sym \in Cached \union {Compound}
  BY DepthIsScope, CachedMade, Names DEF HeapInv, Inv, Symbols
<1>2. mem' = r.m
  BY DEF createVar
<1> HIDE DEF r
<1> QED BY <1>1, <1>2, MadeWithin DEF HeapInv, Inv

\* The target that is still alive is in the scope that is the current one again.
LEMMA AssignWithin ==
  ASSUME HeapInv, NEW x \in Data, assign(x)
  PROVE  Within(mem, mem', Depth)
<1> DEFINE m1 == SetValue(mem, target.var, x)
<1>1. Inv /\ Fine(mem) /\ target.var \in Address /\ Pool(mem, idMax) /\ Typed(mem) /\ Pointed(mem)
      /\ target.depth = Depth
  BY DEF HeapInv, TargetType, Inv, Fine, assign, Runs
<1>2. Within(mem, mem, Depth)
  BY DEF Within
<1>3. ASSUME Sane(mem), mem.heap[target.var].live
      PROVE  Reaches(mem, Depth, Source(mem, target.var)) /\ Holds(mem, Depth, target.var)
  <2>1. (\E k \in Simple : target.var = GetVar(mem, Depth, k)) \/ TailUnder(mem, Depth, target.var)
    BY <1>1, <1>3 DEF Pointed, TargetRight
  <2>2. target.var # NoVar
    BY <1>3 DEF Sane
  <2>3. Holds(mem, Depth, target.var)
    BY <2>1, <2>2 DEF Holds
  <2> QED BY <1>1, <2>3 DEF Reaches
<1>4. Within(mem, m1, Depth)
  BY <1>1, <1>2, <1>3, SetWithin, Sorts
<1>5. /\ Grows(mem, m1) /\ Pool(m1, idMax) /\ m1.scopes = mem.scopes
  <2>1. ASSUME Sane(mem) PROVE target.var \notin mem.left
    <3>1. Forest(mem) /\ Depth \in 1..Len(mem.scopes)
      BY <1>1, <2>1, DepthIsScope DEF Fine
    <3>2. CASE mem.heap[target.var].live
      BY <1>1, <1>3, <2>1, <3>1, <3>2, HeldApart
    <3>3. CASE ~mem.heap[target.var].live
      BY <2>1, <3>1, <3>3, NotLeft
    <3> QED BY <3>2, <3>3
  <2> QED BY <1>1, <2>1, SetValueGrows, Sorts
<1>6. Depth \in 1..Len(m1.scopes) /\ Fine(m1)
  BY <1>1, <1>5, DepthIsScope DEF Grows
<1>7. mem' = m1 \/ mem' = SetStem(m1)
  BY DEF assign
<1> HIDE DEF m1
<1>8. Grows(m1, SetStem(m1)) /\ SetStem(m1).heap = m1.heap
  BY <1>5, <1>6, SetStemGrows
<1>9. Within(mem, SetStem(m1), Depth)
  BY <1>4, <1>8, WithinSame DEF Grows, Adds
<1> QED BY <1>4, <1>7, <1>9

LEMMA SetRCWithin ==
  ASSUME HeapInv, NEW x \in Data, setRC(x)
  PROVE  Within(mem, mem', Depth)
<1> DEFINE v == GetCached(mem, Depth, "rc")
<1> DEFINE a == Access(mem, Depth, "rc")
<1> DEFINE r == CachedOr(mem, Depth, "rc", a)
<1>0. Inv /\ Fine(mem) /\ Pool(mem, idMax) /\ Depth \in 1..Len(mem.scopes) /\ Pointed(mem) /\ Typed(mem)
  BY DepthIsScope DEF HeapInv, Inv, setRC, Runs, Fine
<1>1. "rc" \in Cached /\ "rc" # Compound
  BY Names DEF Cached, Compound
<1>2. Made(mem, Depth, "rc", a)
  BY <1>0, <1>1, AccessMade
<1>3. Pool(a.m, idMax)
  BY <1>0, <1>1, AccessKeeps DEF Reached
<1>4. mem' = SetValue(r.m, r.var, x)
  BY DEF setRC
<1>5. CASE v = NoVar
  <2>1. r = a
    BY <1>1, <1>5 DEF CachedOr
  <2>2. /\ Within(mem, a.m, Depth)
        /\ Sane(a.m) => Fresh(mem, Source(a.m, a.var)) \/ Reaches(mem, Depth, Source(a.m, a.var))
    BY <1>0, <1>1, <1>2, MadeWithin
  <2>3. a.var \in Address /\ Typed(a.m)
    BY <1>2 DEF Made, Fine
  <2> HIDE DEF r, a
  <2> QED BY <1>3, <1>4, <2>1, <2>2, <2>3, SetWithin, Sorts
<1>6. CASE v # NoVar
  <2>1. r = Found(Use(mem, {v}), v, TRUE, Null)
    BY <1>1, <1>6 DEF CachedOr
  <2>2. r.m = Use(mem, {v}) /\ r.var = v
    BY <2>1 DEF Found
  <2>3. mem.cache["rc"].id = mem.scopes[Depth].id /\ mem.cache["rc"].var = v
    BY <1>6 DEF GetCached
  <2>4. mem.cache["rc"].var \in Address
    BY <1>0, <1>1 DEF Pool, CacheType
  <2>5. Grows(mem, r.m) /\ r.m.heap = mem.heap
    BY <1>0, <2>2, UseGrows
  <2>6. Pool(r.m, idMax)
    BY <1>0, <2>2, HeapOnly, AlikePool, PoolFields
  <2> HIDE DEF v, r
  <2>7. Within(mem, r.m, Depth)
    BY <2>5 DEF Within
  <2>8. ASSUME r.m.heap[v].live PROVE Reaches(mem, Depth, Source(r.m, v))
    <3>1. v = GetVar(mem, Depth, "RC")
      BY <1>0, <2>3, <2>5, <2>8 DEF Pointed, RcRight
    <3>2. Holds(mem, Depth, v)
      BY <1>6, <3>1, Sorts DEF Holds
    <3> QED BY <2>3, <2>4, <2>5, <3>2 DEF Reaches, Source
  <2>9. Typed(r.m)
    BY <2>5 DEF Grows, Fine
  <2> QED BY <1>4, <2>2, <2>3, <2>4, <2>6, <2>7, <2>8, <2>9, SetWithin, Sorts
<1> QED BY <1>5, <1>6

LEMMA SetValueActWithin ==
  ASSUME HeapInv, NEW k \in Symbols, NEW x \in Data, setValue(k, x)
  PROVE  Within(mem, mem', Depth)
<1> DEFINE r == Find(mem, Depth, k)
<1> DEFINE c == IF r.found THEN r
                ELSE IF k = Compound THEN CreateCompound(r, Depth) ELSE CreateSimple(r.m, Depth, k)
<1>0. Fine(mem) /\ Pool(mem, idMax) /\ Depth \in 1..Len(mem.scopes) /\ k \in Cached \union {Compound}
  BY DepthIsScope, Names DEF HeapInv, Inv, Symbols
<1>1. Made(mem, Depth, k, c) /\ Pool(c.m, idMax)
  BY <1>0, FoundOrMade DEF Reached
<1>2. mem' = SetValue(c.m, c.var, x)
  BY DEF setValue
<1> HIDE DEF c
<1>3. /\ Within(mem, c.m, Depth)
      /\ Sane(c.m) => Fresh(mem, Source(c.m, c.var)) \/ Reaches(mem, Depth, Source(c.m, c.var))
  BY <1>0, <1>1, MadeWithin
<1>4. c.var \in Address /\ Typed(c.m)
  BY <1>1 DEF Made, Fine
<1> QED BY <1>1, <1>2, <1>3, <1>4, SetWithin, Sorts

\* Of what is true of a memory that a search has gone through, what is true of the first.
LEMMA WithinAfter ==
  ASSUME NEW m, NEW o, NEW n, NEW d, o.heap = m.heap, o.scopes = m.scopes, Within(o, n, d)
  PROVE  Within(m, n, d)
<1>1. \A v : Fresh(o, v) <=> Fresh(m, v)
  BY DEF Fresh
<1>2. \A k : GetVar(o, d, k) = GetVar(m, d, k)
  BY DEF GetVar
<1>3. \A v : Source(o, v) = Source(m, v) /\ TailsOf(o, v) = TailsOf(m, v)
  BY DEF Source, TailsOf
<1>4. \A v : Holds(o, d, v) <=> Holds(m, d, v)
  BY <1>2, <1>3 DEF Holds, TailUnder
<1>5. \A v : Reaches(o, d, v) <=> Reaches(m, d, v)
  BY <1>3, <1>4 DEF Reaches
<1> QED BY <1>1, <1>5 DEF Within

LEMMA ClearWithin ==
  ASSUME NEW m, NEW top, Pool(m, top), Fine(m), Sane(m), NEW d \in 1..Len(m.scopes),
         NEW v \in Address, v # NoVar, Holds(m, d, v), NEW x, x \in Values \/ m.heap[Source(m, v)].key # "RC"
  PROVE  /\ Within(m, SetValue(m, v, x), d) /\ Within(m, ClearTail(m, v), d)
         /\ Within(m, ClearTail(SetValue(m, v, x), v), d)
         /\ Within(m, Free(m, Owned(m, v)), d)
<1> DEFINE n == SetValue(m, v, x)
<1>1. Typed(m) /\ Forest(m) /\ DOMAIN m = Fields /\ Within(m, m, d) /\ Source(m, v) \in Address
  BY PoolFields, TypedHeap DEF Fine, Within
<1>2. Reaches(m, d, Source(m, v))
  BY DEF Reaches
<1>3. Within(m, n, d)
  BY <1>1, <1>2, SetWithin
<1>4. /\ \A u \in Range(TailsOf(m, v)) : u \in Address /\ Holds(m, d, u)
      /\ \A u \in Owned(m, v) : u \in Address /\ Holds(m, d, u)
  BY <1>1, HeldTails
<1>5. \A u \in Address : Holds(m, d, u) => Reaches(m, d, u)
  BY DEF Reaches
<1>6. NoVar \notin Range(TailsOf(m, v)) /\ NoVar \notin Owned(m, v)
  <2>1. \A t \in DOMAIN m.heap[Source(m, v)].tails : m.heap[Source(m, v)].tails[t] \in Vars
    BY <1>1 DEF Forest, TailsOwn
  <2>2. NoVar \notin Range(TailsOf(m, v))
    BY <2>1, Sorts DEF Range, TailsOf
  <2> QED BY <2>2 DEF Owned, IsExposed, TailsOf
<1>7. Within(m, ClearTail(m, v), d) /\ Within(m, Free(m, Owned(m, v)), d)
  BY <1>1, <1>4, <1>5, <1>6, FreeWithin DEF ClearTail
<1>8. Within(m, ClearTail(n, v), d)
  <2>1. Pool(n, top) /\ Typed(n)
    BY <1>1, HeldApart, SetValueGrows DEF Grows, Fine
  <2>2. TailsOf(n, v) = TailsOf(m, v)
    BY <1>1, SetValueTyped DEF TailsOf, Source
  <2> HIDE DEF n
  <2> QED BY <1>3, <1>4, <1>5, <1>6, <2>1, <2>2, FreeWithin DEF ClearTail
<1> QED BY <1>3, <1>7, <1>8

LEMMA RemoveWithin ==
  ASSUME NEW m, NEW top, Pool(m, top), Fine(m), Sane(m), NEW d \in 1..Len(m.scopes), NEW k \in Simple,
         GetVar(m, d, k) # NoVar
  PROVE  Within(m, RemoveVar(m, d, k), d)
<1> DEFINE v == GetVar(m, d, k)
<1> DEFINE o == Free(m, Owned(m, v))
<1>1. RemoveVar(m, d, k) = PutVar(o, d, k, NoVar)
  BY DEF RemoveVar
<1>2. v \in Address /\ Holds(m, d, v)
  BY EntryAddress DEF Holds
<1>3. Within(m, o, d)
  BY <1>2, ClearWithin, Sorts
<1>4. DOMAIN o = Fields
  BY PoolFields, FreeTyped DEF Fine
<1> HIDE DEF o
<1> QED BY <1>1, <1>3, <1>4, PutVarHeap, WithinSame

LEMMA DropWithin ==
  ASSUME HeapInv, NEW sym \in Symbols, dropVar(sym)
  PROVE  Within(mem, mem', Depth)
<1> DEFINE r == CachedOr(mem, Depth, sym, Get(mem, Depth, sym))
<1> DEFINE n == IF r.var = NoVar \/ r.m.bad THEN r.m ELSE Dropped(r, Depth, sym)
<1>0. Inv /\ Fine(mem) /\ Fits(mem) /\ Pool(mem, idMax) /\ Depth \in 1..Len(mem.scopes)
      /\ sym \in Cached \union {Compound}
  BY DepthIsScope, Names DEF HeapInv, Inv, Symbols
<1>1. Located(mem, Depth, sym, Get(mem, Depth, sym))
  BY <1>0, GetLocated DEF Fine
<1>2. Located(mem, Depth, sym, r)
  BY <1>0, <1>1, CachedLocated DEF Fine
<1>3. Reached(mem, idMax, Depth, Get(mem, Depth, sym).m)
  BY <1>0, GetKeeps, SearchedReached
<1>4. Pool(r.m, idMax)
  BY <1>0, <1>3, CachedOrReached, ReachedKept DEF Kept
<1>5. mem' = IF sym = Compound THEN n ELSE Uncache(n, sym)
  BY DEF dropVar
<1> HIDE DEF r
<1>6. Fine(r.m) /\ r.m.heap = mem.heap /\ r.m.scopes = mem.scopes /\ r.var \in Address
  BY <1>0, <1>2, LocatedFine DEF Located
<1>7. Within(mem, n, Depth) /\ DOMAIN n = Fields
  <2>1. CASE r.var = NoVar \/ r.m.bad
    BY <1>4, <1>6, <2>1, PoolFields DEF Within
  <2>2. CASE r.var # NoVar /\ ~r.m.bad
    <3>1. n = Dropped(r, Depth, sym)
      BY <2>2
    <3>2. Sane(r.m) /\ Sane(mem) /\ Forest(mem) /\ Typed(mem)
      <4>1. ~mem.bad
        BY DEF dropVar, Runs
      <4> QED BY <1>0, <1>6, <2>2, <4>1 DEF Sane, Fits, Fine
    <3>3. Holds(mem, Depth, r.var)
      BY <1>0, <1>2, <2>2, <3>2, FoundHeld
    <3>4. Holds(r.m, Depth, r.var)
      BY <1>6, <3>3 DEF Holds, TailUnder, TailsOf, Source, GetVar
    <3>5. sym # Compound => r.var = GetVar(r.m, Depth, sym) /\ sym \in Simple /\ Key(sym) = sym
      <4>1. sym # Compound => sym \in Cached /\ Key(sym) = sym /\ sym \in Simple
        BY Names DEF Symbols
      <4> QED BY <1>2, <1>6, <4>1 DEF Located, GetVar
    <3>6. Depth = Len(r.m.scopes) /\ Depth >= 1 /\ Depth \in 1..Len(r.m.scopes)
      BY <1>0, <1>6 DEF Depth
    <3>0. r.var \notin r.m.left
      BY <1>4, <1>6, <3>2, <3>4, <3>6, HeldApart DEF Fine
    <3>7. DOMAIN n = Fields
      BY <1>4, <1>6, <2>2, <3>0, <3>1, <3>2, <3>5, <3>6, DroppedShrinks
    <3>8. Within(r.m, n, Depth)
      <4>1. CASE sym = Compound
        <5>1. n = SetValue(r.m, r.var, Null)
          BY <3>1, <4>1 DEF Dropped
        <5> QED BY <1>4, <1>6, <2>2, <3>2, <3>4, <3>6, <5>1, ClearWithin, Sorts
      <4>2. CASE sym # Compound
        <5>1. \/ n = RemoveVar(r.m, Depth, sym)
              \/ n = ClearTail(r.m, r.var)
              \/ n = ClearTail(SetValue(r.m, r.var, sym), r.var)
          BY <3>1, <3>5, <4>2 DEF Dropped
        <5>2. CASE n = RemoveVar(r.m, Depth, sym)
          BY <1>4, <1>6, <2>2, <3>2, <3>5, <3>6, <4>2, <5>2, RemoveWithin
        <5>3. r.m.heap[r.var].live /\ r.m.heap[r.var].key = sym /\ Forest(r.m)
          BY <1>6, <2>2, <3>2, <3>5, <3>6, <4>2 DEF Fine, Forest, EntriesLive
        <5>4. sym \in Values \/ r.m.heap[Source(r.m, r.var)].key # "RC"
          BY <1>6, <3>0, <3>2, <3>5, <4>2, <5>3, LiveUsable, Sorts
        <5> QED BY <1>4, <1>6, <2>2, <3>2, <3>4, <3>6, <5>1, <5>2, <5>4, ClearWithin
      <4> QED BY <4>1, <4>2
    <3> QED BY <1>6, <3>7, <3>8, WithinAfter
  <2> QED BY <2>1, <2>2
<1> HIDE DEF n
<1>8. Uncache(n, sym).heap = n.heap /\ Uncache(n, sym).bad = n.bad
  BY <1>7, CacheHeap
<1> QED BY <1>5, <1>7, <1>8, WithinSame

LEMMA DropIndirectWithin ==
  ASSUME HeapInv, NEW k \in Symbols, dropIndirect(k)
  PROVE  Within(mem, mem', Depth)
<1> DEFINE r == Find(mem, Depth, k)
<1> DEFINE n == r.m
<1> DEFINE v == r.var
<1>0. Inv /\ Fine(mem) /\ Fits(mem) /\ Pool(mem, idMax) /\ Depth \in 1..Len(mem.scopes)
      /\ k \in Cached \union {Compound} /\ ~mem.bad
  BY DepthIsScope, Names DEF HeapInv, Inv, Symbols, dropIndirect, Runs
<1>1. Located(mem, Depth, k, r)
  BY <1>0, FindLocated DEF Fine
<1>2. Pool(n, idMax)
  BY <1>0, FindKeeps DEF Symbols, Searched
<1>3. mem' = IF v = NoVar \/ n.bad THEN n
             ELSE IF IsExposed(n, v) THEN ClearTail(SetValue(n, v, k), v)
             ELSE IF k = Compound THEN SetValue(n, v, Null)
             ELSE Uncache(RemoveVar(n, Depth, k), k)
  BY DEF dropIndirect, Uncached
<1> HIDE DEF r
<1>4. Fine(n) /\ n.heap = mem.heap /\ n.scopes = mem.scopes /\ v \in Address
  BY <1>0, <1>1, LocatedFine DEF Located
<1>5. CASE v = NoVar \/ n.bad
  BY <1>3, <1>4, <1>5 DEF Within
<1>6. CASE v # NoVar /\ ~n.bad
  <2>1. Sane(n) /\ Forest(n) /\ Sane(mem) /\ Forest(mem) /\ Typed(mem) /\ Depth \in 1..Len(n.scopes)
    BY <1>0, <1>4, <1>6 DEF Sane, Fits, Fine
  <2>2. Holds(mem, Depth, v)
    BY <1>0, <1>1, <1>6, <2>1, FoundHeld
  <2>3. Holds(n, Depth, v)
    BY <1>4, <2>2 DEF Holds, TailUnder, TailsOf, Source, GetVar
  <2>9. v \notin n.left
    BY <1>2, <1>4, <2>1, <2>3, HeldApart DEF Fine
  <2>4. k # Compound => v = GetVar(n, Depth, k) /\ k \in Simple
    <3>1. k # Compound => k \in Cached /\ Key(k) = k /\ k \in Simple
      BY Names DEF Symbols
    <3> QED BY <1>1, <1>4, <3>1 DEF Located, GetVar
  <2>5. k \in Values \/ n.heap[Source(n, v)].key # "RC"
    <3>1. CASE k # Compound
      <4>1. n.heap[v].live /\ n.heap[v].key = k
        BY <1>6, <2>1, <2>4, <3>1 DEF Forest, EntriesLive
      <4> QED BY <1>4, <2>1, <2>4, <2>9, <3>1, <4>1, LiveUsable, Sorts
    <3>2. CASE k = Compound /\ TailUnder(n, Depth, v)
      <4> DEFINE g == Source(n, GetVar(n, Depth, "S."))
      <4>1. PICK t \in DOMAIN n.heap[g].tails : v = n.heap[g].tails[t]
        BY <3>2 DEF TailUnder, TailsOf
      <4>2. g \in Address
        BY <1>2, <1>4, <2>1, EntryAddress, TypedHeap, Sorts DEF Fine
      <4>3. r.found => Usable(n, v)
        BY <1>1, <1>4, <1>6, <3>2 DEF Located, TailFound, Usable, Source
      <4>4. ~r.found => v = GetVar(n, Depth, "S.")
        BY <1>1, <1>4, <3>2 DEF Located, TailFound, GetVar
      <4>5. v # GetVar(n, Depth, "S.")
        BY <1>2, <2>1, <3>2, <4>1, <4>2, EntryNoTail, Sorts DEF TailUnder
      <4>7. n.heap[v].live
        BY <1>1, <4>3, <4>4, <4>5 DEF Located, Usable
      <4>6. n.heap[v].live /\ n.heap[v].key = Compound
        <5>1. TailsOwn(n)
          BY <2>1 DEF Forest
        <5> QED BY <4>1, <4>2, <4>7, <5>1 DEF TailsOwn
      <4> QED BY <1>4, <2>1, <2>9, <4>6, LiveUsable, Sorts
    <3>3. CASE k = Compound /\ ~TailUnder(n, Depth, v)
      <4>1. ~r.found
        <5> SUFFICES ASSUME r.found PROVE FALSE
          BY <1>1 DEF Located
        <5>1. r.tail \in DOMAIN TailsOf(n, GetVar(n, Depth, "S.")) /\ v = TailsOf(n, GetVar(n, Depth, "S."))[r.tail]
          BY <1>1, <1>4, <3>3 DEF Located, TailFound, TailsOf, Source, GetVar
        <5>2. GetVar(n, Depth, "S.") # NoVar
          <6> SUFFICES ASSUME GetVar(n, Depth, "S.") = NoVar PROVE FALSE
            OBVIOUS
          <6>1. Source(n, NoVar) = NoVar
            BY <2>1, NoVarSource
          <6>2. n.heap[NoVar].live
            BY <2>1, <5>1, <6>1, Sorts DEF Forest, TailsOwn, TailsOf
          <6> QED BY <2>1, <6>2 DEF Sane
        <5> QED BY <3>3, <5>1, <5>2 DEF TailUnder
      <4>2. v = GetVar(n, Depth, "S.")
        BY <1>1, <1>4, <3>3, <4>1 DEF Located, TailFound, GetVar
      <4>3. n.heap[v].live /\ n.heap[v].key = "S."
        BY <1>6, <2>1, <4>2, Sorts DEF Forest, EntriesLive
      <4> QED BY <1>4, <2>1, <2>9, <4>3, LiveUsable, Sorts
    <3> QED BY <3>1, <3>2, <3>3
  <2>6. /\ Within(n, ClearTail(SetValue(n, v, k), v), Depth)
        /\ Within(n, SetValue(n, v, Null), Depth)
    BY <1>2, <1>4, <1>6, <2>1, <2>3, <2>5, ClearWithin, Sorts
  <2>7. k # Compound /\ ~IsExposed(n, v) => Within(n, Uncache(RemoveVar(n, Depth, k), k), Depth)
    <3> SUFFICES ASSUME k # Compound, ~IsExposed(n, v) PROVE Within(n, Uncache(RemoveVar(n, Depth, k), k), Depth)
      OBVIOUS
    <3> DEFINE o == RemoveVar(n, Depth, k)
    <3>1. Within(n, o, Depth)
      BY <1>2, <1>4, <1>6, <2>1, <2>4, RemoveWithin
    <3>2. Depth = Len(n.scopes) /\ Depth >= 1
      BY <1>4, <2>1 DEF Depth
    <3>3. DOMAIN o = Fields
      BY <1>2, <1>4, <1>6, <2>1, <2>4, <3>2, RemoveShrinks
    <3> HIDE DEF o
    <3>4. Uncache(o, k).heap = o.heap /\ Uncache(o, k).bad = o.bad
      BY <3>3, CacheHeap
    <3>5. Within(n, Uncache(o, k), Depth)
      BY <3>1, <3>4, WithinSame
    <3> QED BY <3>5 DEF o
  <2>8. Within(n, mem', Depth)
    BY <1>3, <1>6, <2>6, <2>7
  <2> QED BY <1>4, <2>8, WithinAfter
<1> QED BY <1>5, <1>6

LEMMA PopWithin ==
  ASSUME HeapInv, popScope
  PROVE  Within(mem, mem', Depth)
<1> DEFINE vs == Range(mem.scopes[Depth].map) \ {NoVar}
<1> DEFINE F == UNION {Owned(mem, v) : v \in vs}
<1> DEFINE o == Free(mem, F)
<1>1. /\ Inv /\ Fine(mem) /\ Pool(mem, idMax) /\ Depth \in 1..Len(mem.scopes) /\ Sane(mem) /\ Typed(mem)
      /\ Forest(mem) /\ DOMAIN mem = Fields
  BY DepthIsScope, PoolFields DEF HeapInv, Inv, Fine, Sane, Fits, popScope, Runs
<1>2. mem' = [o EXCEPT !.scopes = SubSeq(@, 1, Depth - 1)]
  BY DEF popScope
<1>3. \A v \in vs : \E k \in Simple : v = GetVar(mem, Depth, k) /\ v # NoVar
  <2>1. DOMAIN mem.scopes[Depth].map = Simple
    BY <1>1, ScopesTyped DEF ScopeType
  <2> QED BY <2>1 DEF Range, GetVar
<1>4. \A u \in F : \E v \in vs : u \in Owned(mem, v)
  OBVIOUS
<1>5. DOMAIN o = Fields
  BY <1>1, FreeTyped
<1> HIDE DEF vs, F
<1>6. ASSUME NEW u \in F PROVE u # NoVar /\ Reaches(mem, Depth, u)
  <2>1. PICK v \in vs : u \in Owned(mem, v)
    BY <1>4
  <2>2. PICK k \in Simple : v = GetVar(mem, Depth, k) /\ v # NoVar
    BY <1>3
  <2>3. v \in Address /\ Holds(mem, Depth, v)
    BY <1>1, <2>2, EntryAddress DEF Holds
  <2>4. u \in Address /\ Holds(mem, Depth, u)
    BY <1>1, <2>1, <2>3, HeldTails
  <2>5. NoVar \notin Owned(mem, v)
    BY <1>1, <2>2, OwnedAlone
  <2> QED BY <2>1, <2>4, <2>5 DEF Reaches
<1>7. Within(mem, mem, Depth)
  BY DEF Within
<1>8. NoVar \notin F
  BY <1>6
<1>9. Within(mem, o, Depth)
  BY <1>1, <1>6, <1>7, <1>8, FreeWithin
<1> HIDE DEF o
<1>10. mem'.heap = o.heap /\ mem'.bad = o.bad
  BY <1>2, <1>5 DEF Fields
<1> QED BY <1>9, <1>10, WithinSame

-----------------------------------------------------------------------------
(***************************************************************************)
(* The properties.                                                         *)
(***************************************************************************)
LEMMA HeapTypes == HeapInv => TypeOK
<1> SUFFICES ASSUME HeapInv PROVE TypeOK
  OBVIOUS
<1>1. Pool(mem, idMax) /\ Typed(mem) /\ idMax \in 1..MaxId /\ MaxId \in Nat
  BY BoundsAreNat DEF HeapInv, Inv, Fine
<1>2. DOMAIN mem.heap = Address /\ mem.left \subseteq Address /\ mem.bad \in BOOLEAN
  BY <1>1 DEF Typed
<1>3. ASSUME NEW v \in Address PROVE IsVariable(mem.heap[v])
  <2>1. mem.heap[v] \in Variable
    BY <1>1, TypedHeap
  <2>2. mem.heap[v].tails \in Maps
    BY <2>1 DEF Variable
  <2>3. DOMAIN mem.heap[v].tails \subseteq Tails /\ Range(mem.heap[v].tails) \subseteq Address
    BY <2>2, MapsElim DEF Range
  <2> QED BY <2>1, <2>3 DEF Variable, IsVariable
<1>4. mem.scopes \in Seq([id : 1..MaxId, map : [Simple -> Address]])
  <2>1. ScopeType(idMax) \subseteq [id : 1..MaxId, map : [Simple -> Address]]
    BY <1>1 DEF ScopeType
  <2> QED BY <1>1, <2>1, SeqMonotonic DEF Pool
<1>5. mem.cache \in [Cached -> [id : {-1} \union 1..MaxId, var : Address]]
  <2>1. CacheType(idMax) \subseteq [id : {-1} \union 1..MaxId, var : Address]
    BY <1>1 DEF CacheType
  <2> QED BY <1>1, <2>1 DEF Pool
<1>6. target \in [var : Address, depth : 0..MaxDepth, stem : BOOLEAN]
  BY DEF HeapInv, TargetType
<1> QED BY <1>1, <1>2, <1>3, <1>4, <1>5, <1>6 DEF TypeOK

\* What is in scope i: its entries, and the tails of its own stem.
LEMMA ScopeElim ==
  ASSUME Inv, Forest(mem), NEW i \in 1..Depth, NEW v \in Scope(i)
  PROVE  \/ \E k \in Simple : v = GetVar(mem, i, k) /\ v # NoVar
         \/ TailIn(mem, i, v) /\ ~IsExposed(mem, GetVar(mem, i, "S."))
<1> DEFINE vs == Range(mem.scopes[i].map) \ {NoVar}
<1>1. i \in 1..Len(mem.scopes) /\ DOMAIN mem.scopes[i].map = Simple
  BY ScopesTyped DEF Inv, Depth, ScopeType
<1>2. \A u \in vs : \E k \in Simple : u = GetVar(mem, i, k) /\ u # NoVar
  BY <1>1 DEF Range, GetVar
<1>3. v \in vs \/ \E u \in vs : v \in Owned(mem, u)
  BY DEF Scope
<1>4. CASE v \in vs
  BY <1>2, <1>4
<1>5. ASSUME NEW u \in vs, v \in Owned(mem, u), v \notin vs
      PROVE  TailIn(mem, i, v) /\ ~IsExposed(mem, GetVar(mem, i, "S."))
  <2>1. PICK k \in Simple : u = GetVar(mem, i, k) /\ u # NoVar
    BY <1>2
  <2>2. ~IsExposed(mem, u) /\ \E t \in DOMAIN mem.heap[u].tails : v = mem.heap[u].tails[t]
    BY <1>5 DEF Owned, Range
  <2>3. mem.heap[u].key = k /\ u \in Address
    BY <1>1, <2>1, EntryAddress DEF Forest, EntriesLive, Inv
  <2>4. k = "S."
    BY <2>2, <2>3 DEF Forest, TailsOwn
  <2> QED BY <2>1, <2>2, <2>4 DEF TailIn
<1> QED BY <1>3, <1>4, <1>5

LEMMA ScopeIntro ==
  ASSUME Inv, Forest(mem), NEW i \in 1..Depth
  PROVE  /\ \A k \in Simple : GetVar(mem, i, k) # NoVar => GetVar(mem, i, k) \in Scope(i)
         /\ \A v : TailIn(mem, i, v) => v \in Scope(i)
<1> DEFINE vs == Range(mem.scopes[i].map) \ {NoVar}
<1>1. i \in 1..Len(mem.scopes) /\ DOMAIN mem.scopes[i].map = Simple
  BY ScopesTyped DEF Inv, Depth, ScopeType
<1>2. \A k \in Simple : GetVar(mem, i, k) # NoVar => GetVar(mem, i, k) \in vs
  BY <1>1 DEF Range, GetVar
<1>3. vs \subseteq Scope(i) /\ \A u \in vs : Owned(mem, u) \subseteq Scope(i)
  BY DEF Scope
<1>4. ASSUME NEW v, TailIn(mem, i, v) PROVE v \in Scope(i)
  <2> DEFINE g == GetVar(mem, i, "S.")
  <2>1. g \in vs /\ g \in Address
    BY <1>1, <1>2, <1>4, EntryAddress, Sorts DEF TailIn, Inv
  <2>2. PICK t \in DOMAIN mem.heap[g].tails : v = mem.heap[g].tails[t]
    BY <1>4 DEF TailIn
  <2>3. mem.heap[g].src = g
    BY <2>1, <2>2 DEF Forest, TailsOwn
  <2>4. v \in Owned(mem, g)
    BY <2>2, <2>3 DEF Owned, Range, IsExposed, Source
  <2> QED BY <1>3, <2>1, <2>4
<1> QED BY <1>2, <1>3, <1>4

\* A tail of a scope's own stem is a tail, and was not left out.
LEMMA TailInTails ==
  ASSUME NEW m, NEW top, Pool(m, top), Sane(m), Forest(m),
         NEW i \in 1..Len(m.scopes), NEW v, TailIn(m, i, v)
  PROVE  InTails(m, v) /\ v \notin m.left
<1>1. GetVar(m, i, "S.") \in Address
  BY EntryAddress, Sorts
<1>2. InTails(m, v)
  BY <1>1 DEF TailIn, InTails
<1> QED BY <1>2, NotLeft

LEMMA HeapSources == HeapInv => SourcesLive
<1> SUFFICES ASSUME HeapInv, ~mem.bad, NEW i \in 1..Depth, NEW v \in Scope(i), mem.heap[v].live
             PROVE  /\ mem.heap[v].src \in Live
                    /\ ~IsExposed(mem, Source(mem, v))
                    /\ \E j \in 1..i : Source(mem, v) \in Scope(j)
  BY DEF SourcesLive
<1>1. Inv /\ Pool(mem, idMax) /\ Sane(mem) /\ Typed(mem) /\ Forest(mem) /\ i \in 1..Len(mem.scopes)
      /\ Len(mem.scopes) \in Nat
  BY EntryAddress DEF HeapInv, Inv, Fine, Fits, Sane, Depth
<1>2. \A j \in 1..i : j \in 1..Depth
  BY <1>1 DEF Depth
<1>3. CASE \E k \in Simple : v = GetVar(mem, i, k) /\ v # NoVar
  <2>1. PICK k \in Simple : v = GetVar(mem, i, k) /\ v # NoVar
    BY <1>3
  <2>2. PICK j \in 1..i : GetVar(mem, j, k) = Source(mem, v)
    BY <1>1, <2>1, SourceBelow
  <2>3. v \in Address /\ v \notin mem.left
    BY <1>1, <2>1, EntryAddress, NotLeft DEF InScopes
  <2>4. /\ mem.heap[Source(mem, v)].live /\ Source(mem, Source(mem, v)) = Source(mem, v)
        /\ Source(mem, v) \in Address
    BY <1>1, <2>3, TypedHeap DEF Forest, SourcesAlive
  <2>5. Source(mem, v) # NoVar
    BY <1>1, <2>4 DEF Sane
  <2>6. Source(mem, v) \in Scope(j)
    BY <1>1, <1>2, <2>2, <2>5, ScopeIntro
  <2> QED BY <2>4, <2>5, <2>6, Sorts DEF Live, IsExposed, Source
<1>4. CASE TailIn(mem, i, v)
  <2>1. v \in Address
    <3>1. GetVar(mem, i, "S.") \in Address
      BY <1>1, EntryAddress, Sorts
    <3> QED BY <1>1, <1>4, <3>1, Sorts DEF TailIn, Forest, TailsOwn
  <2>6. v \notin mem.left
    BY <1>1, <1>4, TailInTails
  <2>2. PICK j \in 1..i : TailIn(mem, j, Source(mem, v))
    BY <1>1, <1>4, <2>1, TailSource
  <2>3. /\ mem.heap[Source(mem, v)].live /\ Source(mem, Source(mem, v)) = Source(mem, v)
        /\ Source(mem, v) \in Address
    BY <1>1, <2>1, <2>6, TypedHeap DEF Forest, SourcesAlive
  <2>4. Source(mem, v) # NoVar
    BY <1>1, <2>3 DEF Sane
  <2>5. Source(mem, v) \in Scope(j)
    BY <1>1, <1>2, <2>2, ScopeIntro
  <2> QED BY <2>3, <2>4, <2>5, Sorts DEF Live, IsExposed, Source
<1> QED BY <1>1, <1>3, <1>4, ScopeElim

LEMMA HeapOwned == HeapInv => OwnedOnce
<1> SUFFICES ASSUME HeapInv, ~mem.bad PROVE OwnedOnce
  BY DEF OwnedOnce
<1>1. Inv /\ Pool(mem, idMax) /\ Sane(mem) /\ Typed(mem) /\ Forest(mem) /\ Depth = Len(mem.scopes)
  BY DEF HeapInv, Inv, Fine, Fits, Sane, Depth
<1>2. ASSUME NEW v \in Live \ mem.left PROVE \E i \in 1..Depth : v \in Scope(i)
  <2>1. v \in Address /\ v # NoVar /\ mem.heap[v].live /\ v \notin mem.left
    BY Sorts DEF Live
  <2>2. CASE InScopes(mem, v)
    <3>1. PICK i \in 1..Depth, k \in Simple : v = GetVar(mem, i, k)
      BY <1>1, <2>2 DEF InScopes
    <3>2. v \in Scope(i)
      BY <1>1, <2>1, <3>1, ScopeIntro
    <3> QED BY <3>2
  <2>3. CASE ~InScopes(mem, v)
    <3>1. InTails(mem, v)
      BY <1>1, <2>1, <2>3 DEF Forest, AllOwned
    <3>2. mem.heap[v].key = Compound
      BY <2>1, <3>1, <1>1 DEF InTails, Forest, TailsOwn
    <3>3. PICK i \in 1..Depth : TailIn(mem, i, v)
      BY <1>1, <2>1, <3>2, CompoundIsTail
    <3>4. v \in Scope(i)
      BY <1>1, <3>3, ScopeIntro
    <3> QED BY <3>4
  <2> QED BY <2>2, <2>3
<1>3. ASSUME NEW i \in 1..Depth, NEW j \in 1..Depth, NEW v \in Scope(i), v \in Scope(j) PROVE i = j
  <2>0. i \in 1..Len(mem.scopes) /\ j \in 1..Len(mem.scopes)
    BY <1>1
  <2>1. ASSUME NEW a \in 1..Len(mem.scopes), NEW b \in 1..Len(mem.scopes), NEW k \in Simple,
               v = GetVar(mem, a, k), v # NoVar, TailIn(mem, b, v)
        PROVE  FALSE
    <3>1. GetVar(mem, b, "S.") \in Address
      BY <1>1, <2>1, EntryAddress, Sorts
    <3>2. PICK t \in DOMAIN mem.heap[GetVar(mem, b, "S.")].tails : v = mem.heap[GetVar(mem, b, "S.")].tails[t]
      BY <2>1 DEF TailIn
    <3> QED BY <1>1, <2>1, <3>1, <3>2, EntryNoTail
  <2>2. ASSUME NEW k \in Simple, v = GetVar(mem, i, k), v # NoVar, NEW l \in Simple, v = GetVar(mem, j, l)
        PROVE  i = j
    <3>1. mem.heap[v].key = k /\ mem.heap[v].key = l
      BY <1>1, <2>0, <2>2, ZenonT(40) DEF Forest, EntriesLive
    <3> QED BY <1>1, <2>0, <2>2, <3>1 DEF Forest, EntriesApart
  <2>3. \/ \E k \in Simple : v = GetVar(mem, i, k) /\ v # NoVar
        \/ TailIn(mem, i, v)
    BY <1>1, ScopeElim
  <2>4. \/ \E k \in Simple : v = GetVar(mem, j, k) /\ v # NoVar
        \/ TailIn(mem, j, v)
    BY <1>1, <1>3, ScopeElim
  <2>5. CASE TailIn(mem, i, v) /\ TailIn(mem, j, v)
    BY <1>1, <2>0, <2>5, TailInOne
  <2> QED BY <2>0, <2>1, <2>2, <2>3, <2>4, <2>5
<1>4. ASSUME NEW v \in Live, NEW w \in Live,
             NEW t \in DOMAIN mem.heap[v].tails, NEW u \in DOMAIN mem.heap[w].tails,
             mem.heap[v].tails[t] = mem.heap[w].tails[u]
      PROVE  v = w /\ t = u
  <2>1. v \in Address /\ w \in Address
    BY Sorts DEF Live
  <2> QED BY <1>1, <1>4, <2>1 DEF Forest, TailsApart
<1>5. ASSUME NEW v \in mem.left
      PROVE  v \in Live /\ IsExposed(mem, v) /\ \A i \in 1..Depth : v \notin Scope(i)
  <2>1. mem.heap[v].live /\ mem.heap[v].src # v /\ v \in Address
    BY <1>1, <1>5 DEF Forest, LeftApart, Typed
  <2>2. v # NoVar
    BY <1>1, <2>1 DEF Sane
  <2>3. ASSUME NEW i \in 1..Depth, v \in Scope(i) PROVE FALSE
    <3>0. i \in 1..Len(mem.scopes)
      BY <1>1
    <3>1. CASE \E k \in Simple : v = GetVar(mem, i, k) /\ v # NoVar
      <4>1. InScopes(mem, v)
        BY <3>0, <3>1 DEF InScopes
      <4> QED BY <1>1, <1>5, <4>1, NotLeft
    <3>2. CASE TailIn(mem, i, v)
      BY <1>1, <1>5, <3>0, <3>2, TailInTails
    <3> QED BY <1>1, <2>3, <3>1, <3>2, ScopeElim
  <2> QED BY <2>1, <2>2, <2>3, Sorts DEF Live, IsExposed, Source
<1> QED BY <1>2, <1>3, <1>4, <1>5 DEF OwnedOnce

\* One step of ExposureKept.
ExposureStep ==
  ~mem'.bad => \A i \in 1..Depth, n \in Simple :
       LET v == mem.scopes[i].map[n]
       IN  v # NoVar /\ IsExposed(mem, v) /\ i <= Len(mem'.scopes) =>
             mem'.scopes[i].map[n] = v /\ mem'.heap[v] = mem.heap[v]

LEMMA HeapExposure == HeapInv /\ [Next]_vars => [ExposureStep]_mem
<1> SUFFICES ASSUME HeapInv, Next, ~mem'.bad PROVE ExposureStep
  BY DEF vars, ExposureStep
<1>1. Exposures(mem, mem') /\ Fits(mem')
  BY NextHeap DEF HeapStep
<1>2. Sane(mem')
  BY <1>1 DEF Sane, Fits
<1> QED BY <1>1, <1>2 DEF Exposures, ExposureStep, Depth, GetVar

\* One step of CallerIsolated.
IsolationStep ==
  ~mem'.bad => \A i \in 1..Depth - 1 : \A v \in Scope(i) :
       mem'.heap[v] # mem.heap[v] => v \in ReachSources \/ Len(mem'.scopes) > Depth

LEMMA NextWithin ==
  ASSUME HeapInv, Next
  PROVE  Within(mem, mem', Depth) \/ Len(mem'.scopes) > Depth
<1>1. ASSUME NEW list \in ExposeLists, procedure(list) PROVE Len(mem'.scopes) > Depth
  <2>1. Len(mem'.scopes) = Len(mem.scopes) + 1 /\ Len(mem.scopes) \in Nat
    BY <1>1, ProcedureFine, EntryAddress DEF HeapInv, Inv
  <2> QED BY <2>1 DEF Depth
<1> QED BY <1>1, LoadWithin, CreateWithin, DropWithin, AssignWithin, DropIndirectWithin, SetValueActWithin,
           SetRCWithin, PopWithin
        DEF Next, Clause, Indirect, Interpreter, Routine

\* What the scope reaches is what the property says it reaches.
LEMMA ReachedSources ==
  ASSUME HeapInv, ~mem.bad, NEW v, Reaches(mem, Depth, v)
  PROVE  v \in ReachSources
<1>1. Inv /\ Pool(mem, idMax) /\ Sane(mem) /\ Typed(mem) /\ Forest(mem) /\ Depth \in 1..Len(mem.scopes)
      /\ Depth \in 1..Depth
  BY DepthIsScope DEF HeapInv, Inv, Fine, Fits, Sane, Depth
<1>2. PICK w \in Address : Holds(mem, Depth, w) /\ v \in {w, Source(mem, w)}
  BY DEF Reaches
<1>3. ASSUME NEW u \in Scope(Depth)
      PROVE  u \in Reach /\ Source(mem, u) \in Reach /\ (u \in Live => Range(TailsOf(mem, u)) \subseteq Reach)
  BY DEF Reach
<1>4. w \in Reach
  <2>1. CASE \E k \in Simple : w = GetVar(mem, Depth, k) /\ w # NoVar
    BY <1>1, <1>3, <2>1, ScopeIntro
  <2>2. CASE TailUnder(mem, Depth, w)
    <3> DEFINE g == GetVar(mem, Depth, "S.")
    <3>1. g # NoVar /\ w \in Range(TailsOf(mem, g))
      BY <2>2 DEF TailUnder, Range
    <3>2. g \in Scope(Depth)
      BY <1>1, <3>1, ScopeIntro, Sorts
    <3>3. g \in Live
      BY <1>1, <3>1, EntryAddress, Sorts DEF Live, Forest, EntriesLive
    <3> QED BY <1>3, <3>1, <3>2, <3>3
  <2> QED BY <1>2, <2>1, <2>2 DEF Holds
<1> QED BY <1>2, <1>4 DEF ReachSources

LEMMA HeapIsolated == HeapInv /\ [Next]_vars => [IsolationStep]_mem
<1> SUFFICES ASSUME HeapInv, Next, ~mem'.bad, NEW i \in 1..Depth - 1, NEW v \in Scope(i),
                    mem'.heap[v] # mem.heap[v], ~(Len(mem'.scopes) > Depth)
             PROVE  v \in ReachSources
  BY DEF vars, IsolationStep
<1>1. ~mem.bad
  BY DEF Next, Clause, Indirect, Interpreter, Routine, loadVar, createVar, dropVar, assign, dropIndirect,
         setValue, setRC, popScope, procedure, Runs, Idle
<1>2. Inv /\ Pool(mem, idMax) /\ Sane(mem) /\ Typed(mem) /\ Forest(mem) /\ i \in 1..Depth
      /\ Depth = Len(mem.scopes) /\ Len(mem.scopes) \in Nat
  BY <1>1, EntryAddress DEF HeapInv, Inv, Fine, Fits, Sane, Depth
<1>3. Within(mem, mem', Depth) /\ Sane(mem')
  BY NextWithin, NextHeap DEF HeapStep, Sane, Fits
<1>4. v \in Address /\ ~Fresh(mem, v)
  <2>1. CASE \E k \in Simple : v = GetVar(mem, i, k) /\ v # NoVar
    <3>1. v \in Address /\ mem.heap[v].live
      BY <1>2, <2>1, EntryAddress DEF Forest, EntriesLive
    <3> QED BY <3>1 DEF Fresh
  <2>2. CASE TailIn(mem, i, v)
    <3>1. GetVar(mem, i, "S.") \in Address
      BY <1>2, EntryAddress, Sorts
    <3> QED BY <1>2, <2>2, <3>1, TypedHeap DEF TailIn, Fresh
  <2> QED BY <1>2, <2>1, <2>2, ScopeElim
<1>5. Reaches(mem, Depth, v)
  BY <1>3, <1>4 DEF Within
<1> QED BY <1>1, <1>5, ReachedSources

-----------------------------------------------------------------------------
(***************************************************************************)
(* The theorems.                                                           *)
(***************************************************************************)
\* The scopes, the caches, every variable of the heap and the target that a
\* clause left keep their types, with the caches pointing at variables (as
\* VariableHandler.cpp never writes anything else there): a cleared pointer or a
\* tail outside a stem's map is no state of the program.
THEOREM TypeCorrect == Spec => []TypeOK
<1> QED BY AlwaysHeap, HeapTypes, PTL

\* As long as nothing deleted was used, the variable that a live one exposes is
\* alive, exposes nothing itself, and belongs to the same scope or one below: it
\* outlives the scope of the variable that points at it (expose(), popScope() and
\* the branches of dropVar() that keep an exposed variable).
THEOREM SourcesStayLive == Spec => []SourcesLive
<1> QED BY AlwaysHeap, HeapSources, PTL

\* As long as nothing deleted was used, each live variable is in one scope and
\* each tail in the map of one stem: no map shares one, so none is deleted twice,
\* and none is left behind by RETURN or DROP (~VarScope, ~StemVariable, dropVar()),
\* but for what put() left out of a map that had the name already, when a PROCEDURE
\* EXPOSE repeats a tail: that is in no scope, is always an exposure, holds no value.
THEOREM EachOwnedOnce == Spec => []OwnedOnce
<1> QED BY AlwaysHeap, HeapOwned, PTL

\* No step changes an entry that exposes something, or its variable, while its
\* scope lasts: DROP in a routine frees at most what the name refers to
\* (the isExposed() branches of dropVar() and dropIndirect()).
THEOREM ExposuresStay == Spec => ExposureKept
<1>1. Spec => [][ExposureStep]_mem
  BY AlwaysHeap, HeapExposure, PTL DEF Spec
<1> QED BY <1>1 DEF ExposureKept, ExposureStep

\* PROCEDURE isolates: no clause changes or deletes a variable of an older scope
\* unless the current scope has it, or exposes it.  Neither the cache of the
\* handler's own RC, which no DROP clears, nor the address that an assignment
\* left on the operand stack leads out of the scope (isExposed(), expose(),
\* setRC(), I_SET).
THEOREM CallersIsolated == Spec => CallerIsolated
<1>1. Spec => [][IsolationStep]_mem
  BY AlwaysHeap, HeapIsolated, PTL DEF Spec
<1> QED BY <1>1 DEF CallerIsolated, IsolationStep

=============================================================================
