----------------------- MODULE VariableHandlerProofs -----------------------
(***************************************************************************)
(* CacheSound, for any bounds and values: while a symbol's cache bears the *)
(* identifier of a scope, it points at the variable that scope's map has.  *)
(*                                                                         *)
(* What the heap holds does not matter, only the scopes and the caches: an *)
(* operation either leaves both alone (Alike), or caches what the map has, *)
(* or puts a variable in the map where there was none (so no cache has the *)
(* scope's identifier for that name), or removes one and uncaches it.      *)
(* Every operation is followed through these, in the order of the code.    *)
(***************************************************************************)
EXTENDS VariableHandler, SequenceTheorems, WellFoundedInduction, TLAPS

Fields == {"heap", "scopes", "cache", "left", "bad"}

ScopeType(top) == [id : 1..top, map : [Simple -> Address]]
CacheType(top) == [id : {-1} \union 1..top, var : Address]

\* The memory, with identifiers up to top, and caches that agree with the maps.
Pool(m, top) ==
  /\ DOMAIN m = Fields /\ top \in Nat
  /\ m.scopes \in Seq(ScopeType(top))
  /\ m.cache \in [Cached -> CacheType(top)]
  /\ \A i, j \in 1..Len(m.scopes) : m.scopes[i].id = m.scopes[j].id => i = j
  /\ \A s \in Simple, i \in 1..Len(m.scopes) :
       m.cache[s].id = m.scopes[i].id =>
         m.cache[s].var # NoVar /\ m.cache[s].var = m.scopes[i].map[s]

Alike(m, n) == DOMAIN n = DOMAIN m /\ n.scopes = m.scopes /\ n.cache = m.cache

\* The memory n has the scopes of m.
SameScopes(m, n) == n.scopes = m.scopes

\* n has the scopes of m, but scope d may have variables for names that had none.
Grown(m, n, d) ==
  /\ Len(n.scopes) = Len(m.scopes)
  /\ \A i \in 1..Len(m.scopes) : i # d => n.scopes[i] = m.scopes[i]
  /\ \A k \in Simple : GetVar(m, d, k) # NoVar => GetVar(n, d, k) = GetVar(m, d, k)

LEMMA Bounds == MaxVars \in Nat /\ MaxId \in Nat /\ Address \subseteq Int /\ NoVar \in Address
BY BoundsAreNat DEF Address, Vars, NoVar

LEMMA Names == /\ Simple = {"RC", "S."} /\ Simple \subseteq Cached /\ "rc" \notin Simple
               /\ Compound \notin Simple /\ Compound \notin Cached
               /\ \A sym \in Cached : Key(sym) \in Simple
               /\ \A sym \in Simple : Key(sym) = sym
BY DEF Simple, Cached, Compound, Key

LEMMA PoolFields == ASSUME NEW m, NEW top, Pool(m, top) PROVE DOMAIN m = Fields
BY DEF Pool

LEMMA AlikePool == ASSUME NEW m, NEW n, NEW top, Pool(m, top), Alike(m, n) PROVE Pool(n, top)
BY DEF Pool, Alike

LEMMA ScopesTyped ==
  ASSUME NEW m, NEW top, Pool(m, top)
  PROVE  /\ Len(m.scopes) \in Nat /\ DOMAIN m.scopes = 1..Len(m.scopes)
         /\ \A i \in 1..Len(m.scopes) : m.scopes[i] \in ScopeType(top)
         /\ \A i \in 1..Len(m.scopes) : m.scopes[i].id \in 1..top
         /\ \A i \in 1..Len(m.scopes) : \A k \in Simple : m.scopes[i].map[k] \in Address
<1>1. m.scopes \in Seq(ScopeType(top))
  BY DEF Pool
<1>2. Len(m.scopes) \in Nat /\ \A i \in 1..Len(m.scopes) : m.scopes[i] \in ScopeType(top)
  BY <1>1
<1>3. DOMAIN m.scopes = 1..Len(m.scopes)
  BY <1>1
<1> QED BY <1>2, <1>3 DEF ScopeType

\* What works on variables leaves the scopes and the caches alone.
LEMMA HeapOnly ==
  ASSUME NEW m, DOMAIN m = Fields
  PROVE  /\ \A vs : Alike(m, Use(m, vs)) /\ Alike(m, Free(m, vs))
         /\ \A v, x : Alike(m, SetValue(m, v, x))
         /\ \A a, k, src : Alike(m, New(m, a, k, src))
         /\ \A v, t, w : Alike(m, PutTail(m, v, t, w))
         /\ \A v : Alike(m, ClearTail(m, v))
<1>1. \A vs : Alike(m, Use(m, vs))
  BY DEF Alike, Use, Fields
<1>2. \A vs : Alike(m, Free(m, vs))
  BY DEF Alike, Free, Fields
<1>3. \A v, x : Alike(m, SetValue(m, v, x))
  BY DEF Alike, SetValue, Fields
<1>4. \A a, k, src : Alike(m, New(m, a, k, src))
  BY DEF Alike, New, Fields
<1>5. \A v, t, w : Alike(m, PutTail(m, v, t, w))
  BY DEF Alike, PutTail, Fields
<1> QED BY <1>1, <1>2, <1>3, <1>4, <1>5 DEF ClearTail

LEMMA NewAddrIsAddress == ASSUME NEW m PROVE NewAddr(m) \in Address
<1>1. Unused(m) \subseteq Vars
  BY DEF Unused
<1> QED BY <1>1, Bounds DEF NewAddr, Address

-----------------------------------------------------------------------------
(***************************************************************************)
(* The three things that are done to a scope and to a cache.               *)
(***************************************************************************)
\* A variable is put where the map had none.
LEMMA PutKeeps ==
  ASSUME NEW m, NEW top, Pool(m, top), NEW d \in 1..Len(m.scopes), NEW k \in Simple,
         NEW v \in Address, GetVar(m, d, k) = NoVar
  PROVE  /\ Pool(PutVar(m, d, k, v), top) /\ Grown(m, PutVar(m, d, k, v), d)
         /\ GetVar(PutVar(m, d, k, v), d, k) = v
<1> DEFINE n == PutVar(m, d, k, v)
<1>1. /\ DOMAIN n = Fields /\ n.cache = m.cache /\ n.scopes = [m.scopes EXCEPT ![d].map[k] = v]
  BY DEF PutVar, Pool, Fields
<1>3. m.scopes[d] \in ScopeType(top)
  BY ScopesTyped
<1>9. [m.scopes[d] EXCEPT !.map[k] = v] \in ScopeType(top)
  BY <1>3 DEF ScopeType
<1>10. n.scopes = [m.scopes EXCEPT ![d] = [m.scopes[d] EXCEPT !.map[k] = v]]
  BY <1>1
<1>2. /\ n.scopes \in Seq(ScopeType(top))
      /\ Len(n.scopes) = Len(m.scopes)
      /\ \A i \in 1..Len(m.scopes) : i # d => n.scopes[i] = m.scopes[i]
      /\ n.scopes[d] = [m.scopes[d] EXCEPT !.map[k] = v]
  BY <1>9, <1>10, ExceptSeq, ScopesTyped DEF Pool
<1>4. /\ n.scopes[d].id = m.scopes[d].id
      /\ \A l \in Simple : n.scopes[d].map[l] = IF l = k THEN v ELSE m.scopes[d].map[l]
  BY <1>2, <1>3 DEF ScopeType
<1>5. \A i \in 1..Len(m.scopes) : n.scopes[i].id = m.scopes[i].id
  BY <1>2, <1>4
<1>6. ASSUME NEW s \in Simple, NEW i \in 1..Len(m.scopes), m.cache[s].id = m.scopes[i].id
      PROVE  m.cache[s].var # NoVar /\ m.cache[s].var = n.scopes[i].map[s]
  <2>1. m.cache[s].var # NoVar /\ m.cache[s].var = m.scopes[i].map[s]
    BY <1>6 DEF Pool
  <2>2. i = d => s # k
    BY <2>1 DEF GetVar
  <2> QED BY <1>2, <1>4, <2>1, <2>2
<1>7. Pool(n, top)
  BY <1>1, <1>2, <1>5, <1>6 DEF Pool
<1>8. Grown(m, n, d) /\ GetVar(n, d, k) = v
  BY <1>2, <1>4 DEF Grown, GetVar
<1> QED BY <1>7, <1>8

\* What the map has is cached; or, for no variable, the cache is emptied.
LEMMA CacheKeeps ==
  ASSUME NEW m, NEW top, Pool(m, top), NEW d \in 1..Len(m.scopes), NEW sym \in Cached,
         NEW v, v = GetVar(m, d, Key(sym)) \/ v = NoVar
  PROVE  Pool(CacheVar(m, d, sym, v), top) /\ SameScopes(m, CacheVar(m, d, sym, v))
<1> DEFINE n == CacheVar(m, d, sym, v)
<1> DEFINE c == IF v = NoVar THEN NoCache ELSE [id |-> m.scopes[d].id, var |-> v]
<1>1. DOMAIN n = Fields /\ n.scopes = m.scopes /\ n.cache = [m.cache EXCEPT ![sym] = c]
  BY DEF CacheVar, Pool, Fields
<1>2. m.scopes[d].id \in 1..top
  BY ScopesTyped
<1>3. v \in Address
  BY ScopesTyped, Names, Bounds DEF GetVar
<1>4. c \in CacheType(top)
  BY <1>2, <1>3, Bounds DEF NoCache, CacheType
<1>5. n.cache \in [Cached -> CacheType(top)]
  BY <1>1, <1>4 DEF Pool
<1>6. ASSUME NEW s \in Simple, NEW i \in 1..Len(m.scopes), n.cache[s].id = m.scopes[i].id
      PROVE  n.cache[s].var # NoVar /\ n.cache[s].var = m.scopes[i].map[s]
  <2>1. CASE s # sym
    BY <1>1, <1>6, <2>1, Names DEF Pool
  <2>2. CASE s = sym
    <3>1. n.cache[s] = c /\ Key(sym) = s
      BY <1>1, <2>2, Names DEF Pool
    <3>2. m.scopes[i].id \in 1..top
      BY ScopesTyped
    <3>3. v # NoVar /\ c = [id |-> m.scopes[d].id, var |-> v]
      BY <1>6, <3>1, <3>2 DEF NoCache
    <3>4. i = d
      BY <1>6, <3>1, <3>3 DEF Pool
    <3> QED BY <3>1, <3>3, <3>4 DEF GetVar
  <2> QED BY <2>1, <2>2
<1> QED BY <1>1, <1>5, <1>6 DEF Pool, SameScopes

-----------------------------------------------------------------------------
(***************************************************************************)
(* Finding.                                                                *)
(***************************************************************************)
\* What a search leaves: the scopes, and, when it finds nothing, the proof that the
\* map has nothing.
Searched(m, top, d, sym, r) ==
  /\ Pool(r.m, top) /\ SameScopes(m, r.m) /\ {"m", "var"} \subseteq DOMAIN r
  /\ ~r.found /\ sym \in Cached => GetVar(r.m, d, Key(sym)) = NoVar
  /\ ~r.found /\ sym = Compound => r.var = GetVar(r.m, d, "S.")

LEMMA SameScopesVar ==
  ASSUME NEW m, NEW n, SameScopes(m, n), NEW d
  PROVE  Grown(m, n, d) /\ Len(n.scopes) = Len(m.scopes)
         /\ \A k : GetVar(n, d, k) = GetVar(m, d, k)
BY DEF SameScopes, Grown, GetVar

\* A symbol's cache has what the map has, or nothing.
LEMMA LookupRight ==
  ASSUME NEW m, NEW top, Pool(m, top), NEW d \in 1..Len(m.scopes), NEW k \in Simple
  PROVE  Lookup(m, d, k) = GetVar(m, d, k)
<1>1. CASE m.cache[k].id = m.scopes[d].id
  <2>1. m.cache[k].var # NoVar /\ m.cache[k].var = m.scopes[d].map[k]
    BY <1>1 DEF Pool
  <2> QED BY <1>1, <2>1 DEF Lookup, GetCached, GetVar
<1>2. CASE m.cache[k].id # m.scopes[d].id
  BY <1>2 DEF Lookup, GetCached
<1> QED BY <1>1, <1>2

LEMMA FindTailKeeps ==
  ASSUME NEW m, DOMAIN m = Fields, NEW v, NEW t
  PROVE  /\ Alike(m, FindTail(m, v, t).m) /\ {"m", "var"} \subseteq DOMAIN FindTail(m, v, t)
         /\ ~FindTail(m, v, t).found => FindTail(m, v, t).var = v
<1>1. CASE GetTail(m, v, t) = NoVar
  <2>1. FindTail(m, v, t) = Found(Use(m, {v}), v, FALSE, t)
    BY <1>1 DEF FindTail
  <2> QED BY <2>1, HeapOnly DEF Found
<1>2. CASE GetTail(m, v, t) # NoVar
  <2>1. FindTail(m, v, t) = Found(Use(m, {v, GetTail(m, v, t)}), GetTail(m, v, t), TRUE, t)
    BY <1>2 DEF FindTail
  <2> QED BY <2>1, HeapOnly DEF Found
<1> QED BY <1>1, <1>2

LEMMA CacheIfAnyKeeps ==
  ASSUME NEW m, NEW top, Pool(m, top), NEW d \in 1..Len(m.scopes), NEW sym \in Cached,
         NEW v, v = GetVar(m, d, Key(sym))
  PROVE  Pool(CacheIfAny(m, d, sym, v), top) /\ SameScopes(m, CacheIfAny(m, d, sym, v))
BY CacheKeeps DEF CacheIfAny, SameScopes

LEMMA GetSimpleKeeps ==
  ASSUME NEW m, NEW top, Pool(m, top), NEW d \in 1..Len(m.scopes), NEW sym \in Cached
  PROVE  Searched(m, top, d, sym, GetSimple(m, d, sym))
<1> DEFINE v == GetVar(m, d, Key(sym))
<1>1. Pool(CacheIfAny(m, d, sym, v), top) /\ SameScopes(m, CacheIfAny(m, d, sym, v))
  BY CacheIfAnyKeeps
<1>2. GetSimple(m, d, sym) = Found(CacheIfAny(m, d, sym, v), v, v # NoVar, Null)
  BY DEF GetSimple
<1>3. /\ GetSimple(m, d, sym).m = CacheIfAny(m, d, sym, v)
      /\ ~GetSimple(m, d, sym).found => v = NoVar
  <2>1. CASE v # NoVar
    <3>1. (v # NoVar) = TRUE
      BY <2>1
    <3>2. GetSimple(m, d, sym) = Found(CacheIfAny(m, d, sym, v), v, TRUE, Null)
      BY <1>2, <3>1, Zenon
    <3> QED BY <3>2 DEF Found
  <2>2. CASE v = NoVar
    BY <1>2, <2>2 DEF Found
  <2> QED BY <2>1, <2>2
<1>4. sym # Compound /\ {"m", "var"} \subseteq DOMAIN GetSimple(m, d, sym)
  BY <1>2, Names DEF Found
<1>5. Pool(GetSimple(m, d, sym).m, top) /\ SameScopes(m, GetSimple(m, d, sym).m)
  BY <1>1, <1>3
<1>6. ~GetSimple(m, d, sym).found => GetVar(GetSimple(m, d, sym).m, d, Key(sym)) = NoVar
  BY <1>3, <1>5, SameScopesVar
<1> HIDE DEF v
<1> QED BY <1>4, <1>5, <1>6 DEF Searched

LEMMA GetCompoundKeeps ==
  ASSUME NEW m, NEW top, Pool(m, top), NEW d \in 1..Len(m.scopes)
  PROVE  Searched(m, top, d, Compound, GetCompound(m, d))
<1> DEFINE stem == Lookup(m, d, "S.")
<1> DEFINE part == Lookup(m, d, "RC")
<1> DEFINE m1 == CacheStem(m, d)
<1> DEFINE m2 == CacheIfAny(m1, d, "RC", part)
<1> DEFINE m3 == Use(m2, {part})
<1>1. stem = GetVar(m, d, "S.") /\ part = GetVar(m, d, "RC")
  BY LookupRight, Names
<1>2. Pool(m1, top) /\ SameScopes(m, m1)
  BY <1>1, CacheKeeps, Names DEF CacheStem
<1>3. d \in 1..Len(m1.scopes) /\ part = GetVar(m1, d, Key("RC"))
  BY <1>1, <1>2, SameScopesVar, Names
<1>4. Pool(m2, top) /\ SameScopes(m1, m2)
  BY <1>2, <1>3, CacheIfAnyKeeps, Names
<1>5. Alike(m2, m3) /\ Pool(m3, top)
  <2>1. DOMAIN m2 = Fields
    BY <1>4, PoolFields
  <2>2. Alike(m2, m3)
    BY <2>1, HeapOnly
  <2> QED BY <1>4, <2>2, AlikePool
<1>6. GetCompound(m, d) = FindTail(m3, stem, TailName(m, part))
  BY DEF GetCompound
<1> DEFINE r == GetCompound(m, d)
<1>7. Alike(m3, r.m) /\ (~r.found => r.var = stem) /\ {"m", "var"} \subseteq DOMAIN r
  <2>1. DOMAIN m3 = Fields
    BY <1>5, PoolFields
  <2> QED BY <1>6, <2>1, FindTailKeeps
<1>8. Pool(r.m, top) /\ SameScopes(m, r.m)
  BY <1>2, <1>4, <1>5, <1>7, AlikePool DEF SameScopes, Alike
<1>9. ~r.found => r.var = GetVar(r.m, d, "S.")
  BY <1>1, <1>7, <1>8, SameScopesVar
<1> QED BY <1>7, <1>8, <1>9, Names DEF Searched

LEMMA GetKeeps ==
  ASSUME NEW m, NEW top, Pool(m, top), NEW d \in 1..Len(m.scopes), NEW sym \in Cached \union {Compound}
  PROVE  Searched(m, top, d, sym, Get(m, d, sym))
BY GetSimpleKeeps, GetCompoundKeeps, Names DEF Get

LEMMA FindKeeps ==
  ASSUME NEW m, NEW top, Pool(m, top), NEW d \in 1..Len(m.scopes), NEW n \in Simple \union {Compound}
  PROVE  Searched(m, top, d, n, Find(m, d, n))
<1>1. CASE n = Compound
  <2> DEFINE r == FindTail(m, GetVar(m, d, "S."), TailName(m, GetVar(m, d, "RC")))
  <2>1. Find(m, d, n) = r
    BY <1>1 DEF Find
  <2>2. /\ Alike(m, r.m) /\ {"m", "var"} \subseteq DOMAIN r
        /\ ~r.found => r.var = GetVar(m, d, "S.")
    BY FindTailKeeps, PoolFields
  <2>3. Pool(r.m, top) /\ SameScopes(m, r.m)
    BY <2>2, AlikePool DEF SameScopes, Alike
  <2> QED BY <1>1, <2>1, <2>2, <2>3, Names, SameScopesVar DEF Searched
<1>2. CASE n # Compound
  <2>1. Find(m, d, n) = Found(m, GetVar(m, d, n), GetVar(m, d, n) # NoVar, Null)
    BY <1>2 DEF Find
  <2>2. Key(n) = n /\ n # Compound
    BY <1>2, Names
  <2>3. Find(m, d, n).m = m /\ (~Find(m, d, n).found => GetVar(m, d, n) = NoVar)
    <3>1. CASE GetVar(m, d, n) # NoVar
      <4>1. (GetVar(m, d, n) # NoVar) = TRUE
        BY <3>1
      <4>2. Find(m, d, n) = Found(m, GetVar(m, d, n), TRUE, Null)
        BY <2>1, <4>1, Zenon
      <4> QED BY <4>2 DEF Found
    <3>2. CASE GetVar(m, d, n) = NoVar
      BY <2>1, <3>2 DEF Found
    <3> QED BY <3>1, <3>2
  <2>4. {"m", "var"} \subseteq DOMAIN Find(m, d, n)
    BY <2>1 DEF Found
  <2> QED BY <2>2, <2>3, <2>4 DEF Searched, SameScopes
<1> QED BY <1>1, <1>2

-----------------------------------------------------------------------------
(***************************************************************************)
(* Creating.                                                               *)
(***************************************************************************)
\* What a search or a creation leaves in scope d.
Reached(m, top, d, n) == Pool(n, top) /\ Grown(m, n, d)

LEMMA SearchedReached ==
  ASSUME NEW m, NEW top, NEW d, NEW sym, NEW r, Searched(m, top, d, sym, r)
  PROVE  Reached(m, top, d, r.m) /\ Len(r.m.scopes) = Len(m.scopes)
BY SameScopesVar DEF Searched, Reached

LEMMA GrownTwice ==
  ASSUME NEW m, NEW n, NEW o, NEW d, Grown(m, n, d), Grown(n, o, d)
  PROVE  Grown(m, o, d)
<1>1. \A k \in Simple : GetVar(m, d, k) # NoVar => GetVar(o, d, k) = GetVar(m, d, k)
  BY DEF Grown
<1>2. \A i \in 1..Len(m.scopes) : i # d => o.scopes[i] = m.scopes[i]
  BY DEF Grown
<1> QED BY <1>1, <1>2 DEF Grown

LEMMA AlikeReached ==
  ASSUME NEW m, NEW top, NEW d, NEW n, Reached(m, top, d, n), NEW o, Alike(n, o)
  PROVE  Reached(m, top, d, o)
<1>1. Pool(o, top) /\ SameScopes(n, o)
  BY AlikePool DEF Reached, Alike, SameScopes
<1> QED BY <1>1, SameScopesVar, GrownTwice DEF Reached

LEMMA CreateSimpleKeeps ==
  ASSUME NEW m, NEW top, Pool(m, top), NEW d \in 1..Len(m.scopes), NEW k \in Simple,
         GetVar(m, d, k) = NoVar
  PROVE  LET c == CreateSimple(m, d, k)
         IN  Reached(m, top, d, c.m) /\ c.var = GetVar(c.m, d, k)
<1> DEFINE v == NewAddr(m)
<1> DEFINE m1 == New(m, v, k, v)
<1>1. v \in Address
  BY NewAddrIsAddress
<1>2. Alike(m, m1)
  BY PoolFields, HeapOnly
<1>3. Pool(m1, top) /\ SameScopes(m, m1)
  BY <1>2, AlikePool DEF Alike, SameScopes
<1>4. d \in 1..Len(m1.scopes) /\ GetVar(m1, d, k) = NoVar /\ Grown(m, m1, d)
  BY <1>3, SameScopesVar
<1>5. /\ Pool(PutVar(m1, d, k, v), top) /\ Grown(m1, PutVar(m1, d, k, v), d)
      /\ GetVar(PutVar(m1, d, k, v), d, k) = v
  BY <1>1, <1>3, <1>4, PutKeeps
<1>6. CreateSimple(m, d, k) = Found(PutVar(m1, d, k, v), v, FALSE, Null)
  BY DEF CreateSimple
<1>7. CreateSimple(m, d, k).m = PutVar(m1, d, k, v) /\ CreateSimple(m, d, k).var = v
  BY <1>6 DEF Found
<1> QED BY <1>4, <1>5, <1>7, GrownTwice DEF Reached

LEMMA CreateStemKeeps ==
  ASSUME NEW r, NEW top, Pool(r.m, top), NEW d \in 1..Len(r.m.scopes),
         {"m", "var"} \subseteq DOMAIN r, r.var = GetVar(r.m, d, "S.")
  PROVE  Reached(r.m, top, d, CreateStem(r, d).m)
<1> DEFINE v == NewAddr(r.m)
<1> DEFINE m1 == New(r.m, v, "S.", v)
<1>1. CASE r.var # NoVar
  <2>1. CreateStem(r, d) = r
    BY <1>1 DEF CreateStem
  <2>2. SameScopes(r.m, r.m)
    BY DEF SameScopes
  <2> QED BY <2>1, <2>2, SameScopesVar DEF Reached
<1>2. CASE r.var = NoVar
  <2>1. v \in Address
    BY NewAddrIsAddress
  <2>2. Alike(r.m, m1)
    BY PoolFields, HeapOnly
  <2>3. Pool(m1, top) /\ SameScopes(r.m, m1)
    BY <2>2, AlikePool DEF Alike, SameScopes
  <2>4. d \in 1..Len(m1.scopes) /\ GetVar(m1, d, "S.") = NoVar /\ Grown(r.m, m1, d)
    BY <1>2, <2>3, SameScopesVar
  <2>5. Pool(PutVar(m1, d, "S.", v), top) /\ Grown(m1, PutVar(m1, d, "S.", v), d)
    BY <2>1, <2>3, <2>4, PutKeeps, Names
  <2>6. CreateStem(r, d).m = PutVar(m1, d, "S.", v)
    BY <1>2 DEF CreateStem
  <2> QED BY <2>4, <2>5, <2>6, GrownTwice DEF Reached
<1> QED BY <1>1, <1>2

LEMMA CreateTailKeeps ==
  ASSUME NEW r, DOMAIN r.m = Fields
  PROVE  Alike(r.m, CreateTail(r).m)
<1> DEFINE m1 == Use(r.m, {r.var})
<1> DEFINE w == NewAddr(r.m)
<1> DEFINE m2 == New(m1, w, Compound, w)
<1> DEFINE m3 == PutTail(m2, r.var, r.tail, w)
<1>1. Alike(r.m, m1)
  BY HeapOnly
<1>2. Alike(m1, m2)
  BY <1>1, HeapOnly DEF Alike
<1>3. Alike(m2, m3)
  BY <1>1, <1>2, HeapOnly DEF Alike
<1>4. CreateTail(r) = Found(m3, w, FALSE, r.tail)
  BY DEF CreateTail
<1>5. CreateTail(r).m = m3
  BY <1>4 DEF Found
<1> QED BY <1>1, <1>2, <1>3, <1>5 DEF Alike

\* What is missing from scope d is created in it, as access() and setValue() do.
LEMMA CreateCompoundKeeps ==
  ASSUME NEW m, NEW top, NEW d \in 1..Len(m.scopes), NEW r, Searched(m, top, d, Compound, r), ~r.found
  PROVE  Reached(m, top, d, CreateCompound(r, d).m)
<1> DEFINE s == CreateStem(r, d)
<1>1. Pool(r.m, top) /\ SameScopes(m, r.m) /\ {"m", "var"} \subseteq DOMAIN r
  BY DEF Searched
<1>2. r.var = GetVar(r.m, d, "S.") /\ d \in 1..Len(r.m.scopes) /\ Grown(m, r.m, d)
  BY <1>1, SameScopesVar DEF Searched
<1>3. Reached(r.m, top, d, s.m)
  BY <1>1, <1>2, CreateStemKeeps
<1>4. Reached(m, top, d, s.m) /\ DOMAIN s.m = Fields
  BY <1>2, <1>3, GrownTwice, PoolFields DEF Reached
<1>5. Alike(s.m, CreateTail(s).m)
  BY <1>4, CreateTailKeeps
<1> QED BY <1>4, <1>5, AlikeReached DEF CreateCompound

LEMMA CreateMissingKeeps ==
  ASSUME NEW m, NEW top, NEW d \in 1..Len(m.scopes), NEW sym \in Cached, NEW r,
         Searched(m, top, d, sym, r), ~r.found
  PROVE  LET c == CreateSimple(r.m, d, Key(sym))
         IN  /\ Reached(m, top, d, c.m) /\ c.var = GetVar(c.m, d, Key(sym))
             /\ Reached(m, top, d, CacheVar(c.m, d, sym, c.var))
<1> DEFINE c == CreateSimple(r.m, d, Key(sym))
<1>1. Pool(r.m, top) /\ SameScopes(m, r.m) /\ GetVar(r.m, d, Key(sym)) = NoVar
  BY DEF Searched
<1>2. d \in 1..Len(r.m.scopes) /\ Grown(m, r.m, d) /\ Key(sym) \in Simple
  BY <1>1, SameScopesVar, Names
<1>3. Reached(r.m, top, d, c.m) /\ c.var = GetVar(c.m, d, Key(sym))
  BY <1>1, <1>2, CreateSimpleKeeps
<1>4. Reached(m, top, d, c.m)
  BY <1>2, <1>3, GrownTwice DEF Reached
<1>5. d \in 1..Len(c.m.scopes) /\ Pool(c.m, top)
  BY <1>4 DEF Reached, Grown
<1>6. Pool(CacheVar(c.m, d, sym, c.var), top) /\ SameScopes(c.m, CacheVar(c.m, d, sym, c.var))
  BY <1>3, <1>5, CacheKeeps
<1>7. Reached(m, top, d, CacheVar(c.m, d, sym, c.var))
  BY <1>4, <1>6, SameScopesVar, GrownTwice DEF Reached
<1> QED BY <1>3, <1>4, <1>7

LEMMA AccessKeeps ==
  ASSUME NEW m, NEW top, Pool(m, top), NEW d \in 1..Len(m.scopes), NEW sym \in Cached \union {Compound}
  PROVE  Reached(m, top, d, Access(m, d, sym).m)
<1> DEFINE r == Get(m, d, sym)
<1>1. Searched(m, top, d, sym, r)
  BY GetKeeps
<1>2. CASE r.found
  <2>1. Access(m, d, sym) = r
    BY <1>2 DEF Access
  <2> QED BY <1>1, <2>1, SearchedReached
<1>3. CASE ~r.found /\ sym = Compound
  <2>1. Access(m, d, sym) = CreateCompound(r, d)
    BY <1>3 DEF Access
  <2> QED BY <1>1, <1>3, <2>1, CreateCompoundKeeps
<1>4. CASE ~r.found /\ sym # Compound
  <2> DEFINE c == CreateSimple(r.m, d, Key(sym))
  <2>1. Access(m, d, sym) = [c EXCEPT !.m = CacheVar(c.m, d, sym, c.var)]
    BY <1>4 DEF Access
  <2>2. "m" \in DOMAIN c
    BY DEF CreateSimple, Found
  <2>3. Access(m, d, sym).m = CacheVar(c.m, d, sym, c.var)
    BY <2>1, <2>2
  <2> QED BY <1>1, <1>4, <2>3, CreateMissingKeeps
<1> QED BY <1>2, <1>3, <1>4

\* The variable a symbol has cached, or the other search.
LEMMA CachedOrKeeps ==
  ASSUME NEW m, NEW top, Pool(m, top), NEW d, NEW sym, NEW r
  PROVE  \/ CachedOr(m, d, sym, r) = r
         \/ /\ Alike(m, CachedOr(m, d, sym, r).m) /\ Pool(CachedOr(m, d, sym, r).m, top)
            /\ SameScopes(m, CachedOr(m, d, sym, r).m)
<1> DEFINE v == IF sym = Compound THEN NoVar ELSE GetCached(m, d, sym)
<1>1. CASE v = NoVar
  BY <1>1 DEF CachedOr
<1>2. CASE v # NoVar
  <2>1. CachedOr(m, d, sym, r) = Found(Use(m, {v}), v, TRUE, Null)
    BY <1>2 DEF CachedOr
  <2>2. CachedOr(m, d, sym, r).m = Use(m, {v})
    BY <2>1 DEF Found
  <2>3. Alike(m, Use(m, {v}))
    BY HeapOnly, PoolFields
  <2> QED BY <2>2, <2>3, AlikePool DEF Alike, SameScopes
<1> QED BY <1>1, <1>2

LEMMA CachedOrReached ==
  ASSUME NEW m, NEW top, Pool(m, top), NEW d, NEW sym, NEW r, Reached(m, top, d, r.m)
  PROVE  Reached(m, top, d, CachedOr(m, d, sym, r).m)
<1>1. CASE CachedOr(m, d, sym, r) = r
  BY <1>1
<1>2. CASE Pool(CachedOr(m, d, sym, r).m, top) /\ SameScopes(m, CachedOr(m, d, sym, r).m)
  BY <1>2, SameScopesVar DEF Reached
<1> QED BY <1>1, <1>2, CachedOrKeeps

-----------------------------------------------------------------------------
(***************************************************************************)
(* Removing.                                                               *)
(***************************************************************************)
\* As many scopes, and caches that agree.
Kept(m, top, n) == Pool(n, top) /\ Len(n.scopes) = Len(m.scopes)

LEMMA ReachedKept ==
  ASSUME NEW m, NEW top, NEW d, NEW n, Reached(m, top, d, n) PROVE Kept(m, top, n)
BY DEF Reached, Grown, Kept

LEMMA AlikeKept ==
  ASSUME NEW m, NEW top, NEW n, Kept(m, top, n), NEW o, Alike(n, o) PROVE Kept(m, top, o)
BY AlikePool DEF Kept, Alike

\* An empty cache agrees with any map.
LEMMA UncacheKeeps ==
  ASSUME NEW m, NEW top, Pool(m, top), NEW sym \in Simple
  PROVE  Kept(m, top, Uncache(m, sym))
<1> DEFINE n == Uncache(m, sym)
<1>1. DOMAIN n = Fields /\ n.scopes = m.scopes /\ n.cache = [m.cache EXCEPT ![sym] = NoCache]
  BY DEF Uncache, Pool, Fields
<1>2. NoCache \in CacheType(top) /\ NoCache.id = -1
  BY Bounds DEF NoCache, CacheType
<1>3. n.cache \in [Cached -> CacheType(top)]
  BY <1>1, <1>2 DEF Pool
<1>4. ASSUME NEW s \in Simple, NEW i \in 1..Len(m.scopes), n.cache[s].id = m.scopes[i].id
      PROVE  n.cache[s].var # NoVar /\ n.cache[s].var = m.scopes[i].map[s]
  <2>1. m.scopes[i].id \in 1..top /\ top \in Nat
    BY ScopesTyped DEF Pool
  <2>2. s # sym
    BY <1>1, <1>2, <1>4, <2>1, Names DEF Pool
  <2>3. n.cache[s] = m.cache[s]
    BY <1>1, <2>2, Names DEF Pool
  <2> QED BY <1>4, <2>3 DEF Pool
<1> QED BY <1>1, <1>3, <1>4 DEF Pool, Kept

\* A variable is removed from the map, and from the cache of its symbol.
LEMMA RemoveKeeps ==
  ASSUME NEW m, NEW top, Pool(m, top), NEW d \in 1..Len(m.scopes), NEW k \in Simple
  PROVE  Kept(m, top, Uncache(RemoveVar(m, d, k), k))
<1> DEFINE m1 == Free(m, Owned(m, GetVar(m, d, k)))
<1> DEFINE n == PutVar(m1, d, k, NoVar)
<1>1. CASE GetVar(m, d, k) = NoVar
  <2>1. RemoveVar(m, d, k) = m
    BY <1>1 DEF RemoveVar
  <2> QED BY <2>1, UncacheKeeps
<1>2. CASE GetVar(m, d, k) # NoVar
  <2> DEFINE o == Uncache(n, k)
  <2>1. RemoveVar(m, d, k) = n
    BY <1>2 DEF RemoveVar
  <2>2. Alike(m, m1) /\ Pool(m1, top)
    BY HeapOnly, PoolFields, AlikePool
  <2>3. DOMAIN n = Fields /\ n.cache = m.cache /\ n.scopes = [m.scopes EXCEPT ![d].map[k] = NoVar]
    BY <2>2 DEF PutVar, Alike, Pool, Fields
  <2>4. DOMAIN o = Fields /\ o.scopes = n.scopes /\ o.cache = [m.cache EXCEPT ![k] = NoCache]
    BY <2>3 DEF Uncache, Fields
  <2>5. Pool(Uncache(m, k), top) /\ Uncache(m, k).scopes = m.scopes /\ Uncache(m, k).cache = o.cache
    BY <2>4, UncacheKeeps DEF Kept, Uncache, Pool, Fields
  <2>6. GetVar(Uncache(m, k), d, k) = GetVar(m, d, k)
    BY <2>5 DEF GetVar
  <2>7. m.scopes[d] \in ScopeType(top)
    BY ScopesTyped
  <2>8. [m.scopes[d] EXCEPT !.map[k] = NoVar] \in ScopeType(top)
    BY <2>7, Bounds DEF ScopeType
  <2>9. o.scopes = [m.scopes EXCEPT ![d] = [m.scopes[d] EXCEPT !.map[k] = NoVar]]
    BY <2>3, <2>4
  <2>10. /\ o.scopes \in Seq(ScopeType(top)) /\ Len(o.scopes) = Len(m.scopes)
         /\ \A i \in 1..Len(m.scopes) : i # d => o.scopes[i] = m.scopes[i]
         /\ o.scopes[d] = [m.scopes[d] EXCEPT !.map[k] = NoVar]
    BY <2>8, <2>9, ExceptSeq, ScopesTyped DEF Pool
  <2>11. /\ o.scopes[d].id = m.scopes[d].id
         /\ \A l \in Simple : l # k => o.scopes[d].map[l] = m.scopes[d].map[l]
    BY <2>7, <2>10 DEF ScopeType
  <2>12. \A i \in 1..Len(m.scopes) : o.scopes[i].id = m.scopes[i].id
    BY <2>10, <2>11
  <2>13. ASSUME NEW s \in Simple, NEW i \in 1..Len(m.scopes), o.cache[s].id = m.scopes[i].id
         PROVE  o.cache[s].var # NoVar /\ o.cache[s].var = o.scopes[i].map[s]
    <3>1. o.cache[s].var # NoVar /\ o.cache[s].var = m.scopes[i].map[s]
      BY <2>5, <2>13 DEF Pool
    <3>2. s # k
      <4>1. o.cache[k].id = -1
        BY <2>4, Names DEF Pool, NoCache
      <4>2. m.scopes[i].id \in 1..top
        BY ScopesTyped
      <4> QED BY <2>13, <4>1, <4>2 DEF Pool
    <3> QED BY <2>10, <2>11, <3>1, <3>2
  <2>14. Pool(o, top)
    BY <2>4, <2>5, <2>10, <2>12, <2>13 DEF Pool
  <2> QED BY <2>1, <2>10, <2>14 DEF Kept
<1> QED BY <1>1, <1>2

-----------------------------------------------------------------------------
(***************************************************************************)
(* The clauses.                                                            *)
(***************************************************************************)
Inv == Pool(mem, idMax) /\ Len(mem.scopes) >= 1

LEMMA DepthIsScope == Inv => Depth \in 1..Len(mem.scopes)
BY ScopesTyped DEF Inv, Depth

\* Most clauses keep the number of scopes and the last identifier.
LEMMA KeptInv ==
  ASSUME Inv, Kept(mem, idMax, mem'), UNCHANGED idMax PROVE Inv'
BY DEF Inv, Kept

LEMMA ValueKept ==
  ASSUME NEW m, NEW top, NEW n, Kept(m, top, n)
  PROVE  /\ \A v, x : Kept(m, top, SetValue(n, v, x))
         /\ \A v : Kept(m, top, ClearTail(n, v))
         /\ \A vs : Kept(m, top, Use(n, vs))
<1>1. DOMAIN n = Fields
  BY PoolFields DEF Kept
<1> QED BY <1>1, HeapOnly, AlikeKept

LEMMA LoadKeeps == ASSUME Inv, NEW sym \in Symbols, loadVar(sym) PROVE Inv'
<1>1. Reached(mem, idMax, Depth, Get(mem, Depth, sym).m)
  BY DepthIsScope, GetKeeps, SearchedReached, Names DEF Inv, Symbols
<1>2. Kept(mem, idMax, mem')
  BY <1>1, CachedOrReached, ReachedKept DEF loadVar, Inv
<1> QED BY <1>2, KeptInv DEF loadVar

LEMMA CreateKeeps == ASSUME Inv, NEW sym \in Symbols, createVar(sym) PROVE Inv'
<1>1. Reached(mem, idMax, Depth, Access(mem, Depth, sym).m)
  BY DepthIsScope, AccessKeeps, Names DEF Inv, Symbols
<1>2. Kept(mem, idMax, mem')
  BY <1>1, CachedOrReached, ReachedKept DEF createVar, Inv
<1> QED BY <1>2, KeptInv DEF createVar

LEMMA SetStemKeeps ==
  ASSUME NEW m, NEW top, Pool(m, top), Depth \in 1..Len(m.scopes)
  PROVE  Kept(m, top, SetStem(m))
<1> DEFINE r == CachedOr(m, Depth, "S.", Get(m, Depth, "S."))
<1>1. Reached(m, top, Depth, Get(m, Depth, "S.").m)
  BY GetKeeps, SearchedReached, Names
<1>2. Kept(m, top, r.m)
  BY <1>1, CachedOrReached, ReachedKept
<1>3. SetStem(m) = IF r.found THEN AssignStem(r) ELSE r.m
  BY DEF SetStem
<1>4. Kept(m, top, AssignStem(r))
  BY <1>2, ValueKept DEF AssignStem
<1> QED BY <1>2, <1>3, <1>4

LEMMA AssignKeeps == ASSUME Inv, NEW x, assign(x) PROVE Inv'
<1> DEFINE m1 == SetValue(mem, target.var, x)
<1>1. Kept(mem, idMax, mem)
  BY DEF Inv, Kept
<1>2. Kept(mem, idMax, m1)
  BY <1>1, ValueKept
<1>3. Pool(m1, idMax) /\ Depth \in 1..Len(m1.scopes)
  BY <1>2, DepthIsScope DEF Kept
<1>4. Kept(mem, idMax, SetStem(m1))
  BY <1>2, <1>3, SetStemKeeps DEF Kept
<1>5. Kept(mem, idMax, mem')
  BY <1>2, <1>4 DEF assign
<1> QED BY <1>5, KeptInv DEF assign

LEMMA SetRCKeeps == ASSUME Inv, NEW x, setRC(x) PROVE Inv'
<1> DEFINE r == CachedOr(mem, Depth, "rc", Access(mem, Depth, "rc"))
<1>1. "rc" \in Cached
  BY DEF Cached
<1>2. Reached(mem, idMax, Depth, Access(mem, Depth, "rc").m)
  BY <1>1, DepthIsScope, AccessKeeps DEF Inv
<1>3. Kept(mem, idMax, r.m)
  BY <1>2, CachedOrReached, ReachedKept DEF Inv
<1>4. mem' = SetValue(r.m, r.var, x)
  BY DEF setRC
<1>5. Kept(mem, idMax, mem')
  BY <1>3, <1>4, ValueKept
<1> QED BY <1>5, KeptInv DEF setRC

\* DROP: the variable is removed and its symbol uncached, or only its value goes.
LEMMA DroppedKeeps ==
  ASSUME NEW m, NEW top, NEW r, Kept(m, top, r.m), NEW d \in 1..Len(m.scopes),
         NEW sym \in Symbols
  PROVE  /\ sym = Compound => Kept(m, top, Dropped(r, d, sym))
         /\ sym # Compound => Kept(m, top, Uncache(Dropped(r, d, sym), sym))
<1>1. CASE sym = Compound
  <2>1. Dropped(r, d, sym) = SetValue(r.m, r.var, Null)
    BY <1>1 DEF Dropped
  <2> QED BY <1>1, <2>1, ValueKept
<1>2. CASE sym # Compound
  <2>1. sym \in Simple /\ Key(sym) = sym
    BY <1>2, Names DEF Symbols
  <2>2. ASSUME NEW n, Kept(m, top, n) PROVE Kept(m, top, Uncache(n, sym))
    BY <2>1, <2>2, UncacheKeeps DEF Kept
  <2>3. CASE ~IsExposed(r.m, r.var)
    <3>1. Dropped(r, d, sym) = RemoveVar(r.m, d, sym)
      BY <1>2, <2>1, <2>3 DEF Dropped
    <3> QED BY <1>2, <2>1, <3>1, RemoveKeeps DEF Kept
  <2>4. CASE IsExposed(r.m, r.var)
    <3>1. \/ Dropped(r, d, sym) = ClearTail(r.m, r.var)
          \/ Dropped(r, d, sym) = ClearTail(SetValue(r.m, r.var, sym), r.var)
      BY <1>2, <2>1, <2>4 DEF Dropped
    <3>2. Kept(m, top, Dropped(r, d, sym))
      BY <3>1, ValueKept
    <3> QED BY <1>2, <2>2, <3>2
  <2> QED BY <2>3, <2>4
<1> QED BY <1>1, <1>2

LEMMA DropKeeps == ASSUME Inv, NEW sym \in Symbols, dropVar(sym) PROVE Inv'
<1> DEFINE r == CachedOr(mem, Depth, sym, Get(mem, Depth, sym))
<1> DEFINE n == IF r.var = NoVar \/ r.m.bad THEN r.m ELSE Dropped(r, Depth, sym)
<1>1. Reached(mem, idMax, Depth, Get(mem, Depth, sym).m)
  BY DepthIsScope, GetKeeps, SearchedReached, Names DEF Inv, Symbols
<1>2. Kept(mem, idMax, r.m)
  BY <1>1, CachedOrReached, ReachedKept DEF Inv
<1>3. mem' = IF sym = Compound THEN n ELSE Uncache(n, sym)
  BY DEF dropVar
<1>4. CASE n = r.m
  <2>1. sym # Compound => sym \in Simple
    BY DEF Symbols
  <2>2. sym # Compound => Kept(mem, idMax, Uncache(r.m, sym))
    BY <1>2, <2>1, UncacheKeeps DEF Kept
  <2> QED BY <1>2, <1>3, <1>4, <2>2, KeptInv DEF dropVar
<1>5. CASE n = Dropped(r, Depth, sym)
  BY <1>2, <1>3, <1>5, DepthIsScope, DroppedKeeps, KeptInv DEF dropVar
<1> QED BY <1>4, <1>5

LEMMA DropIndirectKeeps == ASSUME Inv, NEW n \in Symbols, dropIndirect(n) PROVE Inv'
<1> DEFINE r == Find(mem, Depth, n)
<1>1. Reached(mem, idMax, Depth, r.m) /\ Kept(mem, idMax, r.m)
  BY DepthIsScope, FindKeeps, SearchedReached, ReachedKept DEF Inv, Symbols
<1>2. \/ mem' = r.m
      \/ mem' = ClearTail(SetValue(r.m, r.var, n), r.var)
      \/ mem' = SetValue(r.m, r.var, Null)
      \/ n # Compound /\ mem' = Uncache(RemoveVar(r.m, Depth, n), n)
  BY DEF dropIndirect, Uncached
<1>3. n # Compound => Kept(mem, idMax, Uncache(RemoveVar(r.m, Depth, n), n))
  BY <1>1, DepthIsScope, RemoveKeeps DEF Kept, Symbols
<1>4. Kept(mem, idMax, mem')
  BY <1>1, <1>2, <1>3, ValueKept
<1> QED BY <1>4, KeptInv DEF dropIndirect

LEMMA SetValueKeeps == ASSUME Inv, NEW n \in Symbols, NEW x, setValue(n, x) PROVE Inv'
<1> DEFINE r == Find(mem, Depth, n)
<1> DEFINE c == IF r.found THEN r
                ELSE IF n = Compound THEN CreateCompound(r, Depth) ELSE CreateSimple(r.m, Depth, n)
<1>1. Searched(mem, idMax, Depth, n, r)
  BY DepthIsScope, FindKeeps DEF Inv, Symbols
<1>5. Reached(mem, idMax, Depth, c.m)
  <2>1. CASE r.found
    BY <1>1, <2>1, SearchedReached
  <2>2. CASE ~r.found /\ n = Compound
    BY <1>1, <2>2, DepthIsScope, CreateCompoundKeeps
  <2>3. CASE ~r.found /\ n # Compound
    <3>1. n \in Cached /\ Key(n) = n
      BY <2>3, Names DEF Symbols
    <3> QED BY <1>1, <2>3, <3>1, DepthIsScope, CreateMissingKeeps
  <2> QED BY <2>1, <2>2, <2>3
<1>6. mem' = SetValue(c.m, c.var, x)
  BY DEF setValue
<1>7. Kept(mem, idMax, mem')
  BY <1>5, <1>6, ReachedKept, ValueKept
<1> QED BY <1>7, KeptInv DEF setValue

-----------------------------------------------------------------------------
(***************************************************************************)
(* Scopes.                                                                 *)
(***************************************************************************)
LEMMA GrownElsewhere ==
  ASSUME NEW m, NEW n, NEW e, Grown(m, n, e), NEW d \in 1..Len(m.scopes), d # e
  PROVE  /\ Len(n.scopes) = Len(m.scopes)
         /\ \A k : GetVar(n, d, k) = GetVar(m, d, k)
BY DEF Grown, GetVar

LEMMA ExposedTailKeeps ==
  ASSUME NEW r, NEW top, Pool(r.m, top), NEW d \in 1..Len(r.m.scopes), {"m", "var"} \subseteq DOMAIN r,
         NEW v
  PROVE  Kept(r.m, top, ExposedTail(r, d, v))
<1> DEFINE q == [r EXCEPT !.var = GetVar(r.m, d, "S.")]
<1> DEFINE s == CreateStem(q, d)
<1> DEFINE w == NewAddr(s.m)
<1> DEFINE m1 == New(s.m, w, Compound, v)
<1>1. q.m = r.m /\ q.var = GetVar(r.m, d, "S.") /\ {"m", "var"} \subseteq DOMAIN q
  OBVIOUS
<1>2. Reached(q.m, top, d, s.m)
  BY <1>1, CreateStemKeeps
<1>3. Kept(r.m, top, s.m) /\ DOMAIN s.m = Fields
  BY <1>1, <1>2, ReachedKept, PoolFields DEF Reached
<1>4. Alike(s.m, m1) /\ DOMAIN m1 = Fields
  BY <1>3, HeapOnly DEF Alike
<1>5. Alike(m1, PutTail(m1, s.var, s.tail, w))
  BY <1>4, HeapOnly
<1>6. ExposedTail(r, d, v) = PutTail(m1, s.var, s.tail, w)
  BY DEF ExposedTail
<1> QED BY <1>3, <1>4, <1>5, <1>6, AlikeKept

LEMMA ExposedSimpleKeeps ==
  ASSUME NEW m, NEW top, Pool(m, top), NEW d \in 1..Len(m.scopes), NEW k \in Simple,
         GetVar(m, d, k) = NoVar, NEW v
  PROVE  Kept(m, top, ExposedSimple(m, d, k, v))
<1> DEFINE w == NewAddr(m)
<1> DEFINE m1 == New(m, w, k, v)
<1>1. Alike(m, m1)
  BY PoolFields, HeapOnly
<1>2. Pool(m1, top) /\ SameScopes(m, m1)
  BY <1>1, AlikePool DEF Alike, SameScopes
<1>3. d \in 1..Len(m1.scopes) /\ GetVar(m1, d, k) = NoVar /\ Len(m1.scopes) = Len(m.scopes)
  BY <1>2, SameScopesVar
<1>4. w \in Address
  BY NewAddrIsAddress
<1>5. Reached(m1, top, d, PutVar(m1, d, k, w))
  BY <1>2, <1>3, <1>4, PutKeeps DEF Reached
<1>6. ExposedSimple(m, d, k, v) = PutVar(m1, d, k, w)
  BY DEF ExposedSimple
<1> QED BY <1>3, <1>5, <1>6, ReachedKept DEF Kept

\* Only the older scope may be cached or grown by the search for what is exposed; the
\* new one still has no variable of that name when the entry is put in it.
LEMMA ExposeKeeps ==
  ASSUME NEW m, NEW top, Pool(m, top), NEW d \in 2..Len(m.scopes), NEW sym \in Symbols
  PROVE  Kept(m, top, Expose(m, d, sym))
<1> DEFINE here == Get(m, d, sym)
<1> DEFINE a == Access(here.m, d - 1, sym)
<1> DEFINE r == IF a.found THEN a ELSE [a EXCEPT !.m = SetValue(a.m, a.var, sym)]
<1>0. /\ d \in 1..Len(m.scopes) /\ d - 1 \in 1..Len(m.scopes) /\ d - 1 # d
      /\ sym \in Cached \union {Compound}
  BY ScopesTyped, Names DEF Symbols
<1>1. Searched(m, top, d, sym, here)
  BY <1>0, GetKeeps
<1>2. Kept(m, top, here.m) /\ Pool(here.m, top)
  BY <1>1, SearchedReached, ReachedKept DEF Kept
<1>3. Reached(here.m, top, d - 1, a.m) /\ Kept(m, top, a.m)
  <2>1. d - 1 \in 1..Len(here.m.scopes) /\ Len(here.m.scopes) = Len(m.scopes)
    BY <1>0, <1>2 DEF Kept
  <2>2. Reached(here.m, top, d - 1, a.m)
    BY <1>0, <1>2, <2>1, AccessKeeps
  <2>3. Kept(here.m, top, a.m)
    BY <2>2, ReachedKept
  <2> QED BY <2>1, <2>2, <2>3 DEF Kept
<1>4. {"m", "var"} \subseteq DOMAIN a
  <2>1. Searched(here.m, top, d - 1, sym, Get(here.m, d - 1, sym))
    BY <1>0, <1>2, GetKeeps DEF Kept
  <2>2. {"m", "var"} \subseteq DOMAIN Get(here.m, d - 1, sym)
    BY <2>1 DEF Searched
  <2> QED BY <2>2 DEF Access, CreateCompound, CreateTail, CreateSimple, Found
<1>5. Alike(a.m, r.m) /\ {"m", "var"} \subseteq DOMAIN r
  <2>1. Alike(a.m, SetValue(a.m, a.var, sym)) /\ Alike(a.m, a.m)
    BY <1>3, PoolFields, HeapOnly DEF Kept, Alike
  <2> QED BY <1>4, <2>1
<1>6. Kept(m, top, r.m) /\ Pool(r.m, top) /\ d \in 1..Len(r.m.scopes)
  BY <1>0, <1>3, <1>5, AlikeKept DEF Kept
<1>7. ~here.found /\ sym \in Simple => GetVar(r.m, d, sym) = NoVar
  <2> SUFFICES ASSUME ~here.found, sym \in Simple PROVE GetVar(r.m, d, sym) = NoVar
    OBVIOUS
  <2>1. GetVar(here.m, d, sym) = NoVar
    BY <1>1, Names DEF Searched
  <2>2. GetVar(a.m, d, sym) = GetVar(here.m, d, sym)
    BY <1>0, <1>2, <1>3, GrownElsewhere DEF Reached, Kept
  <2> QED BY <1>5, <2>1, <2>2 DEF Alike, GetVar
<1>8. \/ Expose(m, d, sym) = here.m
      \/ ~here.found /\ Expose(m, d, sym) = NewExposed(r, d, sym)
  BY DEF Expose
<1>9. ~here.found => Kept(m, top, NewExposed(r, d, sym))
  <2> SUFFICES ASSUME ~here.found PROVE Kept(m, top, NewExposed(r, d, sym))
    OBVIOUS
  <2>1. CASE r.m.bad
    BY <1>6, <2>1 DEF NewExposed
  <2>2. CASE ~r.m.bad /\ sym = Compound
    <3>1. NewExposed(r, d, sym) = ExposedTail(r, d, ExposedSource(r.m, r.var))
      BY <2>2 DEF NewExposed
    <3> QED BY <1>5, <1>6, <3>1, ExposedTailKeeps, ZenonT(40) DEF Kept
  <2>3. CASE ~r.m.bad /\ sym # Compound
    <3>1. NewExposed(r, d, sym) = ExposedSimple(r.m, d, sym, ExposedSource(r.m, r.var))
      BY <2>3 DEF NewExposed
    <3>2. sym \in Simple
      BY <2>3 DEF Symbols
    <3> QED BY <1>6, <1>7, <3>1, <3>2, ExposedSimpleKeeps DEF Kept
  <2> QED BY <2>1, <2>2, <2>3
<1> QED BY <1>2, <1>8, <1>9

\* A set of naturals has a least member: with it, what holds of the first symbols of
\* a list is carried to all of them.
LEMMA HasLeast ==
  ASSUME NEW T, T \subseteq Nat, T # {}
  PROVE  \E x \in T : \A y \in T : x <= y
<1> DEFINE Less == {p \in Nat \X Nat : p[1] < p[2]}
<1>1. IsWellFoundedOn(Less, Nat)
  BY NatLessThanWellFounded DEF OpToRel
<1>2. PICK x \in T : \A y \in T : ~(<<y, x>> \in Less)
  BY <1>1, WFMin
<1>3. ASSUME NEW y \in T PROVE x <= y
  <2>1. x \in Nat /\ y \in Nat
    OBVIOUS
  <2>2. CASE y < x
    <3>1. <<y, x>> \in Less
      BY <2>1, <2>2
    <3> QED BY <1>2, <3>1
  <2> QED BY <2>1, <2>2
<1> QED BY <1>3

LEMMA ExposeAllKeeps ==
  ASSUME NEW m, NEW top, Pool(m, top), NEW d \in 2..Len(m.scopes), NEW list \in Seq(Symbols)
  PROVE  Kept(m, top, ExposeAll(m, d, list))
<1> DEFINE n == Len(list)
<1> DEFINE Good(k, g) == g = [i \in 0..k |-> IF i = 0 THEN m ELSE Expose(g[i - 1], d, list[i])]
<1> DEFINE after == CHOOSE g : Good(n, g)
<1>1. n \in Nat /\ \A i \in 1..n : list[i] \in Symbols
  OBVIOUS
<1>2. \E g : Good(n, g)
  <2> DEFINE Bad == {k \in Nat : ~\E g : Good(k, g)}
  <2>1. CASE Bad # {}
    <3>1. PICK k \in Bad : \A l \in Bad : k <= l
      BY <2>1, HasLeast
    <3>2. Good(0, [i \in 0..0 |-> m])
      OBVIOUS
    <3>3. k # 0
      BY <3>1, <3>2
    <3>4. PICK g : Good(k - 1, g)
      <4>1. k - 1 \in Nat /\ ~(k <= k - 1)
        BY <3>1, <3>3
      <4>2. k - 1 \notin Bad
        BY <3>1, <4>1
      <4> HIDE DEF Good
      <4> QED BY <4>1, <4>2
    <3> DEFINE h == [i \in 0..k |-> IF i = 0 THEN m ELSE Expose(g[i - 1], d, list[i])]
    <3>5. \A i \in 0..(k - 1) : h[i] = g[i]
      BY <3>1, <3>3, <3>4
    <3>6. \A i \in 0..k : (IF i = 0 THEN m ELSE Expose(g[i - 1], d, list[i]))
                          = (IF i = 0 THEN m ELSE Expose(h[i - 1], d, list[i]))
      <4> HIDE DEF h
      <4> QED BY <3>1, <3>5
    <3>7. Good(k, h)
      BY <3>6
    <3> QED BY <3>1, <3>7
  <2> QED BY <1>1, <2>1
<1>3. Good(n, after)
  BY <1>2
<1> HIDE DEF after
<1>4. \A k \in 0..n : Kept(m, top, after[k])
  <2> DEFINE Bad == {k \in Nat : k <= n /\ ~Kept(m, top, after[k])}
  <2>1. CASE Bad # {}
    <3>1. PICK k \in Bad : \A l \in Bad : k <= l
      BY <2>1, HasLeast
    <3>2. after[0] = m /\ Kept(m, top, m)
      BY <1>1, <1>3 DEF Kept
    <3>3. k # 0 /\ k \in 1..n
      BY <1>1, <3>1, <3>2
    <3>4. Kept(m, top, after[k - 1])
      BY <3>1, <3>3
    <3>5. after[k] = Expose(after[k - 1], d, list[k])
      BY <1>1, <1>3, <3>3
    <3>6. Pool(after[k - 1], top) /\ d \in 2..Len(after[k - 1].scopes)
      BY <3>4 DEF Kept
    <3>7. Kept(after[k - 1], top, after[k])
      BY <1>1, <3>3, <3>5, <3>6, ExposeKeeps
    <3> QED BY <3>1, <3>4, <3>7 DEF Kept
  <2> QED BY <1>1, <2>1
<1>5. ExposeAll(m, d, list) = after[n]
  BY DEF ExposeAll, after
<1> QED BY <1>1, <1>4, <1>5

\* A new scope has an identifier no cache has.
LEMMA PushKeeps ==
  ASSUME NEW m, NEW top, Pool(m, top), NEW n, DOMAIN n = Fields, n.cache = m.cache,
         n.scopes = Append(m.scopes, [id |-> top + 1, map |-> EmptyMap])
  PROVE  Pool(n, top + 1) /\ Len(n.scopes) = Len(m.scopes) + 1
<1> DEFINE new == [id |-> top + 1, map |-> EmptyMap]
<1> DEFINE k == Len(m.scopes)
<1>1. top \in Nat /\ top + 1 \in Nat /\ k \in Nat
  BY ScopesTyped DEF Pool
<1>2. EmptyMap \in [Simple -> Address]
  BY Bounds DEF EmptyMap
<1>3. new \in ScopeType(top + 1)
  BY <1>1, <1>2 DEF ScopeType
<1>4. ScopeType(top) \subseteq ScopeType(top + 1) /\ CacheType(top) \subseteq CacheType(top + 1)
  BY <1>1 DEF ScopeType, CacheType
<1>5. m.scopes \in Seq(ScopeType(top + 1))
  BY <1>4, SeqMonotonic DEF Pool
<1>6. /\ n.scopes \in Seq(ScopeType(top + 1)) /\ Len(n.scopes) = k + 1 /\ n.scopes[k + 1] = new
      /\ \A i \in 1..k : n.scopes[i] = m.scopes[i]
  BY <1>3, <1>5, AppendProperties
<1>7. n.cache \in [Cached -> CacheType(top + 1)]
  BY <1>4 DEF Pool
<1>8. \A i \in 1..k : n.scopes[i].id \in 1..top
  BY <1>6, ScopesTyped
<1>9. \A i, j \in 1..(k + 1) : n.scopes[i].id = n.scopes[j].id => i = j
  BY <1>1, <1>6, <1>8 DEF Pool
<1>10. ASSUME NEW s \in Simple, NEW i \in 1..(k + 1), n.cache[s].id = n.scopes[i].id
       PROVE  n.cache[s].var # NoVar /\ n.cache[s].var = n.scopes[i].map[s]
  <2>1. m.cache[s].id \in {-1} \union 1..top
    BY Names DEF Pool, CacheType
  <2>2. i # k + 1
    BY <1>1, <1>6, <1>10, <2>1
  <2> QED BY <1>1, <1>6, <1>10, <2>2 DEF Pool
<1> QED BY <1>1, <1>6, <1>7, <1>9, <1>10 DEF Pool

LEMMA ProcedureKeeps == ASSUME Inv, NEW list \in ExposeLists, procedure(list) PROVE Inv'
<1> DEFINE m1 == [mem EXCEPT !.scopes = Append(@, [id |-> idMax + 1, map |-> EmptyMap])]
<1>1. /\ DOMAIN m1 = Fields /\ m1.cache = mem.cache
      /\ m1.scopes = Append(mem.scopes, [id |-> idMax + 1, map |-> EmptyMap])
  BY DEF Inv, Pool, Fields
<1>2. Pool(m1, idMax + 1) /\ Len(m1.scopes) = Len(mem.scopes) + 1
  BY <1>1, PushKeeps DEF Inv
<1>3. Depth + 1 \in 2..Len(m1.scopes)
  BY <1>2, ScopesTyped DEF Inv, Depth
<1>4. list \in Seq(Symbols)
  BY BoundsAreNat DEF ExposeLists, Symbols
<1>5. Kept(m1, idMax + 1, ExposeAll(m1, Depth + 1, list))
  BY <1>2, <1>3, <1>4, ExposeAllKeeps
<1>6. mem' = ExposeAll(m1, Depth + 1, list) /\ idMax' = idMax + 1
  BY DEF procedure
<1> QED BY <1>2, <1>5, <1>6, ScopesTyped DEF Inv, Kept

LEMMA PopKeeps == ASSUME Inv, popScope PROVE Inv'
<1> DEFINE vs == Range(mem.scopes[Depth].map) \ {NoVar}
<1> DEFINE m1 == Free(mem, UNION {Owned(mem, v) : v \in vs})
<1> DEFINE k == Depth - 1
<1>1. k \in Nat /\ k >= 1 /\ k <= Len(mem.scopes) /\ Len(mem.scopes) \in Nat
  BY ScopesTyped DEF popScope, Depth, Inv
<1>2. Alike(mem, m1)
  BY PoolFields, HeapOnly DEF Inv
<1>3. /\ DOMAIN mem' = Fields /\ mem'.cache = mem.cache
      /\ mem'.scopes = SubSeq(mem.scopes, 1, k) /\ idMax' = idMax
  BY <1>2 DEF popScope, Alike, Inv, Pool, Fields
<1>4. /\ SubSeq(mem.scopes, 1, k) \in Seq(ScopeType(idMax))
      /\ Len(SubSeq(mem.scopes, 1, k)) = k
      /\ \A i \in 1..k : SubSeq(mem.scopes, 1, k)[i] = mem.scopes[i]
  BY <1>1 DEF Inv, Pool
<1>5. /\ Len(mem'.scopes) = k /\ mem'.scopes \in Seq(ScopeType(idMax))
      /\ \A i \in 1..k : i \in 1..Len(mem.scopes) /\ mem'.scopes[i] = mem.scopes[i]
  BY <1>1, <1>3, <1>4
<1>6. \A i, j \in 1..k : mem'.scopes[i].id = mem'.scopes[j].id => i = j
  BY <1>5 DEF Inv, Pool
<1>7. \A s \in Simple, i \in 1..k :
        mem'.cache[s].id = mem'.scopes[i].id =>
          mem'.cache[s].var # NoVar /\ mem'.cache[s].var = mem'.scopes[i].map[s]
  BY <1>3, <1>5 DEF Inv, Pool
<1>8. Pool(mem', idMax')
  BY <1>3, <1>5, <1>6, <1>7 DEF Inv, Pool
<1> QED BY <1>1, <1>5, <1>8 DEF Inv

-----------------------------------------------------------------------------
LEMMA InitInv == Init => Inv
<1> SUFFICES ASSUME Init PROVE Inv
  OBVIOUS
<1> DEFINE first == [id |-> 1, map |-> EmptyMap]
<1>1. DOMAIN mem = Fields /\ mem.scopes = <<first>> /\ idMax = 1
      /\ mem.cache = [s \in Cached |-> NoCache]
  BY DEF Init, Fields
<1>2. first \in ScopeType(1) /\ NoCache \in CacheType(1)
  BY Bounds DEF ScopeType, CacheType, EmptyMap, NoCache
<1>3. mem.scopes \in Seq(ScopeType(1)) /\ Len(mem.scopes) = 1 /\ mem.scopes[1].id = 1
  BY <1>1, <1>2
<1>4. \A s \in Simple : mem.cache[s].id = -1
  BY <1>1, Names DEF NoCache
<1>5. \A i \in 1..Len(mem.scopes) : mem.scopes[i].id # -1
  BY <1>3
<1> QED BY <1>1, <1>2, <1>3, <1>4, <1>5 DEF Inv, Pool

LEMMA NextInv == Inv /\ [Next]_vars => Inv'
<1> SUFFICES ASSUME Inv, [Next]_vars PROVE Inv'
  OBVIOUS
<1>1. CASE Clause
  BY <1>1, LoadKeeps, CreateKeeps, DropKeeps, AssignKeeps DEF Clause
<1>2. CASE Indirect
  BY <1>2, DropIndirectKeeps, SetValueKeeps DEF Indirect
<1>3. CASE Interpreter
  BY <1>3, SetRCKeeps DEF Interpreter
<1>4. CASE Routine
  BY <1>4, PopKeeps, ProcedureKeeps DEF Routine
<1>5. CASE UNCHANGED vars
  BY <1>5 DEF vars, Inv
<1> QED BY <1>1, <1>2, <1>3, <1>4, <1>5 DEF Next

\* The header of VariableHandler.cpp, for the symbols of the program: a cache that has
\* the identifier of a scope has the variable of that scope, whatever was dropped,
\* exposed, called and returned from since, for any number of variables and scopes.
THEOREM CacheAlwaysSound == Spec => []CacheSound
<1>1. Inv => CacheSound
  BY ScopesTyped, Names DEF Inv, Pool, CacheSound, CacheAgrees, Depth
<1> QED BY <1>1, InitInv, NextInv, PTL DEF Spec

=============================================================================
