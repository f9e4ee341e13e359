------------------------- MODULE MCVariableHandler -------------------------
(***************************************************************************)
(* The instance of VariableHandler that TLC checks; the configurations give*)
(* the constants.                                                          *)
(***************************************************************************)
EXTENDS VariableHandler, SequencesExt

InUse(c) == \E i \in 1..Depth : mem.scopes[i].id = c.id

\* Where an address can be found, in a fixed order: first NoVar, the caches
\* that have the identifier of a scope and the target, then the entries and the
\* tails of each scope.
TailOrder == SetToSeq(Tails)
Places ==
  LET CacheOf(s)   == IF InUse(mem.cache[s]) THEN mem.cache[s].var ELSE NoVar
      TailAt(ts, t) == IF t \in DOMAIN ts THEN ts[t] ELSE NoVar
      InStem(v)    == [k \in DOMAIN TailOrder |-> TailAt(mem.heap[v].tails, TailOrder[k])]
      InScope(map) == <<map["RC"], map["S."]>> \o InStem(map["S."])
      all[i \in 0..Depth] ==
        IF i = 0 THEN <<NoVar, CacheOf("RC"), CacheOf("S."), CacheOf("rc"), target.var>>
        ELSE all[i-1] \o InScope(mem.scopes[i].map)
  IN  all[Depth]

\* States that differ only in which addresses the variables have are explored
\* once: an address is known by the first of its places (SourcesLive puts the
\* sources there too), and what is alive and has none, which nothing reaches,
\* is counted. So are states that differ only in a cache whose identifier no
\* scope has: no operation reads it and no property looks at it, and
\* identifiers are never used again. Nothing follows a use of deleted memory
\* (mem.bad). That the memory equals itself makes TLC evaluate it before it
\* stores it.
WithoutAddresses ==
  LET ps      == Places
      named   == Range(ps)
      first   == [v \in Vars |-> IF v \in named THEN CHOOSE k \in DOMAIN ps : ps[k] = v ELSE 0] \o << >>
      Name(v) == IF v = NoVar THEN 1 ELSE first[v]
      Var(h)  == IF ~h.live THEN << >>
                 ELSE <<h.key, h.val, Name(h.src), {<<t, Name(h.tails[t])>> : t \in DOMAIN h.tails}>>
  IN  IF mem.bad THEN <<mem.bad>>
      ELSE <<[k \in DOMAIN ps |-> Name(ps[k])], {<<Name(v), Var(mem.heap[v])>> : v \in named},
             mem.left \intersect named = {}, Cardinality(mem.left), Cardinality(Live \ named),
             [i \in 1..Depth |-> mem.scopes[i].id],
             [s \in Cached |-> IF InUse(mem.cache[s]) THEN mem.cache[s].id ELSE -1],
             target.depth, target.stem, idMax,
             mem = [mem EXCEPT !.heap = @]>>

=============================================================================
