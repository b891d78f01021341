-------------------------- MODULE AtomicityProofs --------------------------
(***************************************************************************)
(* The proof that a handler which no store overlaps has the effect of the  *)
(* handler of module Bus, taken as one step: the justification of the      *)
(* atomic handlers of modules Bus, Simulator and Coherence.                *)
(***************************************************************************)
EXTENDS BusStepsProofs

(***************************************************************************)
(* The searches of module Bus, seen from the loop that computes them.      *)
(***************************************************************************)
FitsAt(cs, a, search, k) == Fits(search, LineFor(cs, k, a))

SearchResult(cs, a, c, search) ==
  Seek(cs, a, Lowest({k \in Holders(cs, a, c) : FitsAt(cs, a, search, k)}), SetTo[search])

LEMMA SearchResults ==
  ASSUME NEW cs, NEW a, NEW c
  PROVE  /\ seek_owned(cs, a, c) = SearchResult(cs, a, c, "seek_owned")
         /\ seek_shared(cs, a, c) = SearchResult(cs, a, c, "seek_shared")
<1>1. SetTo["seek_owned"] = "OWNED" /\ SetTo["seek_shared"] = "SHARED"
  BY DEF SetTo
<1>2. \A k : FitsAt(cs, a, "seek_owned", k) <=> Dirty(LineFor(cs, k, a))
  BY DEF FitsAt, Fits
<1>3. \A k : FitsAt(cs, a, "seek_shared", k) <=> Clean(LineFor(cs, k, a))
  BY DEF FitsAt, Fits
<1>4. /\ {k \in Holders(cs, a, c) : FitsAt(cs, a, "seek_owned", k)}
           = {k \in Holders(cs, a, c) : Dirty(LineFor(cs, k, a))}
      /\ {k \in Holders(cs, a, c) : FitsAt(cs, a, "seek_shared", k)}
           = {k \in Holders(cs, a, c) : Clean(LineFor(cs, k, a))}
  BY <1>2, <1>3
<1> QED
  BY <1>1, <1>4 DEF seek_owned, seek_shared, SearchResult

LEMMA SetNoState ==
  ASSUME NEW cs \in Caches, NEW a, NEW s
  PROVE  set_core_cache_block_state(cs, {}, a, s) = cs
<1>1. set_core_cache_block_state(cs, {}, a, s) = [k \in Core |-> cs[k]]
  BY DEF set_core_cache_block_state
<1>2. cs = [k \in Core |-> cs[k]]
  BY DEF Caches
<1> QED
  BY <1>1, <1>2

\* The loop that stops at core k has found what the search of module Bus finds.
LEMMA SearchStops ==
  ASSUME NEW cs \in Caches, NEW a, NEW c, NEW search, NEW k \in Holders(cs, a, c),
         FitsAt(cs, a, search, k),
         \A j \in Holders(cs, a, c) : j < k => ~FitsAt(cs, a, search, j)
  PROVE  /\ SearchResult(cs, a, c, search).data = LineFor(cs, k, a).data
         /\ SearchResult(cs, a, c, search).caches
              = set_core_cache_block_state(cs, {k}, a, SetTo[search])
<1> DEFINE found == {h \in Holders(cs, a, c) : FitsAt(cs, a, search, h)}
<1>1. Holders(cs, a, c) \subseteq Nat
  BY BusAssumption DEF Holders, Core
<1>2. \A j \in found : k <= j
  <2> SUFFICES ASSUME NEW j \in found
               PROVE  k <= j
    OBVIOUS
  <2>1. ~(j < k) /\ j \in Nat /\ k \in Nat
    BY <1>1
  <2> QED
    BY <2>1
<1>3. k \in found /\ \A j \in found : j \in Nat
  BY <1>1
<1> HIDE DEF found
<1>4. Lowest(found) = {k}
  <2>1. k \in Lowest(found)
    BY <1>2, <1>3 DEF Lowest
  <2>2. ASSUME NEW j \in Lowest(found)
        PROVE  j = k
    <3>1. j \in found /\ j <= k
      BY <1>3 DEF Lowest
    <3>2. k <= j /\ j \in Nat /\ k \in Nat
      BY <1>2, <1>3, <3>1
    <3> QED
      BY <3>1, <3>2
  <2> QED
    BY <2>1, <2>2
<1>5. Min({k}) = k
  <2>1. {k} \in SUBSET Nat /\ {k} # {}
    BY <1>3
  <2>2. Min({k}) \in {k}
    BY <2>1, MinIsMember
  <2> QED
    BY <2>2
<1>6. SearchResult(cs, a, c, search) = Seek(cs, a, {k}, SetTo[search])
  BY <1>4 DEF SearchResult, found
<1> QED
  BY <1>5, <1>6 DEF Seek

\* The loop that comes to its end has found nothing.
LEMMA SearchEnds ==
  ASSUME NEW cs \in Caches, NEW a, NEW c, NEW search,
         \A j \in Holders(cs, a, c) : ~FitsAt(cs, a, search, j)
  PROVE  SearchResult(cs, a, c, search).data = -1 /\ SearchResult(cs, a, c, search).caches = cs
<1>1. Lowest({h \in Holders(cs, a, c) : FitsAt(cs, a, search, h)}) = {}
  BY DEF Lowest
<1>2. SearchResult(cs, a, c, search) = Seek(cs, a, {}, SetTo[search])
  BY <1>1 DEF SearchResult
<1> QED
  BY <1>2, SetNoState DEF Seek

\* A search leaves the cache of the core that it serves alone.
LEMMA SearchLeavesItsCore ==
  ASSUME NEW cs, NEW a, NEW c \in Core, NEW search
  PROVE  SearchResult(cs, a, c, search).caches[c] = cs[c]
<1> DEFINE found == {h \in Holders(cs, a, c) : FitsAt(cs, a, search, h)}
<1>1. c \notin Lowest(found)
  BY DEF Lowest, Holders
<1> HIDE DEF found
<1>2. SearchResult(cs, a, c, search).caches
        = set_core_cache_block_state(cs, Lowest(found), a, SetTo[search])
  BY DEF SearchResult, Seek, found
<1> QED
  BY <1>1, <1>2 DEF set_core_cache_block_state

\* How far the loop has come when it looks for the next core.
LEMMA CoresPassed ==
  ASSUME NEW cs, NEW m, NEW k \in Core, NEW next, next = LookFrom(cs, m, k + 1)
  PROVE  \A j \in Holders(cs, m.address, m.id) : j < next <=> (j < k \/ j = k)
<1> SUFFICES ASSUME NEW j \in Holders(cs, m.address, m.id)
             PROVE  j < next <=> (j < k \/ j = k)
  OBVIOUS
<1>1. j \in Nat /\ k \in Nat /\ N_CPU \in Nat /\ k < N_CPU /\ j < N_CPU
  BY BusAssumption DEF Holders, Core
<1>2. k + 1 \in Nat
  BY <1>1
<1>3. /\ next \in 0 .. N_CPU
      /\ next # N_CPU => k + 1 <= next
      /\ k + 1 <= j => next <= j
  BY <1>2, LookFromFinds
<1> QED
  BY <1>1, <1>3

LEMMA NoCorePassed ==
  ASSUME NEW cs, NEW m, NEW first, first = LookFrom(cs, m, 0)
  PROVE  /\ \A j \in Holders(cs, m.address, m.id) : ~(j < first)
         /\ first = N_CPU => Holders(cs, m.address, m.id) = {}
<1>1. Holders(cs, m.address, m.id) \subseteq Nat
  BY BusAssumption DEF Holders, Core
<1>2. /\ first \in 0 .. N_CPU
      /\ \A j \in Holders(cs, m.address, m.id) : 0 <= j => first <= j /\ first # N_CPU
  BY LookFromFinds
<1>3. ASSUME NEW j \in Holders(cs, m.address, m.id)
      PROVE  ~(j < first) /\ first # N_CPU
  <2>1. j \in Nat /\ 0 <= j /\ N_CPU \in Nat
    BY <1>1, BusAssumption
  <2>2. first <= j /\ first # N_CPU /\ first \in 0 .. N_CPU
    BY <1>2, <2>1
  <2> QED
    BY <2>1, <2>2
<1> QED
  BY <1>3

LEMMA AllCoresPassed ==
  ASSUME NEW cs, NEW m, NEW j \in Holders(cs, m.address, m.id)
  PROVE  j < N_CPU
BY BusAssumption DEF Holders, Core

\* The same for the loop that invalidates.
LEMMA InvalidateOneMore ==
  ASSUME NEW f, NEW a, NEW s, NEW S \in SUBSET Core, NEW k \in Core \ S
  PROVE  LET g == set_core_cache_block_state(f, S, a, s)
         IN  /\ g[k] = f[k]
             /\ set_core_cache_block_state(g, {k}, a, s) = set_core_cache_block_state(f, S \cup {k}, a, s)
<1> DEFINE g == set_core_cache_block_state(f, S, a, s)
           r == set_core_cache_block_state(g, {k}, a, s)
           t == set_core_cache_block_state(f, S \cup {k}, a, s)
<1>1. g[k] = f[k] /\ \A j \in Core \ {k} : g[j] = t[j]
  BY DEF set_core_cache_block_state
<1>2. \A j \in Core \ {k} : r[j] = g[j]
  BY DEF set_core_cache_block_state
<1>3. r[k] = t[k]
  BY <1>1 DEF set_core_cache_block_state
<1>4. /\ r = [j \in Core |-> r[j]] /\ t = [j \in Core |-> t[j]]
  BY DEF set_core_cache_block_state
<1> HIDE DEF g, r, t
<1>5. \A j \in Core : r[j] = t[j]
  BY <1>1, <1>2, <1>3
<1>6. r = t
  BY <1>4, <1>5
<1> QED
  BY <1>1, <1>6 DEF g, r, t

LEMMA InvalidateStops ==
  ASSUME NEW f, NEW a, NEW c, NEW k \in Holders(f, a, c), ~Valid(LineFor(f, k, a)),
         \A j \in Holders(f, a, c) : j < k => Valid(LineFor(f, j, a))
  PROVE  seek_invalidate(f, a, c)
           = set_core_cache_block_state(f, {j \in Holders(f, a, c) : j < k}, a, "INVALID")
<1> DEFINE H == Holders(f, a, c)
<1>1. H \subseteq Nat
  BY BusAssumption DEF Holders, Core
<1>2. k \in H /\ ~Valid(LineFor(f, k, a)) /\ \A j \in H : j < k => Valid(LineFor(f, j, a))
  OBVIOUS
<1> HIDE DEF H
<1>3. ASSUME NEW h \in H
      PROVE  (\A j \in H : j <= h => Valid(LineFor(f, j, a))) <=> h < k
  <2>1. CASE h < k
    <3>1. \A j \in H : j <= h => j < k
      <4>1. \A j \in H : j \in Nat /\ h \in Nat /\ k \in Nat
        BY <1>1, <1>2, <1>3
      <4> QED
        BY <2>1, <4>1
    <3> QED
      BY <1>2, <2>1, <3>1
  <2>2. CASE ~(h < k)
    <3>1. k <= h
      BY <1>1, <1>2, <1>3, <2>2
    <3> QED
      BY <1>2, <2>2, <3>1
  <2> QED
    BY <2>1, <2>2
<1>4. {h \in H : \A j \in H : j <= h => Valid(LineFor(f, j, a))} = {j \in H : j < k}
  BY <1>3
<1> QED
  BY <1>4 DEF seek_invalidate, H

LEMMA InvalidateEnds ==
  ASSUME NEW f, NEW a, NEW c, \A j \in Holders(f, a, c) : Valid(LineFor(f, j, a))
  PROVE  seek_invalidate(f, a, c)
           = set_core_cache_block_state(f, Holders(f, a, c), a, "INVALID")
<1>1. {h \in Holders(f, a, c) :
         \A j \in Holders(f, a, c) : j <= h => Valid(LineFor(f, j, a))} = Holders(f, a, c)
  OBVIOUS
<1> QED
  BY <1>1 DEF seek_invalidate

(***************************************************************************)
(* The inductive invariant: how far the handler has come from the caches b *)
(* that it found when the request m was received.                          *)
(***************************************************************************)
Asked(b, m) ==
  IF PROTOCOL = "MOESI" THEN SearchResult(b.caches, m.address, m.id, "seek_owned")
                        ELSE [data |-> -1, caches |-> b.caches]

Shared(b, m) == SearchResult(Asked(b, m).caches, m.address, m.id, "seek_shared")

Found(b, m) == b.caches[m.id][m.block_id]

WrittenBack(b, m) ==
  IF Dirty(Found(b, m)) THEN set_data_in_memory(b.memory, m.address, Found(b, m).data) ELSE b.memory

\* A search through cs for a copy, which has answered r when it returns.
Searches(t, now, cs, r) ==
  LET a == t.m.address
      H == Holders(cs, a, t.m.id)
  IN  /\ t.at \in {"state", "data", "set"} =>
           /\ now = cs
           /\ \A j \in H : j < t.core => ~FitsAt(cs, a, t.search, j)
      /\ t.at \in {"data", "set"} => FitsAt(cs, a, t.search, t.core)
      /\ t.at = "set" => t.data = LineFor(cs, t.core, a).data
      /\ t.at = "return" => now = r.caches /\ t.data = r.data

\* The caches with the line of the requester filled, before the invalidation, and
\* whether the handler counts it.
Fillings(b, m, f, counts) ==
  \/ /\ m.access = "WRITEMISS" /\ counts
     /\ f = Fill(b.caches, m, "MODIFIED", m.value)
  \/ /\ m.access = "INCREMENT" /\ Found(b, m).address # m.address
     /\ \/ /\ Asked(b, m).data # -1 /\ ~counts
           /\ f = Fill(Asked(b, m).caches, m, "MODIFIED", Asked(b, m).data + 1)
        \/ /\ Asked(b, m).data = -1 /\ Shared(b, m).data # -1 /\ ~counts
           /\ f = Fill(Shared(b, m).caches, m, "MODIFIED", Shared(b, m).data + 1)
        \/ /\ Asked(b, m).data = -1 /\ Shared(b, m).data = -1 /\ counts
           /\ f = Fill(Shared(b, m).caches, m, "MODIFIED",
                       get_data_from_memory(WrittenBack(b, m), m.address) + 1)

Invalidates(t, now, f) ==
  LET a == t.m.address
      H == Holders(f, a, t.m.id)
  IN  /\ t.at # "data"
      /\ t.at \in {"state", "set"} =>
           /\ now = set_core_cache_block_state(f, {j \in H : j < t.core}, a, "INVALID")
           /\ \A j \in H : j < t.core => Valid(LineFor(f, j, a))
      /\ t.at = "set" => Valid(LineFor(f, t.core, a))
      /\ t.at = "return" => now = seek_invalidate(f, a, t.m.id)

\* The stage of the task t when the caches are now.
Stage(t, now, b) ==
  LET m == t.m
  IN  /\ t.search = "seek_owned" =>
           /\ PROTOCOL = "MESI" => t.at = "return"
           /\ Searches(t, now, b.caches, Asked(b, m))
      /\ t.search = "seek_shared" =>
           /\ Found(b, m).address # m.address /\ Asked(b, m).data = -1
           /\ Searches(t, now, Asked(b, m).caches, Shared(b, m))
      /\ t.search = "seek_invalidate" =>
           \E f \in Caches : Fillings(b, m, f, t.counts) /\ Invalidates(t, now, f)

Snapshot == [caches : Caches, memory : [MemAddress -> Int], INV : [Core -> Nat]]

AsIfAtomic ==
  task # Idle /\ before # NoBefore =>
    /\ before \in Snapshot
    /\ \A c \in Core : pc[c] \notin {"hit", "stored"}
    /\ memory = WrittenBack(before, task.m) /\ INV = before.INV
    /\ Stage(task, caches, before)

LEMMA AnswerTypes ==
  ASSUME NEW cs \in Caches, NEW a, NEW c
  PROVE  /\ SearchResult(cs, a, c, "seek_owned").caches \in Caches
         /\ SearchResult(cs, a, c, "seek_owned").data \in Int
         /\ SearchResult(cs, a, c, "seek_shared").caches \in Caches
         /\ SearchResult(cs, a, c, "seek_shared").data \in Int
BY SearchResults, SeekOwnedType, SeekSharedType

LEMMA AskedTypes ==
  ASSUME NEW b \in Snapshot, NEW m \in Message
  PROVE  /\ Asked(b, m).caches \in Caches /\ Asked(b, m).data \in Int
         /\ Shared(b, m).caches \in Caches /\ Shared(b, m).data \in Int
         /\ Asked(b, m).caches[m.id] = b.caches[m.id]
         /\ Shared(b, m).caches[m.id] = b.caches[m.id]
         /\ Found(b, m) \in CacheBlock
         /\ WrittenBack(b, m) \in [MemAddress -> Int]
<1>1. b.caches \in Caches /\ b.memory \in [MemAddress -> Int] /\ m.id \in Core
      /\ m.address \in Address /\ m.block_id \in Block
  BY DEF Snapshot, Message
<1>2. /\ Asked(b, m).caches \in Caches /\ Asked(b, m).data \in Int
      /\ Asked(b, m).caches[m.id] = b.caches[m.id]
  BY <1>1, AnswerTypes, SearchLeavesItsCore DEF Asked
<1>3. /\ Shared(b, m).caches \in Caches /\ Shared(b, m).data \in Int
      /\ Shared(b, m).caches[m.id] = Asked(b, m).caches[m.id]
  BY <1>1, <1>2, AnswerTypes, SearchLeavesItsCore DEF Shared
<1>4. Found(b, m) \in CacheBlock /\ Found(b, m).data \in Int
  BY <1>1 DEF Found, Caches, CacheBlock
<1>5. WrittenBack(b, m) \in [MemAddress -> Int]
  BY <1>1, <1>4, MemoryTypes DEF WrittenBack
<1> QED
  BY <1>2, <1>3, <1>4, <1>5

(***************************************************************************)
(* The steps of a loop.                                                    *)
(***************************************************************************)
\* What the steps of a loop leave alone.
SameHandler == /\ task'.m = task.m /\ task'.search = task.search /\ task'.counts = task.counts
               /\ task'.at # "receive"
               /\ UNCHANGED <<memory, INV, pc, before>>

LEMMA LoopStep ==
  ASSUME StepsInv, copy_state \/ copy_data \/ set_state
  PROVE  /\ task # Idle /\ task \in Task /\ task.core \in Holders(caches, task.m.address, task.m.id)
         /\ SameHandler
<1>1. task # Idle /\ task \in Task
  BY AtIsNotIdle DEF copy_state, copy_data, set_state, StepsInv, StepsTypes
<1>2. task.core \in Holders(caches, task.m.address, task.m.id)
  BY <1>1 DEF copy_state, copy_data, set_state, StepsInv, StepsTypes, StepsTypeOK
<1>3. UNCHANGED <<memory, INV, pc, before>>
  BY DEF copy_state, copy_data, set_state, vars, busVars, cpuVars
<1>4. SUFFICES /\ task'.m = task.m /\ task'.search = task.search /\ task'.counts = task.counts
               /\ task'.at # "receive"
  BY <1>1, <1>2, <1>3 DEF SameHandler
<1>5. CASE task' = [task EXCEPT !.at = IF task.search = "seek_invalidate" THEN "set" ELSE "data"]
  BY <1>1, <1>5 DEF Task
<1>6. CASE task' = [task EXCEPT !.at = "set",
                                !.data = LineFor(caches, task.core, task.m.address).data]
  BY <1>1, <1>6 DEF Task
<1>7. CASE NextCore
  BY <1>1, <1>7, NextCoreAdvances DEF Advanced
<1>8. CASE Return(-1) \/ Return(task.data)
  <2>1. -1 \in Int /\ task.data \in Int
    BY <1>1 DEF Task
  <2> QED
    BY <1>1, <1>8, <2>1, ReturnReturns
<1> QED
  BY <1>5, <1>6, <1>7, <1>8 DEF copy_state, copy_data, set_state

LEMMA SearchGoesOn ==
  ASSUME StepsInv, copy_state \/ copy_data \/ set_state, task.search # "seek_invalidate",
         NEW cs \in Caches, NEW r, r = SearchResult(cs, task.m.address, task.m.id, task.search),
         Searches(task, caches, cs, r)
  PROVE  Searches(task', caches', cs, r)
<1> DEFINE a == task.m.address
           c == task.m.id
           H == Holders(cs, a, c)
           k == task.core
<1>1. task # Idle /\ task \in Task /\ k \in Holders(caches, a, c) /\ SameHandler
  BY LoopStep
<1>2. task'.m.address = a /\ task'.m.id = c /\ task'.search = task.search
  BY <1>1 DEF SameHandler
<1>3. /\ caches = cs /\ k \in H
      /\ \A j \in H : j < k => ~FitsAt(cs, a, task.search, j)
      /\ task.at \in {"data", "set"} => FitsAt(cs, a, task.search, k)
      /\ task.at = "set" => task.data = LineFor(cs, k, a).data
  BY <1>1 DEF Searches, copy_state, copy_data, set_state
<1>4. SUFFICES
        /\ task'.at \in {"state", "data", "set"} =>
             /\ caches' = cs
             /\ \A j \in H : j < task'.core => ~FitsAt(cs, a, task.search, j)
        /\ task'.at \in {"data", "set"} => FitsAt(cs, a, task.search, task'.core)
        /\ task'.at = "set" => task'.data = LineFor(cs, task'.core, a).data
        /\ task'.at = "return" => caches' = r.caches /\ task'.data = r.data
  BY <1>2 DEF Searches
<1>5. FitsAt(cs, a, task.search, k) <=> Fits(task.search, LineFor(cs, k, a))
  BY DEF FitsAt
<1>6. CASE copy_state /\ Fits(task.search, LineFor(cs, k, a))
  <2>1. /\ task' = [task EXCEPT !.at = "data"] /\ UNCHANGED caches
    BY <1>3, <1>6 DEF copy_state, vars, busVars
  <2>2. task'.at = "data" /\ task'.core = k
    BY <1>1, <2>1 DEF Task
  <2> QED
    BY <1>3, <1>5, <1>6, <2>1, <2>2
<1>7. CASE copy_state /\ ~Fits(task.search, LineFor(cs, k, a))
  <2>1. NextCore /\ UNCHANGED caches
    BY <1>3, <1>7 DEF copy_state, vars, busVars
  <2>2. /\ task'.at \in {"state", "return"} /\ task'.data = -1
        /\ task'.at = "return" <=> task'.core = N_CPU
        /\ task'.core = LookFrom(cs, task.m, k + 1)
    BY <1>1, <1>3, <2>1, NextCoreAdvances DEF Advanced
  <2>3. k \in Core
    BY <1>3 DEF Holders
  <2>4. \A j \in H : j < task'.core <=> (j < k \/ j = k)
    BY <2>2, <2>3, CoresPassed
  <2>5. \A j \in H : j < task'.core => ~FitsAt(cs, a, task.search, j)
    BY <1>3, <1>5, <1>7, <2>4
  <2>6. CASE task'.at = "state"
    BY <1>3, <2>1, <2>5, <2>6
  <2>7. CASE task'.at = "return"
    <3>1. \A j \in H : j < N_CPU
      BY AllCoresPassed
    <3>2. \A j \in H : ~FitsAt(cs, a, task.search, j)
      BY <2>2, <2>5, <2>7, <3>1
    <3>3. r.data = -1 /\ r.caches = cs
      BY <3>2, SearchEnds
    <3> QED
      BY <1>3, <2>1, <2>2, <2>7, <3>3
  <2> QED
    BY <2>2, <2>6, <2>7
<1>8. CASE copy_data
  <2>1. /\ task.at = "data" /\ UNCHANGED caches
        /\ task' = [task EXCEPT !.at = "set", !.data = LineFor(cs, k, a).data]
    BY <1>3, <1>8 DEF copy_data, vars, busVars
  <2>2. task'.at = "set" /\ task'.core = k /\ task'.data = LineFor(cs, k, a).data
    BY <1>1, <2>1 DEF Task
  <2> QED
    BY <1>3, <2>1, <2>2
<1>9. CASE set_state
  <2>1. /\ task.at = "set" /\ Return(task.data)
        /\ caches' = set_core_cache_block_state(cs, {k}, a, SetTo[task.search])
    BY <1>3, <1>9 DEF set_state
  <2>2. task.data \in Int
    BY <1>1 DEF Task
  <2>3. task'.at = "return" /\ task'.data = task.data
    BY <1>1, <2>1, <2>2, ReturnReturns
  <2>4. FitsAt(cs, a, task.search, k)
    BY <1>3, <2>1
  <2>5. /\ r.data = LineFor(cs, k, a).data
        /\ r.caches = set_core_cache_block_state(cs, {k}, a, SetTo[task.search])
    <3>1. r = SearchResult(cs, a, c, task.search) /\ k \in Holders(cs, a, c)
          /\ \A j \in Holders(cs, a, c) : j < k => ~FitsAt(cs, a, task.search, j)
      BY <1>3
    <3> HIDE DEF a, c, k
    <3> QED
      BY <2>4, <3>1, SearchStops
  <2> QED
    BY <1>3, <2>1, <2>3, <2>5
<1> QED
  BY <1>6, <1>7, <1>8, <1>9

LEMMA SetKeepsHolders ==
  ASSUME NEW f \in Caches, NEW a, NEW c, NEW S \in SUBSET Holders(f, a, c), NEW s \in CacheState
  PROVE  Holders(set_core_cache_block_state(f, S, a, s), a, c) = Holders(f, a, c)
<1> DEFINE r == set_core_cache_block_state(f, S, a, s)
<1>1. S \in SUBSET Core /\ \A k \in S : getCacheBlock_by_address(f[k], a) # NotFound
  BY DEF Holders
<1>2. \A k \in Core \ {c}, i \in Block : r[k][i].address = f[k][i].address
  BY <1>1, SetStateEffect
<1> HIDE DEF r
<1>3. Holders(r, a, c) = Holders(f, a, c)
  BY <1>2, SameHolders
<1> QED
  BY <1>3 DEF r

LEMMA InvalidateGoesOn ==
  ASSUME StepsInv, copy_state \/ copy_data \/ set_state, task.search = "seek_invalidate",
         NEW f \in Caches, Invalidates(task, caches, f)
  PROVE  Invalidates(task', caches', f)
<1> DEFINE a == task.m.address
           c == task.m.id
           H == Holders(f, a, c)
           k == task.core
           passed == {j \in H : j < k}
<1>1. task # Idle /\ task \in Task /\ k \in Holders(caches, a, c) /\ SameHandler
  BY LoopStep
<1>2. task'.m.address = a /\ task'.m.id = c
  BY <1>1 DEF SameHandler
<1>3. /\ caches = set_core_cache_block_state(f, passed, a, "INVALID")
      /\ \A j \in H : j < k => Valid(LineFor(f, j, a))
      /\ task.at = "set" => Valid(LineFor(f, k, a))
      /\ ~copy_data
  BY DEF Invalidates, copy_state, copy_data, set_state
<1>4. SUFFICES
        /\ task'.at # "data"
        /\ task'.at \in {"state", "set"} =>
             /\ caches' = set_core_cache_block_state(f, {j \in H : j < task'.core}, a, "INVALID")
             /\ \A j \in H : j < task'.core => Valid(LineFor(f, j, a))
        /\ task'.at = "set" => Valid(LineFor(f, task'.core, a))
        /\ task'.at = "return" => caches' = seek_invalidate(f, a, c)
  BY <1>2 DEF Invalidates
<1>5. Holders(caches, a, c) = H
  <2>1. passed \in SUBSET H /\ "INVALID" \in CacheState
    BY DEF CacheState
  <2> HIDE DEF passed
  <2> QED
    BY <1>3, <2>1, SetKeepsHolders
<1>6. k \in H /\ k \in Core /\ k \in Nat
  BY <1>1, <1>5, BusAssumption DEF Holders, Core
<1>7. passed \in SUBSET Core /\ k \in Core \ passed
  BY <1>6 DEF Holders
<1>8. /\ caches[k] = f[k]
      /\ set_core_cache_block_state(caches, {k}, a, "INVALID")
           = set_core_cache_block_state(f, passed \cup {k}, a, "INVALID")
  <2>1. caches = set_core_cache_block_state(f, passed, a, "INVALID")
    BY <1>3
  <2> HIDE DEF passed, k, a
  <2> QED
    BY <1>7, <2>1, InvalidateOneMore
<1>9. LineFor(caches, k, a) = LineFor(f, k, a)
  BY <1>8 DEF LineFor
<1>10. CASE copy_state /\ Valid(LineFor(f, k, a))
  <2>1. task' = [task EXCEPT !.at = "set"] /\ UNCHANGED caches
    BY <1>9, <1>10 DEF copy_state, Fits, vars, busVars
  <2>2. task'.at = "set" /\ task'.core = k
    BY <1>1, <2>1 DEF Task
  <2> QED
    BY <1>3, <1>10, <2>1, <2>2
<1>11. CASE copy_state /\ ~Valid(LineFor(f, k, a))
  <2>1. Return(-1) /\ UNCHANGED caches
    BY <1>9, <1>11 DEF copy_state, Fits, vars, busVars
  <2>2. task'.at = "return"
    BY <1>1, <2>1, ReturnReturns
  <2>3. seek_invalidate(f, a, c) = set_core_cache_block_state(f, passed, a, "INVALID")
    BY <1>3, <1>6, <1>11, InvalidateStops
  <2> QED
    BY <1>3, <2>1, <2>2, <2>3
<1>12. CASE set_state
  <2>1. /\ task.at = "set" /\ NextCore
        /\ caches' = set_core_cache_block_state(caches, {k}, a, SetTo[task.search])
    BY <1>12 DEF set_state
  <2>2. SetTo[task.search] = "INVALID"
    BY DEF SetTo
  <2>3. /\ task'.at \in {"state", "return"}
        /\ task'.at = "return" <=> task'.core = N_CPU
        /\ task'.core = LookFrom(caches, task.m, k + 1)
    BY <1>1, <2>1, NextCoreAdvances DEF Advanced
  <2>4. \A j \in H : j < task'.core <=> (j < k \/ j = k)
    BY <1>5, <1>6, <2>3, CoresPassed
  <2>5. {j \in H : j < task'.core} = passed \cup {k}
    BY <1>6, <2>4
  <2>6. \A j \in H : j < task'.core => Valid(LineFor(f, j, a))
    BY <1>3, <2>1, <2>4
  <2>7. caches' = set_core_cache_block_state(f, {j \in H : j < task'.core}, a, "INVALID")
    BY <1>8, <2>1, <2>2, <2>5
  <2>8. CASE task'.at = "state"
    BY <2>6, <2>7, <2>8
  <2>9. CASE task'.at = "return"
    <3>1. \A j \in H : j < N_CPU
      BY AllCoresPassed
    <3>2. {j \in H : j < task'.core} = H /\ \A j \in H : Valid(LineFor(f, j, a))
      BY <2>3, <2>6, <2>9, <3>1
    <3>3. seek_invalidate(f, a, c) = set_core_cache_block_state(f, H, a, "INVALID")
      BY <3>2, InvalidateEnds
    <3> QED
      BY <2>7, <2>9, <3>2, <3>3
  <2> QED
    BY <2>3, <2>8, <2>9
<1> QED
  BY <1>3, <1>10, <1>11, <1>12

(***************************************************************************)
(* The start of a loop.                                                    *)
(***************************************************************************)
LEMMA SearchBegins ==
  ASSUME NEW t \in Task, NEW s \in Search, NEW cs \in Caches, Begin(t, s, cs)
  PROVE  Searches(task', cs, cs, SearchResult(cs, t.m.address, t.m.id, s))
<1> DEFINE r == SearchResult(cs, t.m.address, t.m.id, s)
           H == Holders(cs, t.m.address, t.m.id)
<1>1. /\ task'.m = t.m /\ task'.search = s /\ task'.data = -1 /\ task'.at \in {"state", "return"}
      /\ task'.at = "return" <=> task'.core = N_CPU
      /\ task'.core = LookFrom(cs, t.m, 0)
  BY BeginAdvances DEF Advanced
<1>2. /\ \A j \in H : ~(j < task'.core)
      /\ task'.core = N_CPU => H = {}
  BY <1>1, NoCorePassed
<1>3. task'.at = "return" => r.data = -1 /\ r.caches = cs
  <2> SUFFICES ASSUME H = {}
               PROVE  r.data = -1 /\ r.caches = cs
    BY <1>1, <1>2
  <2> QED
    BY SearchEnds
<1> HIDE DEF r
<1>4. Searches(task', cs, cs, r)
  BY <1>1, <1>2, <1>3 DEF Searches
<1> QED
  BY <1>4 DEF r

LEMMA InvalidateBegins ==
  ASSUME NEW t \in Task, NEW cs \in Caches, Begin(t, "seek_invalidate", cs),
         NEW f \in Caches, \A k \in Core \ {t.m.id} : f[k] = cs[k]
  PROVE  Invalidates(task', f, f)
<1> DEFINE a == t.m.address
           H == Holders(cs, a, t.m.id)
<1>1. "seek_invalidate" \in Search
  BY DEF Search
<1>2. /\ task'.m = t.m /\ task'.at \in {"state", "return"}
      /\ task'.at = "return" <=> task'.core = N_CPU
      /\ task'.core = LookFrom(cs, t.m, 0)
  BY <1>1, BeginAdvances DEF Advanced
<1>3. /\ \A j \in H : ~(j < task'.core)
      /\ task'.core = N_CPU => H = {}
  BY <1>2, NoCorePassed
<1>4. Holders(f, a, t.m.id) = H
  BY SameHolders
<1>5. {j \in Holders(f, a, t.m.id) : j < task'.core} = {}
  BY <1>3, <1>4
<1>6. set_core_cache_block_state(f, {}, a, "INVALID") = f
  BY SetNoState
<1>7. task'.at = "return" => seek_invalidate(f, a, t.m.id) = f
  <2> SUFFICES ASSUME Holders(f, a, t.m.id) = {}
               PROVE  seek_invalidate(f, a, t.m.id) = f
    BY <1>2, <1>3, <1>4
  <2>1. seek_invalidate(f, a, t.m.id)
          = set_core_cache_block_state(f, Holders(f, a, t.m.id), a, "INVALID")
    BY InvalidateEnds
  <2> QED
    BY <1>6, <2>1
<1> QED
  BY <1>2, <1>3, <1>4, <1>5, <1>6, <1>7 DEF Invalidates

(***************************************************************************)
(* Every step keeps the invariant.                                         *)
(***************************************************************************)
LEMMA StageIsKept ==
  ASSUME AsIfAtomic, task # Idle, task'.m = task.m, UNCHANGED <<memory, INV, pc, before>>,
         before # NoBefore => Stage(task', caches', before)
  PROVE  AsIfAtomic'
BY DEF AsIfAtomic

LEMMA LoopKeepsStage ==
  ASSUME StepsInv, AsIfAtomic, copy_state \/ copy_data \/ set_state
  PROVE  AsIfAtomic'
<1>1. /\ task # Idle /\ task \in Task /\ task'.m = task.m /\ task'.search = task.search
      /\ task'.counts = task.counts /\ UNCHANGED <<memory, INV, pc, before>>
  BY LoopStep DEF SameHandler
<1> SUFFICES ASSUME before # NoBefore
             PROVE  Stage(task', caches', before)
  BY <1>1, StageIsKept
<1> DEFINE m == task.m
<1>2. before \in Snapshot /\ before.caches \in Caches /\ Stage(task, caches, before)
  BY <1>1 DEF AsIfAtomic, Snapshot
<1>3. m \in Message
  BY <1>1, ServedCore
<1>4. CASE task.search = "seek_owned"
  <2>1. Searches(task, caches, before.caches, Asked(before, m)) /\ PROTOCOL # "MESI"
    BY <1>2, <1>4 DEF Stage, copy_state, copy_data, set_state
  <2>2. Asked(before, m) = SearchResult(before.caches, m.address, m.id, "seek_owned")
    BY <2>1, BusAssumption DEF Asked
  <2>3. Searches(task', caches', before.caches, Asked(before, m))
    BY <1>2, <1>4, <2>1, <2>2, SearchGoesOn
  <2> QED
    BY <1>1, <1>4, <2>1, <2>3 DEF Stage
<1>5. CASE task.search = "seek_shared"
  <2>1. /\ Found(before, m).address # m.address /\ Asked(before, m).data = -1
        /\ Searches(task, caches, Asked(before, m).caches, Shared(before, m))
    BY <1>2, <1>5 DEF Stage
  <2>2. /\ Asked(before, m).caches \in Caches
        /\ Shared(before, m)
             = SearchResult(Asked(before, m).caches, m.address, m.id, "seek_shared")
    BY <1>2, <1>3, AskedTypes DEF Shared
  <2>3. Searches(task', caches', Asked(before, m).caches, Shared(before, m))
    BY <1>5, <2>1, <2>2, SearchGoesOn
  <2> QED
    BY <1>1, <1>5, <2>1, <2>3 DEF Stage
<1>6. CASE task.search = "seek_invalidate"
  <2>1. PICK f \in Caches : Fillings(before, m, f, task.counts) /\ Invalidates(task, caches, f)
    BY <1>2, <1>6 DEF Stage
  <2>2. Invalidates(task', caches', f)
    BY <1>6, <2>1, InvalidateGoesOn
  <2> QED
    BY <1>1, <1>6, <2>1, <2>2 DEF Stage
<1> QED
  BY <1>1, <1>4, <1>5, <1>6 DEF Task, Search

LEMMA ReceiveStarts ==
  ASSUME StepsInv, receive
  PROVE  AsIfAtomic'
<1> DEFINE b == [caches |-> caches, memory |-> memory, INV |-> INV]
<1>1. PICK m : m = Head(queue)
  OBVIOUS
<1>2. m \in Message /\ m.id \in Core /\ m.block_id \in Block
  BY <1>1, ReceiveTakesOne DEF Message
<1>3. task'.m = m
  BY <1>1, <1>2, ReceiveBegins
<1>4. memory' = WriteBackFirst(m) /\ UNCHANGED <<INV, pc>>
  BY <1>1 DEF receive, cpuVars
<1> SUFFICES ASSUME before' # NoBefore
             PROVE  AsIfAtomic'
  BY DEF AsIfAtomic
<1>5. before' = b /\ \A c \in Core : pc[c] \notin {"hit", "stored"}
  BY DEF receive
<1>6. b.caches = caches /\ b.memory = memory /\ b.INV = INV
  OBVIOUS
<1>7. b \in Snapshot /\ caches \in Caches
  BY DEF StepsInv, StepsTypes, StepsTypeOK, Caches, Snapshot
<1>8. memory' = WrittenBack(b, m)
  BY <1>4, <1>6 DEF WriteBackFirst, WrittenBack, Target, Found, perform_wb
<1> DEFINE t == [Idle EXCEPT !.m = m, !.counts = m.access = "WRITEMISS"]
<1>9. t \in Task /\ t.m = m /\ t.counts = (m.access = "WRITEMISS")
  <2> DEFINE w == m.access = "WRITEMISS"
  <2>1. w \in BOOLEAN
    OBVIOUS
  <2>2. Idle \in Task /\ t = [Idle EXCEPT !.m = m, !.counts = w]
    BY BusAssumption DEF Idle, Task, Search
  <2> HIDE DEF t, w
  <2>3. t \in Task /\ t.m = m /\ t.counts = w
    BY <1>2, <2>1, <2>2 DEF Task
  <2> QED
    BY <2>3 DEF w
<1>10. \/ /\ m.access = "WRITEMISS"
          /\ caches' = Fill(caches, m, "MODIFIED", m.value)
          /\ Begin(t, "seek_invalidate", caches)
       \/ /\ m.access # "WRITEMISS" /\ PROTOCOL = "MOESI"
          /\ caches' = caches /\ Begin(t, "seek_owned", caches)
       \/ /\ m.access # "WRITEMISS" /\ PROTOCOL = "MESI"
          /\ caches' = caches
          /\ task' = [t EXCEPT !.at = "return", !.search = "seek_owned", !.data = -1]
  BY <1>1 DEF receive
<1> HIDE DEF b, t
<1>11. {"seek_invalidate", "seek_owned"} \subseteq Search
  BY DEF Search
<1>12. CASE /\ m.access = "WRITEMISS"
            /\ caches' = Fill(caches, m, "MODIFIED", m.value)
            /\ Begin(t, "seek_invalidate", caches)
  <2>1. m.value \in Int /\ "MODIFIED" \in CacheState
    BY <1>2 DEF Message, CacheState
  <2>2. caches' \in Caches /\ \A k \in Core \ {t.m.id} : caches'[k] = caches[k]
    BY <1>2, <1>9, <1>12, <2>1, FillStep
  <2>3. Invalidates(task', caches', caches')
    BY <1>7, <1>9, <1>12, <2>2, InvalidateBegins
  <2>4. task'.search = "seek_invalidate" /\ task'.counts = TRUE
    BY <1>9, <1>11, <1>12, BeginAdvances DEF Advanced
  <2>5. Fillings(b, m, caches', task'.counts)
    BY <1>6, <1>12, <2>4 DEF Fillings
  <2>6. Stage(task', caches', b)
    BY <1>3, <2>2, <2>3, <2>4, <2>5 DEF Stage
  <2> QED
    BY <1>3, <1>4, <1>5, <1>6, <1>7, <1>8, <2>6 DEF AsIfAtomic
<1>13. CASE /\ m.access # "WRITEMISS" /\ PROTOCOL = "MOESI"
            /\ caches' = caches /\ Begin(t, "seek_owned", caches)
  <2>1. Searches(task', caches, caches, SearchResult(caches, m.address, m.id, "seek_owned"))
    BY <1>7, <1>9, <1>11, <1>13, SearchBegins
  <2>2. task'.search = "seek_owned"
    BY <1>9, <1>11, <1>13, BeginAdvances DEF Advanced
  <2>3. Asked(b, m) = SearchResult(caches, m.address, m.id, "seek_owned")
    BY <1>6, <1>13 DEF Asked
  <2>4. Stage(task', caches', b)
    BY <1>3, <1>6, <1>13, <2>1, <2>2, <2>3 DEF Stage
  <2> QED
    BY <1>3, <1>4, <1>5, <1>6, <1>7, <1>8, <2>4 DEF AsIfAtomic
<1>14. CASE /\ m.access # "WRITEMISS" /\ PROTOCOL = "MESI"
            /\ caches' = caches
            /\ task' = [t EXCEPT !.at = "return", !.search = "seek_owned", !.data = -1]
  <2>1. task'.at = "return" /\ task'.search = "seek_owned" /\ task'.data = -1
    BY <1>9, <1>14 DEF Task
  <2>2. Asked(b, m).data = -1 /\ Asked(b, m).caches = caches
    BY <1>6, <1>14 DEF Asked
  <2>3. Stage(task', caches', b)
    BY <1>14, <2>1, <2>2, <1>3 DEF Stage, Searches
  <2> QED
    BY <1>3, <1>4, <1>5, <1>6, <1>7, <1>8, <2>3 DEF AsIfAtomic
<1> QED
  BY <1>10, <1>12, <1>13, <1>14

\* A handler that fills its line and goes on to invalidate.
LEMMA FillKeepsStage ==
  ASSUME StepsInv, AsIfAtomic, task # Idle, UNCHANGED <<memory, INV, pc, before>>,
         NEW d \in Int, NEW counts \in BOOLEAN,
         caches' = Fill(caches, task.m, "MODIFIED", d + 1),
         Begin([task EXCEPT !.counts = counts], "seek_invalidate", caches),
         before # NoBefore => Fillings(before, task.m, caches', counts)
  PROVE  AsIfAtomic'
<1> DEFINE t == [task EXCEPT !.counts = counts]
<1>1. task \in Task /\ task.m \in Message /\ caches \in Caches
  BY ServedCore DEF StepsInv, StepsTypes, StepsTypeOK, Caches
<1>2. t \in Task /\ t.m = task.m /\ t.counts = counts
  BY <1>1 DEF Task
<1>3. Begin(t, "seek_invalidate", caches)
  OBVIOUS
<1> HIDE DEF t
<1>4. d + 1 \in Int /\ "MODIFIED" \in CacheState /\ "seek_invalidate" \in Search
  BY DEF CacheState, Search
<1>5. caches' \in Caches /\ \A k \in Core \ {t.m.id} : caches'[k] = caches[k]
  BY <1>1, <1>2, <1>4, FillStep
<1>6. Invalidates(task', caches', caches')
  BY <1>1, <1>2, <1>3, <1>5, InvalidateBegins
<1>7. task'.m = task.m /\ task'.search = "seek_invalidate" /\ task'.counts = counts
  BY <1>2, <1>3, <1>4, BeginAdvances DEF Advanced
<1>8. before # NoBefore => Stage(task', caches', before)
  BY <1>5, <1>6, <1>7 DEF Stage
<1> QED
  BY <1>7, <1>8, StageIsKept

\* What a handler has in its hands when a search for a copy has returned.
LEMMA Returned ==
  ASSUME StepsInv, AsIfAtomic, task # Idle, before # NoBefore, task.at = "return"
  PROVE  /\ before \in Snapshot /\ task.m \in Message
         /\ memory = WrittenBack(before, task.m) /\ INV = before.INV
         /\ task.search = "seek_owned" =>
              /\ caches = Asked(before, task.m).caches /\ task.data = Asked(before, task.m).data
              /\ Target(task.m) = Found(before, task.m)
         /\ task.search = "seek_shared" =>
              /\ caches = Shared(before, task.m).caches /\ task.data = Shared(before, task.m).data
              /\ Found(before, task.m).address # task.m.address /\ Asked(before, task.m).data = -1
         /\ task.search = "seek_invalidate" =>
              \E f \in Caches : /\ Fillings(before, task.m, f, task.counts)
                                /\ caches = seek_invalidate(f, task.m.address, task.m.id)
<1>1. /\ before \in Snapshot /\ task.m \in Message
      /\ memory = WrittenBack(before, task.m) /\ INV = before.INV
      /\ Stage(task, caches, before)
  BY ServedCore DEF AsIfAtomic
<1>2. Asked(before, task.m).caches[task.m.id] = before.caches[task.m.id]
  BY <1>1, AskedTypes
<1>3. CASE task.search = "seek_owned"
  <2>1. caches = Asked(before, task.m).caches /\ task.data = Asked(before, task.m).data
    BY <1>1, <1>3 DEF Stage, Searches
  <2>2. Target(task.m) = Found(before, task.m)
    BY <1>2, <2>1 DEF Target, Found
  <2> QED
    BY <1>1, <1>3, <2>1, <2>2
<1>4. CASE task.search = "seek_shared"
  <2>1. /\ caches = Shared(before, task.m).caches /\ task.data = Shared(before, task.m).data
        /\ Found(before, task.m).address # task.m.address /\ Asked(before, task.m).data = -1
    BY <1>1, <1>4 DEF Stage, Searches
  <2> QED
    BY <1>1, <1>4, <2>1
<1>5. CASE task.search = "seek_invalidate"
  <2>1. \E f \in Caches : /\ Fillings(before, task.m, f, task.counts)
                          /\ caches = seek_invalidate(f, task.m.address, task.m.id)
    BY <1>1, <1>5 DEF Stage, Invalidates
  <2> QED
    BY <1>1, <1>5, <2>1
<1> QED
  BY <1>1, <1>3, <1>4, <1>5 DEF StepsInv, StepsTypes, Task, Search

LEMMA AfterSeekOwnedKeepsStage ==
  ASSUME StepsInv, AsIfAtomic, after_seek_owned
  PROVE  AsIfAtomic'
<1>1. /\ task # Idle /\ task \in Task /\ task.at = "return" /\ task.search = "seek_owned"
      /\ UNCHANGED <<memory, pc>>
  BY AtIsNotIdle DEF after_seek_owned, cpuVars, StepsInv, StepsTypes
<1> DEFINE m == task.m
<1>2. before # NoBefore =>
        /\ before \in Snapshot /\ m \in Message
        /\ caches = Asked(before, m).caches /\ task.data = Asked(before, m).data
        /\ Target(m) = Found(before, m)
  BY <1>1, Returned
<1>3. CASE task' = Idle
  BY <1>3 DEF AsIfAtomic
<1>4. CASE /\ Target(m).address # m.address /\ task.data # -1 /\ m.access = "INCREMENT"
           /\ caches' = Fill(caches, m, "MODIFIED", task.data + 1)
           /\ Begin([task EXCEPT !.counts = FALSE], "seek_invalidate", caches)
           /\ UNCHANGED <<INV, before>>
  <2>1. before # NoBefore => Fillings(before, m, caches', FALSE)
    BY <1>2, <1>4 DEF Fillings
  <2>2. task.data \in Int
    BY <1>1 DEF Task
  <2> QED
    BY <1>1, <1>4, <2>1, <2>2, FillKeepsStage
<1>5. CASE /\ Target(m).address # m.address /\ task.data = -1
           /\ Begin(task, "seek_shared", caches) /\ UNCHANGED <<caches, INV, before>>
  <2>1. "seek_shared" \in Search
    BY DEF Search
  <2>2. task'.m = m /\ task'.search = "seek_shared"
    BY <1>1, <1>5, <2>1, BeginAdvances DEF Advanced
  <2>3. before # NoBefore => Stage(task', caches', before)
    <3> SUFFICES ASSUME before # NoBefore
                 PROVE  Stage(task', caches', before)
      OBVIOUS
    <3>1. caches \in Caches
      BY <1>2, AskedTypes
    <3>2. Searches(task', caches, caches, SearchResult(caches, m.address, m.id, "seek_shared"))
      BY <1>1, <1>5, <2>1, <3>1, SearchBegins
    <3>3. Shared(before, m) = SearchResult(caches, m.address, m.id, "seek_shared")
      BY <1>2 DEF Shared
    <3> QED
      BY <1>2, <1>5, <2>2, <3>2, <3>3 DEF Stage
  <2> QED
    BY <1>1, <1>5, <2>2, <2>3, StageIsKept
<1> QED
  BY <1>3, <1>4, <1>5 DEF after_seek_owned, FillAndGoOn, Done

LEMMA AfterSeekSharedKeepsStage ==
  ASSUME StepsInv, AsIfAtomic, after_seek_shared
  PROVE  AsIfAtomic'
<1>1. /\ task # Idle /\ task \in Task /\ task.at = "return" /\ task.search = "seek_shared"
      /\ UNCHANGED <<memory, pc>>
  BY AtIsNotIdle DEF after_seek_shared, cpuVars, StepsInv, StepsTypes
<1> DEFINE m == task.m
           d == get_data_from_memory(memory, m.address)
<1>2. before # NoBefore =>
        /\ memory = WrittenBack(before, m)
        /\ caches = Shared(before, m).caches /\ task.data = Shared(before, m).data
        /\ Found(before, m).address # m.address /\ Asked(before, m).data = -1
  BY <1>1, Returned
<1>3. task.data \in Int /\ d \in Int
  BY <1>1, ServedCore, MemoryTypes DEF Task, StepsInv, StepsTypes, StepsTypeOK
<1>4. CASE task' = Idle
  BY <1>4 DEF AsIfAtomic
<1>5. CASE /\ task.data # -1 /\ m.access = "INCREMENT"
           /\ caches' = Fill(caches, m, "MODIFIED", task.data + 1)
           /\ Begin([task EXCEPT !.counts = FALSE], "seek_invalidate", caches)
           /\ UNCHANGED <<INV, before>>
  <2>1. before # NoBefore => Fillings(before, m, caches', FALSE)
    BY <1>2, <1>5 DEF Fillings
  <2> QED
    BY <1>1, <1>3, <1>5, <2>1, FillKeepsStage
<1>6. CASE /\ task.data = -1 /\ m.access = "INCREMENT"
           /\ caches' = Fill(caches, m, "MODIFIED", d + 1)
           /\ Begin([task EXCEPT !.counts = TRUE], "seek_invalidate", caches)
           /\ UNCHANGED <<INV, before>>
  <2>1. before # NoBefore => Fillings(before, m, caches', TRUE)
    BY <1>2, <1>6 DEF Fillings
  <2> HIDE DEF d
  <2> QED
    BY <1>1, <1>3, <1>6, <2>1, FillKeepsStage
<1> QED
  BY <1>4, <1>5, <1>6 DEF after_seek_shared, FillAndGoOn, Done

LEMMA CoreKeepsStage ==
  ASSUME StepsInv, AsIfAtomic, NEW c \in Core, core_thread(c)
  PROVE  AsIfAtomic'
<1>1. StepsTypes
  BY DEF StepsInv
<1> SUFFICES ASSUME task' # Idle, before' # NoBefore
             PROVE  AsIfAtomic'
  BY DEF AsIfAtomic
<1>2. CASE \/ cpu_step(c) \/ send_step(c) \/ wake_step(c)
  <2>1. UNCHANGED <<caches, memory, INV, task>> /\ before' = before
    <3>1. CASE cpu_step(c)
      BY <1>1, <3>1, CpuStepIsLocal DEF LocalStep
    <3>2. CASE send_step(c)
      BY <3>2 DEF send_step, send_message, busVars
    <3>3. CASE wake_step(c)
      BY <1>1, <3>3, WakeStepIsLocal DEF LocalStep
    <3> QED
      BY <1>2, <3>1, <3>2, <3>3
  <2>2. pc'[c] \notin {"hit", "stored"} /\ \A k \in Core \ {c} : pc'[k] = pc[k]
    <3>1. CASE cpu_step(c)
      BY <1>1, <3>1, CpuStepIsLocal DEF LocalStep
    <3>2. CASE send_step(c)
      BY <3>2, SendStepKeeps
    <3>3. CASE wake_step(c)
      BY <1>1, <3>3, WakeStepIsLocal DEF LocalStep
    <3> QED
      BY <1>2, <3>1, <3>2, <3>3
  <2> QED
    BY <2>1, <2>2 DEF AsIfAtomic
<1>3. CASE store_state(c) \/ store_data(c)
  <2>1. task' = task /\ before' = before
    BY <1>3 DEF store_state, store_data
  <2>2. pc[c] \in {"hit", "stored"}
    BY <1>3 DEF store_state, store_data
  <2> QED
    BY <2>1, <2>2 DEF AsIfAtomic
<1> QED
  BY <1>2, <1>3 DEF core_thread

LEMMA AsIfAtomicOnStep == StepsInv /\ AsIfAtomic /\ [StepsNext]_stepVars => AsIfAtomic'
<1> SUFFICES ASSUME StepsInv, AsIfAtomic, [StepsNext]_stepVars
             PROVE  AsIfAtomic'
  OBVIOUS
<1>1. CASE bus_thread
  <2>1. CASE after_seek_invalidate
    BY <2>1 DEF after_seek_invalidate, Done, AsIfAtomic
  <2> QED
    BY <1>1, <2>1, ReceiveStarts, LoopKeepsStage, AfterSeekOwnedKeepsStage,
       AfterSeekSharedKeepsStage DEF bus_thread
<1>2. CASE \E c \in Core : core_thread(c)
  BY <1>2, CoreKeepsStage
<1>3. CASE join_step \/ UNCHANGED stepVars
  BY <1>3 DEF join_step, join_cpu, busVars, cpuVars, stepVars, vars, AsIfAtomic
<1> QED
  BY <1>1, <1>2, <1>3 DEF StepsNext

LEMMA AsIfAtomicHolds == StepsSpec => []AsIfAtomic
<1>1. StepsInit => AsIfAtomic
  BY DEF StepsInit, AsIfAtomic
<1> QED
  BY <1>1, StepsInvHolds, AsIfAtomicOnStep, PTL DEF StepsSpec

(***************************************************************************)
(* The handlers of module Bus, from the caches b that the handler found.   *)
(***************************************************************************)
LEMMA SameSearches ==
  ASSUME NEW cs, NEW a, NEW c
  PROVE  /\ Atomic!seek_owned(cs, a, c) = seek_owned(cs, a, c)
         /\ Atomic!seek_shared(cs, a, c) = seek_shared(cs, a, c)
         /\ Atomic!seek_invalidate(cs, a, c) = seek_invalidate(cs, a, c)
<1>1. \A cache : Atomic!getCacheBlock_by_address(cache, a) = getCacheBlock_by_address(cache, a)
  BY DEF Atomic!getCacheBlock_by_address, getCacheBlock_by_address, Atomic!Block, Block,
         Atomic!NotFound, NotFound, Atomic!Min, Min
<1>2. Atomic!Core = Core
  BY DEF Atomic!Core, Core
<1>3. Atomic!Holders(cs, a, c) = Holders(cs, a, c)
  BY <1>1, <1>2 DEF Atomic!Holders, Holders, Atomic!NotFound, NotFound
<1>4. \A k : Atomic!LineFor(cs, k, a) = LineFor(cs, k, a)
  BY <1>1 DEF Atomic!LineFor, LineFor
<1>5. \A cores, s : Atomic!set_core_cache_block_state(cs, cores, a, s)
                      = set_core_cache_block_state(cs, cores, a, s)
  BY <1>1, <1>2, Zenon DEF Atomic!set_core_cache_block_state, set_core_cache_block_state
<1>6. ASSUME NEW found, NEW s
      PROVE  Atomic!Seek(cs, a, found, s) = Seek(cs, a, found, s)
  <2>1. Atomic!Min(found) = Min(found)
    BY DEF Atomic!Min, Min
  <2> QED
    BY <1>4, <1>5, <2>1 DEF Atomic!Seek, Seek
<1>7. \A S : Atomic!Lowest(S) = Lowest(S)
  BY DEF Atomic!Lowest, Lowest
<1>8. \A k : /\ Atomic!Dirty(Atomic!LineFor(cs, k, a)) <=> Dirty(LineFor(cs, k, a))
             /\ Atomic!Clean(Atomic!LineFor(cs, k, a)) <=> Clean(LineFor(cs, k, a))
             /\ Atomic!Valid(Atomic!LineFor(cs, k, a)) <=> Valid(LineFor(cs, k, a))
  BY <1>4 DEF Atomic!Dirty, Dirty, Atomic!Clean, Clean, Atomic!Valid, Valid
<1>9. /\ {k \in Atomic!Holders(cs, a, c) : Atomic!Dirty(Atomic!LineFor(cs, k, a))}
           = {k \in Holders(cs, a, c) : Dirty(LineFor(cs, k, a))}
      /\ {k \in Atomic!Holders(cs, a, c) : Atomic!Clean(Atomic!LineFor(cs, k, a))}
           = {k \in Holders(cs, a, c) : Clean(LineFor(cs, k, a))}
      /\ {k \in Atomic!Holders(cs, a, c) :
            \A j \in Atomic!Holders(cs, a, c) : j <= k => Atomic!Valid(Atomic!LineFor(cs, j, a))}
           = {k \in Holders(cs, a, c) :
                \A j \in Holders(cs, a, c) : j <= k => Valid(LineFor(cs, j, a))}
  BY <1>3, <1>8
<1> QED
  BY <1>5, <1>6, <1>7, <1>9
     DEF Atomic!seek_owned, seek_owned, Atomic!seek_shared, seek_shared,
         Atomic!seek_invalidate, seek_invalidate

LEMMA SameTerms ==
  ASSUME task # Idle, before # NoBefore, NEW m
  PROVE  /\ Kept = before
         /\ Atomic!Target(m) = Found(before, m)
         /\ Atomic!Valid(Found(before, m)) <=> Valid(Found(before, m))
         /\ Atomic!WriteBackFirst(m) = WrittenBack(before, m)
         /\ Atomic!AskOwner(m) = Asked(before, m)
         /\ Atomic!seek_shared(Asked(before, m).caches, m.address, m.id) = Shared(before, m)
<1>1. Kept = before
  BY DEF Kept
<1>2. Atomic!Target(m) = Found(before, m)
  BY <1>1 DEF Atomic!Target, Found
<1>3. Atomic!Valid(Found(before, m)) <=> Valid(Found(before, m))
  BY DEF Atomic!Valid, Valid
<1>4. Atomic!WriteBackFirst(m) = WrittenBack(before, m)
  BY <1>1, <1>2 DEF Atomic!WriteBackFirst, WrittenBack, Atomic!perform_wb, Atomic!Dirty, Dirty,
                    Atomic!set_data_in_memory, set_data_in_memory
<1>5. Atomic!AskOwner(m) = Asked(before, m)
  BY <1>1, SameSearches, SearchResults DEF Atomic!AskOwner, Asked
<1>6. Atomic!seek_shared(Asked(before, m).caches, m.address, m.id) = Shared(before, m)
  BY SameSearches, SearchResults DEF Shared
<1> QED
  BY <1>1, <1>2, <1>3, <1>4, <1>5, <1>6

\* The memory and the counters that a handler leaves, with an invalidation
\* counted for the core or not.
Leaves(b, m, counts) ==
  /\ memory' = WrittenBack(b, m)
  /\ INV' = IF counts THEN [b.INV EXCEPT ![m.id] = @ + 1] ELSE b.INV

InMemory(b, m) == get_data_from_memory(WrittenBack(b, m), m.address)

LEMMA HandlersFromTheStart ==
  ASSUME task # Idle, before # NoBefore, task' = Idle, NEW m, NEW b, b = before
  PROVE  /\ Atomic!process_writemiss(m) <=>
              /\ Leaves(b, m, TRUE)
              /\ caches' = seek_invalidate(Fill(b.caches, m, "MODIFIED", m.value), m.address, m.id)
         /\ Atomic!process_readmiss(m) <=>
              /\ Leaves(b, m, FALSE)
              /\ LET here == Found(b, m).address = m.address
                 IN  \/ /\ here /\ ~Valid(Found(b, m))
                        /\ caches' = Fill(Asked(b, m).caches, m, "EXCLUSIVE", InMemory(b, m))
                     \/ /\ here /\ Valid(Found(b, m)) /\ caches' = Asked(b, m).caches
                     \/ /\ ~here /\ Asked(b, m).data # -1
                        /\ caches' = Fill(Asked(b, m).caches, m, "SHARED", Asked(b, m).data)
                     \/ /\ ~here /\ Asked(b, m).data = -1 /\ Shared(b, m).data # -1
                        /\ caches' = Fill(Shared(b, m).caches, m, "SHARED", Shared(b, m).data)
                     \/ /\ ~here /\ Asked(b, m).data = -1 /\ Shared(b, m).data = -1
                        /\ caches' = Fill(Shared(b, m).caches, m, "EXCLUSIVE", InMemory(b, m))
         /\ Atomic!process_increment(m) <=>
              LET here == Found(b, m).address = m.address
                  Modify(cs, d) == seek_invalidate(Fill(cs, m, "MODIFIED", d + 1), m.address, m.id)
              IN  \/ /\ here /\ ~Valid(Found(b, m)) /\ Leaves(b, m, FALSE)
                     /\ caches' = Fill(Asked(b, m).caches, m, "EXCLUSIVE", InMemory(b, m) + 1)
                  \/ /\ here /\ Valid(Found(b, m)) /\ Leaves(b, m, FALSE)
                     /\ caches' = Asked(b, m).caches
                  \/ /\ ~here /\ Asked(b, m).data # -1 /\ Leaves(b, m, FALSE)
                     /\ caches' = Modify(Asked(b, m).caches, Asked(b, m).data)
                  \/ /\ ~here /\ Asked(b, m).data = -1 /\ Shared(b, m).data # -1
                     /\ Leaves(b, m, FALSE)
                     /\ caches' = Modify(Shared(b, m).caches, Shared(b, m).data)
                  \/ /\ ~here /\ Asked(b, m).data = -1 /\ Shared(b, m).data = -1
                     /\ Leaves(b, m, TRUE)
                     /\ caches' = Modify(Shared(b, m).caches, InMemory(b, m))
<1>1. Kept = b /\ Kept' = [caches |-> caches', memory |-> memory', INV |-> INV']
  BY DEF Kept
<1>2. /\ Kept.caches = b.caches /\ Kept.INV = b.INV
      /\ (Kept.caches)' = caches' /\ (Kept.memory)' = memory' /\ (Kept.INV)' = INV'
  BY <1>1
<1>3. /\ Atomic!Target(m) = Found(b, m) /\ (Atomic!Valid(Found(b, m)) <=> Valid(Found(b, m)))
      /\ Atomic!WriteBackFirst(m) = WrittenBack(b, m) /\ Atomic!AskOwner(m) = Asked(b, m)
      /\ Atomic!seek_shared(Asked(b, m).caches, m.address, m.id) = Shared(b, m)
      /\ \A cs : Atomic!seek_invalidate(cs, m.address, m.id) = seek_invalidate(cs, m.address, m.id)
  BY SameTerms, SameSearches
<1>4. /\ \A cs, s, d : Atomic!Fill(cs, m, s, d) = Fill(cs, m, s, d)
      /\ Atomic!get_data_from_memory(WrittenBack(b, m), m.address) = InMemory(b, m)
  BY DEF Atomic!Fill, Fill, Atomic!get_data_from_memory, get_data_from_memory, InMemory
<1>5. Atomic!process_writemiss(m) <=>
        /\ Leaves(b, m, TRUE)
        /\ caches' = seek_invalidate(Fill(b.caches, m, "MODIFIED", m.value), m.address, m.id)
  BY <1>2, <1>3, <1>4 DEF Atomic!process_writemiss, Leaves
<1> QED
  BY <1>2, <1>3, <1>4, <1>5 DEF Atomic!process_readmiss, Atomic!process_increment, Leaves

(***************************************************************************)
(* The step in which a handler returns.                                    *)
(***************************************************************************)
HandlerInOneStep ==
  LET m == task.m
  IN  \/ m.access = "WRITEMISS" /\ Atomic!process_writemiss(m)
      \/ m.access = "READMISS"  /\ Atomic!process_readmiss(m)
      \/ m.access = "INCREMENT" /\ Atomic!process_increment(m)

\* A handler that begins a search does not return in that step.
LEMMA BeginDoesNotReturn ==
  ASSUME task \in Task, task' = Idle
  PROVE  /\ \A s \in Search : ~Begin(task, s, caches)
         /\ \A counts \in BOOLEAN : ~Begin([task EXCEPT !.counts = counts], "seek_invalidate", caches)
<1>1. ASSUME NEW t \in Task, NEW s \in Search, Begin(t, s, caches)
      PROVE  FALSE
  BY <1>1, BeginAdvances DEF Advanced, Idle
<1>2. \A counts \in BOOLEAN : [task EXCEPT !.counts = counts] \in Task
  BY DEF Task
<1>3. "seek_invalidate" \in Search
  BY DEF Search
<1> QED
  BY <1>1, <1>2, <1>3

LEMMA ReturnAfterSeekOwned ==
  ASSUME StepsInv, AsIfAtomic, before # NoBefore, task' = Idle, after_seek_owned
  PROVE  HandlerInOneStep
<1> DEFINE m == task.m
<1>1. PICK b : b = before
  OBVIOUS
<1>2. /\ task # Idle /\ task \in Task /\ task.at = "return" /\ task.search = "seek_owned"
      /\ memory' = memory
  BY AtIsNotIdle DEF after_seek_owned, StepsInv, StepsTypes
<1>3. /\ b \in Snapshot /\ m \in Message /\ memory = WrittenBack(b, m) /\ INV = b.INV
      /\ caches = Asked(b, m).caches /\ task.data = Asked(b, m).data /\ Target(m) = Found(b, m)
  BY <1>1, <1>2, Returned
<1>4. m.access \in {"READMISS", "INCREMENT"}
  BY <1>2, <1>3 DEF StepsInv, FilledFirst, Message, AccessType
<1>5. InMemory(b, m) = get_data_from_memory(memory, m.address) /\ InMemory(b, m) \in Int
  <2>1. memory \in [MemAddress -> Int] /\ m.address \in Address
    BY <1>3 DEF StepsInv, StepsTypes, StepsTypeOK, Message
  <2> QED
    BY <1>3, <2>1, MemoryTypes DEF InMemory
<1> DEFINE here == Found(b, m).address = m.address
<1>6. \/ /\ here /\ ~Valid(Found(b, m)) /\ Done(FALSE)
         /\ caches' = Fill(Asked(b, m).caches, m, "EXCLUSIVE",
                           InMemory(b, m) + (IF m.access = "INCREMENT" THEN 1 ELSE 0))
      \/ here /\ Valid(Found(b, m)) /\ caches' = Asked(b, m).caches /\ Done(FALSE)
      \/ /\ ~here /\ Asked(b, m).data # -1 /\ FillAndGoOn("SHARED", Asked(b, m).data, FALSE)
      \/ Begin(task, "seek_shared", caches)
  BY <1>3, <1>5 DEF after_seek_owned
<1>7. Done(FALSE) => Leaves(b, m, FALSE)
  BY <1>2, <1>3 DEF Done, Leaves
<1>8. CASE /\ here /\ ~Valid(Found(b, m)) /\ Done(FALSE)
           /\ caches' = Fill(Asked(b, m).caches, m, "EXCLUSIVE",
                             InMemory(b, m) + (IF m.access = "INCREMENT" THEN 1 ELSE 0))
  <2>1. CASE m.access = "INCREMENT"
    <3>1. caches' = Fill(Asked(b, m).caches, m, "EXCLUSIVE", InMemory(b, m) + 1)
      BY <1>8, <2>1
    <3>2. Atomic!process_increment(m)
      BY <1>1, <1>2, <1>7, <1>8, <3>1, HandlersFromTheStart
    <3> QED
      BY <2>1, <3>2 DEF HandlerInOneStep
  <2>2. CASE m.access = "READMISS"
    <3>1. caches' = Fill(Asked(b, m).caches, m, "EXCLUSIVE", InMemory(b, m))
      <4>1. InMemory(b, m) + (IF m.access = "INCREMENT" THEN 1 ELSE 0) = InMemory(b, m)
        BY <1>5, <2>2
      <4> QED
        BY <1>8, <4>1
    <3>2. Atomic!process_readmiss(m)
      BY <1>1, <1>2, <1>7, <1>8, <3>1, HandlersFromTheStart
    <3> QED
      BY <2>2, <3>2 DEF HandlerInOneStep
  <2> QED
    BY <1>4, <2>1, <2>2
<1>9. CASE here /\ Valid(Found(b, m)) /\ caches' = Asked(b, m).caches /\ Done(FALSE)
  <2>1. Atomic!process_readmiss(m) /\ Atomic!process_increment(m)
    BY <1>1, <1>2, <1>7, <1>9, HandlersFromTheStart
  <2> QED
    BY <1>4, <2>1 DEF HandlerInOneStep
<1>10. CASE ~here /\ Asked(b, m).data # -1 /\ FillAndGoOn("SHARED", Asked(b, m).data, FALSE)
  <2>1. CASE /\ m.access = "READMISS" /\ Done(FALSE)
             /\ caches' = Fill(caches, m, "SHARED", Asked(b, m).data)
    <3>1. Atomic!process_readmiss(m)
      BY <1>1, <1>2, <1>3, <1>7, <1>10, <2>1, HandlersFromTheStart
    <3> QED
      BY <2>1, <3>1 DEF HandlerInOneStep
  <2>2. ~Begin([task EXCEPT !.counts = FALSE], "seek_invalidate", caches)
    BY <1>2, BeginDoesNotReturn
  <2> QED
    BY <1>10, <2>1, <2>2 DEF FillAndGoOn
<1>11. ~Begin(task, "seek_shared", caches)
  BY <1>2, BeginDoesNotReturn DEF Search
<1> QED
  BY <1>6, <1>8, <1>9, <1>10, <1>11

LEMMA ReturnAfterSeekShared ==
  ASSUME StepsInv, AsIfAtomic, before # NoBefore, task' = Idle, after_seek_shared
  PROVE  HandlerInOneStep
<1> DEFINE m == task.m
<1>1. PICK b : b = before
  OBVIOUS
<1>2. /\ task # Idle /\ task \in Task /\ task.at = "return" /\ task.search = "seek_shared"
      /\ memory' = memory
  BY AtIsNotIdle DEF after_seek_shared, StepsInv, StepsTypes
<1>3. /\ memory = WrittenBack(b, m) /\ INV = b.INV
      /\ caches = Shared(b, m).caches /\ task.data = Shared(b, m).data
      /\ Found(b, m).address # m.address /\ Asked(b, m).data = -1
  BY <1>1, <1>2, Returned
<1>4. InMemory(b, m) = get_data_from_memory(memory, m.address)
  BY <1>3 DEF InMemory
<1>5. \A counts \in BOOLEAN :
        ~Begin([task EXCEPT !.counts = counts], "seek_invalidate", caches)
  BY <1>2, BeginDoesNotReturn
<1>6. /\ m.access = "READMISS" /\ Done(FALSE)
      /\ \/ /\ Shared(b, m).data # -1
            /\ caches' = Fill(Shared(b, m).caches, m, "SHARED", Shared(b, m).data)
         \/ /\ Shared(b, m).data = -1
            /\ caches' = Fill(Shared(b, m).caches, m, "EXCLUSIVE", InMemory(b, m))
  BY <1>3, <1>4, <1>5 DEF after_seek_shared, FillAndGoOn
<1>7. Leaves(b, m, FALSE)
  BY <1>2, <1>3, <1>6 DEF Done, Leaves
<1>8. Atomic!process_readmiss(m)
  BY <1>1, <1>2, <1>3, <1>6, <1>7, HandlersFromTheStart
<1> QED
  BY <1>6, <1>8 DEF HandlerInOneStep

LEMMA ReturnAfterSeekInvalidate ==
  ASSUME StepsInv, AsIfAtomic, before # NoBefore, after_seek_invalidate
  PROVE  HandlerInOneStep
<1> DEFINE m == task.m
<1>1. PICK b : b = before
  OBVIOUS
<1>2. /\ task # Idle /\ task.at = "return" /\ task.search = "seek_invalidate"
      /\ UNCHANGED <<caches, memory>> /\ Done(task.counts) /\ task' = Idle
  BY AtIsNotIdle DEF after_seek_invalidate, Done
<1>3. /\ memory = WrittenBack(b, m) /\ INV = b.INV
      /\ \E f \in Caches : /\ Fillings(b, m, f, task.counts)
                           /\ caches = seek_invalidate(f, m.address, m.id)
  BY <1>1, <1>2, Returned
<1>4. PICK f \in Caches : /\ Fillings(b, m, f, task.counts)
                          /\ caches = seek_invalidate(f, m.address, m.id)
  BY <1>3
<1>5. /\ task.counts => Leaves(b, m, TRUE)
      /\ ~task.counts => Leaves(b, m, FALSE)
  BY <1>2, <1>3 DEF Done, Leaves
<1>6. caches' = seek_invalidate(f, m.address, m.id)
  BY <1>2, <1>4
<1>7. CASE m.access = "WRITEMISS"
  <2>1. task.counts /\ f = Fill(b.caches, m, "MODIFIED", m.value)
    BY <1>4, <1>7 DEF Fillings
  <2>2. Atomic!process_writemiss(m)
    BY <1>1, <1>2, <1>5, <1>6, <2>1, HandlersFromTheStart
  <2> QED
    BY <1>7, <2>2 DEF HandlerInOneStep
<1>8. CASE m.access = "INCREMENT"
  <2>1. /\ Found(b, m).address # m.address
        /\ \/ /\ Asked(b, m).data # -1 /\ ~task.counts
              /\ f = Fill(Asked(b, m).caches, m, "MODIFIED", Asked(b, m).data + 1)
           \/ /\ Asked(b, m).data = -1 /\ Shared(b, m).data # -1 /\ ~task.counts
              /\ f = Fill(Shared(b, m).caches, m, "MODIFIED", Shared(b, m).data + 1)
           \/ /\ Asked(b, m).data = -1 /\ Shared(b, m).data = -1 /\ task.counts
              /\ f = Fill(Shared(b, m).caches, m, "MODIFIED", InMemory(b, m) + 1)
    BY <1>4, <1>8 DEF Fillings, InMemory
  <2>2. CASE /\ Asked(b, m).data # -1 /\ ~task.counts
             /\ f = Fill(Asked(b, m).caches, m, "MODIFIED", Asked(b, m).data + 1)
    BY <1>1, <1>2, <1>5, <1>6, <1>8, <2>1, <2>2, HandlersFromTheStart DEF HandlerInOneStep
  <2>3. CASE /\ Asked(b, m).data = -1 /\ Shared(b, m).data # -1 /\ ~task.counts
             /\ f = Fill(Shared(b, m).caches, m, "MODIFIED", Shared(b, m).data + 1)
    BY <1>1, <1>2, <1>5, <1>6, <1>8, <2>1, <2>3, HandlersFromTheStart DEF HandlerInOneStep
  <2>4. CASE /\ Asked(b, m).data = -1 /\ Shared(b, m).data = -1 /\ task.counts
             /\ f = Fill(Shared(b, m).caches, m, "MODIFIED", InMemory(b, m) + 1)
    BY <1>1, <1>2, <1>5, <1>6, <1>8, <2>1, <2>4, HandlersFromTheStart DEF HandlerInOneStep
  <2> QED
    BY <2>1, <2>2, <2>3, <2>4
<1>9. m.access = "WRITEMISS" \/ m.access = "INCREMENT"
  BY <1>4 DEF Fillings
<1> QED
  BY <1>7, <1>8, <1>9

\* A handler that no store overlaps has the effect of the handler taken as one
\* step, however its searches interleave with the cores.
THEOREM HandlersAreAtomicHolds == StepsSpec => HandlersAreAtomic
<1> DEFINE P == task # Idle /\ task' = Idle /\ before # NoBefore => HandlerInOneStep
<1>1. StepsInv /\ AsIfAtomic /\ [StepsNext]_stepVars => P
  <2> SUFFICES ASSUME StepsInv, AsIfAtomic, [StepsNext]_stepVars,
                      task # Idle, task' = Idle, before # NoBefore
               PROVE  HandlerInOneStep
    OBVIOUS
  <2>1. ~(copy_state \/ copy_data \/ set_state)
    <3> SUFFICES ASSUME copy_state \/ copy_data \/ set_state
                 PROVE  FALSE
      OBVIOUS
    <3>1. task'.at # "receive"
      BY LoopStep DEF SameHandler
    <3> QED
      BY <3>1 DEF Idle
  <2>2. CASE bus_thread
    BY <2>1, <2>2, ReturnAfterSeekOwned, ReturnAfterSeekShared, ReturnAfterSeekInvalidate
       DEF bus_thread, receive
  <2>3. ~(\E c \in Core : core_thread(c))
    BY DEF core_thread, cpu_step, store_state, store_data, send_step, wake_step
  <2>4. ~(join_step \/ UNCHANGED stepVars)
    BY DEF join_step, stepVars
  <2> QED
    BY <2>2, <2>3, <2>4 DEF StepsNext
<1> HIDE DEF P
<1>2. StepsInv /\ AsIfAtomic /\ [StepsNext]_stepVars => [P]_stepVars
  BY <1>1
<1>3. StepsSpec => [][P]_stepVars
  BY <1>2, StepsInvHolds, AsIfAtomicHolds, PTL DEF StepsSpec
<1> QED
  BY <1>3 DEF P, HandlerInOneStep, HandlersAreAtomic
=============================================================================
