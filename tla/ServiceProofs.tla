--------------------------- MODULE ServiceProofs ---------------------------
(***************************************************************************)
(* Proofs about the step in which the bus serves a request: the line that  *)
(* a READ brings in fits the copies of the other cores, and a store takes  *)
(* theirs.                                                                 *)
(***************************************************************************)
EXTENDS MoesiProofs

(***************************************************************************)
(* What a search answers.                                                  *)
(***************************************************************************)
\* A lookup looks at addresses only, and the handlers change those of one line.
LEMMA SameLookup ==
  ASSUME NEW cs, NEW r, NEW k, NEW a,
         \A i \in Block : r[k][i].address = cs[k][i].address
  PROVE  getCacheBlock_by_address(r[k], a) = getCacheBlock_by_address(cs[k], a)
<1>1. {i \in Block : r[k][i].address = a} = {i \in Block : cs[k][i].address = a}
  OBVIOUS
<1> QED
  BY <1>1 DEF getCacheBlock_by_address

\* The search that looked for the cores found has answered r: nothing and -1 if
\* there are none, else the data of one of them, whose line is left in state s.
Answers(cs, r, found, a, s) ==
  /\ found = {} => r.data = -1 /\ r.caches = cs
  /\ found # {} => \E k \in found :
                     /\ r.data = LineFor(cs, k, a).data
                     /\ getCacheBlock_by_address(r.caches[k], a) # NotFound
                     /\ LineFor(r.caches, k, a).data = r.data
                     /\ LineFor(r.caches, k, a).state = s

LEMMA SeekAnswers ==
  ASSUME NEW cs \in Caches, NEW a, NEW s \in CacheState, NEW found \in SUBSET Core,
         \A k \in found : getCacheBlock_by_address(cs[k], a) # NotFound
  PROVE  Answers(cs, Seek(cs, a, Lowest(found), s), found, a, s)
<1> DEFINE lowest == Lowest(found)
           r      == set_core_cache_block_state(cs, lowest, a, s)
<1>1. Core \subseteq Nat
  BY BusAssumption DEF Core
<1>2. ASSUME found = {}
      PROVE  Seek(cs, a, lowest, s).data = -1 /\ Seek(cs, a, lowest, s).caches = cs
  <2>1. lowest = {}
    BY <1>2 DEF Lowest
  <2>2. r = [k \in Core |-> cs[k]]
    BY <2>1 DEF set_core_cache_block_state
  <2>3. cs = [k \in Core |-> cs[k]]
    BY DEF Caches
  <2> QED
    BY <2>1, <2>2, <2>3 DEF Seek
<1>3. ASSUME found # {}
      PROVE  \E k \in found :
               /\ Seek(cs, a, lowest, s).data = LineFor(cs, k, a).data
               /\ getCacheBlock_by_address(r[k], a) # NotFound
               /\ LineFor(r, k, a).data = LineFor(cs, k, a).data
               /\ LineFor(r, k, a).state = s
  <2>1. Min(found) \in found /\ \A y \in found : Min(found) <= y
    BY <1>1, <1>3, MinIsMember
  <2>2. lowest # {}
    BY <2>1 DEF Lowest
  <2>3. lowest \in SUBSET Nat
    BY <1>1 DEF Lowest
  <2>4. PICK k \in lowest : k = Min(lowest)
    BY <2>2, <2>3, MinIsMember
  <2>5. k \in found /\ k \in Core
    BY DEF Lowest
  <2> DEFINE i == getCacheBlock_by_address(cs[k], a)
  <2>6. i \in Block /\ cs[k][i].address = a
    BY <2>5, LookupFindsTheAddress
  <2>7. r[k] = [cs[k] EXCEPT ![i].state = s]
    BY <2>5 DEF set_core_cache_block_state
  <2>8. cs[k] \in [Block -> CacheBlock]
    BY <2>5 DEF Caches
  <2> HIDE DEF i
  <2>9. \A j \in Block : r[k][j].address = cs[k][j].address
    BY <2>6, <2>7, <2>8 DEF CacheBlock
  <2>10. r[k][i].state = s /\ r[k][i].data = cs[k][i].data
    BY <2>6, <2>7, <2>8 DEF CacheBlock
  <2>11. getCacheBlock_by_address(r[k], a) = i
    BY <2>9, SameLookup DEF i
  <2>12. i # NotFound
    BY <2>5 DEF i
  <2>13. LineFor(r, k, a) = r[k][i] /\ LineFor(cs, k, a) = cs[k][i]
    BY <2>11 DEF LineFor, i
  <2>14. Seek(cs, a, lowest, s).data = LineFor(cs, k, a).data
    BY <2>2, <2>4 DEF Seek
  <2> QED
    BY <2>5, <2>10, <2>11, <2>12, <2>13, <2>14
<1> HIDE DEF lowest
<1>4. Seek(cs, a, lowest, s).caches = r
  BY DEF Seek
<1>5. CASE found = {}
  BY <1>2, <1>5 DEF Answers, lowest
<1>6. CASE found # {}
  <2> HIDE DEF r
  <2> QED
    BY <1>3, <1>4, <1>6 DEF Answers, lowest
<1> QED
  BY <1>5, <1>6

\* The cores the two searches of a read look for.
DirtyHolders(cs, a, c) == {k \in Holders(cs, a, c) : Dirty(LineFor(cs, k, a))}
CleanHolders(cs, a, c) == {k \in Holders(cs, a, c) : Clean(LineFor(cs, k, a))}

LEMMA SeekOwnedAnswers ==
  ASSUME NEW cs \in Caches, NEW a, NEW c
  PROVE  Answers(cs, seek_owned(cs, a, c), DirtyHolders(cs, a, c), a, "OWNED")
<1>1. /\ DirtyHolders(cs, a, c) \in SUBSET Core
      /\ \A k \in DirtyHolders(cs, a, c) : getCacheBlock_by_address(cs[k], a) # NotFound
      /\ "OWNED" \in CacheState
  BY DEF DirtyHolders, Holders, CacheState
<1>2. seek_owned(cs, a, c) = Seek(cs, a, Lowest(DirtyHolders(cs, a, c)), "OWNED")
  BY DEF seek_owned, DirtyHolders
<1> QED
  BY <1>1, <1>2, SeekAnswers

LEMMA SeekSharedAnswers ==
  ASSUME NEW cs \in Caches, NEW a, NEW c
  PROVE  Answers(cs, seek_shared(cs, a, c), CleanHolders(cs, a, c), a, "SHARED")
<1>1. /\ CleanHolders(cs, a, c) \in SUBSET Core
      /\ \A k \in CleanHolders(cs, a, c) : getCacheBlock_by_address(cs[k], a) # NotFound
      /\ "SHARED" \in CacheState
  BY DEF CleanHolders, Holders, CacheState
<1>2. seek_shared(cs, a, c) = Seek(cs, a, Lowest(CleanHolders(cs, a, c)), "SHARED")
  BY DEF seek_shared, CleanHolders
<1> QED
  BY <1>1, <1>2, SeekAnswers

\* The line where the bus looks for a copy is the same before and after a
\* search, holds the same data, and is valid after it if it was valid before.
LEMMA SnoopedCopy ==
  ASSUME NEW cs \in Caches, NEW r \in Caches, NEW a, NEW c,
         Snooped(cs, r, a, c, {"BUSREAD"}), NEW k \in Core
  PROVE  /\ getCacheBlock_by_address(r[k], a) = getCacheBlock_by_address(cs[k], a)
         /\ getCacheBlock_by_address(cs[k], a) # NotFound =>
              /\ LineFor(r, k, a).data = LineFor(cs, k, a).data
              /\ Valid(LineFor(r, k, a)) <=> Valid(LineFor(cs, k, a))
              /\ Clean(LineFor(cs, k, a)) => Clean(LineFor(r, k, a))
<1> DEFINE i == getCacheBlock_by_address(cs[k], a)
<1>1. getCacheBlock_by_address(r[k], a) = i
  BY SameLookup DEF Snooped
<1>2. i # NotFound => i \in Block
  BY LookupFindsTheAddress
<1>3. LineFor(r, k, a) = r[k][i] /\ LineFor(cs, k, a) = cs[k][i]
  BY <1>1 DEF LineFor
<1> HIDE DEF i
<1>4. ASSUME i \in Block
      PROVE  /\ r[k][i].data = cs[k][i].data
             /\ \/ r[k][i].state = cs[k][i].state
                \/ r[k][i].state = Lines!transition(cs[k][i].state, "BUSREAD")
  BY <1>4 DEF Snooped
<1>5. ASSUME NEW s, NEW t, t = s \/ t = Lines!transition(s, "BUSREAD")
      PROVE  /\ t # "INVALID" <=> s # "INVALID"
             /\ s \in {"EXCLUSIVE", "SHARED"} => t \in {"EXCLUSIVE", "SHARED"}
  BY <1>5 DEF Lines!transition
<1>6. ASSUME i \in Block
      PROVE  /\ r[k][i].state # "INVALID" <=> cs[k][i].state # "INVALID"
             /\ cs[k][i].state \in {"EXCLUSIVE", "SHARED"} => r[k][i].state \in {"EXCLUSIVE", "SHARED"}
  BY <1>4, <1>5, <1>6
<1> QED
  BY <1>1, <1>2, <1>3, <1>4, <1>6 DEF i, Valid, Clean

\* The cores the bus looks at are those the properties call the others.
LEMMA HoldersAmongOthers ==
  ASSUME NEW cs, NEW a, NEW c, NEW k
  PROVE  /\ k \in Holders(cs, a, c) <=> k \in Others(c) /\ k \in Holders(cs, a, N_CPU)
         /\ k \in Holders(cs, a, N_CPU) <=>
              k \in Core /\ getCacheBlock_by_address(cs[k], a) # NotFound
<1>1. N_CPU \notin Core
  BY BusAssumption DEF Core
<1> QED
  BY <1>1 DEF Holders, Others

(***************************************************************************)
(* With the MESI protocol no line is ever OWNED: the bus does not look for *)
(* a modified copy, and nothing else sets that state.                      *)
(***************************************************************************)
HasNoOwner(cs) == \A k \in Core, i \in Block : cs[k][i].state # "OWNED"

NoOwnerInMesi == PROTOCOL = "MESI" => HasNoOwner(caches)

LEMMA SeekSharedMakesNoOwner ==
  ASSUME NEW cs \in Caches, NEW a, NEW c, HasNoOwner(cs)
  PROVE  HasNoOwner(seek_shared(cs, a, c).caches)
<1> DEFINE cores == Lowest({k \in Holders(cs, a, c) : Clean(LineFor(cs, k, a))})
           r     == set_core_cache_block_state(cs, cores, a, "SHARED")
<1>1. /\ cores \in SUBSET Core
      /\ \A k \in cores : getCacheBlock_by_address(cs[k], a) # NotFound
      /\ "SHARED" \in CacheState
  BY DEF Lowest, Holders, CacheState
<1>2. seek_shared(cs, a, c).caches = r
  BY DEF seek_shared, Seek
<1> HIDE DEF cores
<1>3. ASSUME NEW k \in Core, NEW i \in Block
      PROVE  r[k][i].state = cs[k][i].state \/ r[k][i].state = "SHARED"
  BY <1>1, SetStateEffect
<1> QED
  BY <1>2, <1>3 DEF HasNoOwner

LEMMA InvalidateMakesNoOwner ==
  ASSUME NEW cs \in Caches, NEW a, NEW c, HasNoOwner(cs)
  PROVE  HasNoOwner(seek_invalidate(cs, a, c))
<1>1. Snooped(cs, seek_invalidate(cs, a, c), a, c, {"BUSWRITE"})
  BY SeekInvalidateSnoops
<1>2. \A s : Lines!transition(s, "BUSWRITE") = "INVALID"
  BY TableFacts
<1> QED
  BY <1>1, <1>2 DEF Snooped, HasNoOwner

LEMMA FillMakesNoOwner ==
  ASSUME NEW cs \in Caches, NEW m \in Message, NEW s, NEW d, s # "OWNED", HasNoOwner(cs)
  PROVE  HasNoOwner(Fill(cs, m, s, d))
<1> DEFINE r == Fill(cs, m, s, d)
<1>1. /\ \A k \in Core, i \in Block : k # m.id \/ i # m.block_id => r[k][i] = cs[k][i]
      /\ r[m.id][m.block_id].state = s
  BY FillEffect
<1> HIDE DEF r
<1>2. HasNoOwner(r)
  BY <1>1 DEF HasNoOwner
<1> QED
  BY <1>2 DEF r

LEMMA ServiceMakesNoOwner ==
  ASSUME TypeOK, PROTOCOL = "MESI", HasNoOwner(caches), NEW m \in Message,
         process_writemiss(m) \/ process_readmiss(m) \/ process_increment(m)
  PROVE  HasNoOwner(caches')
<1> DEFINE a      == m.address
           shared == seek_shared(caches, a, m.id)
           fromMemory == get_data_from_memory(WriteBackFirst(m), a)
           Modify(cs, d) == seek_invalidate(Fill(cs, m, "MODIFIED", d), a, m.id)
<1>1. caches \in Caches /\ shared.caches \in Caches /\ shared.data \in Int
      /\ fromMemory \in Int /\ m.value \in Int
  BY SeekSharedType, HandlerPreamble DEF TypeOK, Caches, Message
<1>2. AskOwner(m) = [data |-> -1, caches |-> caches]
  BY DEF AskOwner
<1>3. HasNoOwner(shared.caches)
  BY <1>1, SeekSharedMakesNoOwner
<1>4. \A cs \in Caches : \A s, d :
        HasNoOwner(cs) /\ s # "OWNED" => HasNoOwner(Fill(cs, m, s, d))
  BY FillMakesNoOwner
<1>5. \A cs \in Caches, d \in Int : HasNoOwner(cs) => HasNoOwner(Modify(cs, d))
  <2> TAKE cs \in Caches, d \in Int
  <2> HAVE HasNoOwner(cs)
  <2>1. "MODIFIED" \in CacheState
    BY DEF CacheState
  <2>2. Fill(cs, m, "MODIFIED", d) \in Caches
    BY <2>1, FillType
  <2> QED
    BY <1>4, <2>2, InvalidateMakesNoOwner
<1>6. \/ \E cs \in {caches, shared.caches} : caches' = cs
      \/ \E cs \in {caches, shared.caches}, s \in {"EXCLUSIVE", "SHARED"} : \E d :
           caches' = Fill(cs, m, s, d)
      \/ \E cs \in {caches, shared.caches}, d \in Int : caches' = Modify(cs, d)
  <2>1. CASE process_writemiss(m)
    BY <1>1, <2>1 DEF process_writemiss
  <2>2. CASE process_readmiss(m)
    BY <1>2, <2>2 DEF process_readmiss
  <2>3. CASE process_increment(m)
    <3>1. fromMemory + 1 \in Int /\ shared.data + 1 \in Int
      BY <1>1
    <3> QED
      BY <1>2, <2>3, <3>1 DEF process_increment
  <2> QED
    BY <2>1, <2>2, <2>3
<1> HIDE DEF shared, Modify
<1> QED
  BY <1>1, <1>3, <1>4, <1>5, <1>6

\* Nothing outside the bus sets the state OWNED either.
LEMMA StepMakesNoOwner ==
  ASSUME TypeOK, NoOwnerInMesi, [Next]_vars
  PROVE  NoOwnerInMesi'
<1> SUFFICES ASSUME PROTOCOL = "MESI", HasNoOwner(caches) PROVE HasNoOwner(caches')
  BY DEF NoOwnerInMesi
<1>1. CASE process_tasks
  <2>1. PICK m \in Message : m = Head(queue)
    BY <1>1, HeadTailProperties DEF TypeOK, process_tasks
  <2> QED
    BY <1>1, <2>1, ServiceMakesNoOwner DEF process_tasks
<1>2. ASSUME NEW c \in Core, NEW op, NEW a \in Address, NEW d, StoreCacheBlock(c, op, a, d)
      PROVE  HasNoOwner(caches')
  <2> DEFINE i == getCacheBlock_by_address(caches[c], a)
  <2>1. i # NotFound => i \in Block
    BY LookupFindsTheAddress
  <2>2. \/ UNCHANGED caches
        \/ /\ i # NotFound
           /\ caches' = [caches EXCEPT ![c][i] = [@ EXCEPT !.state = "MODIFIED", !.data = d]]
    BY <1>2 DEF StoreCacheBlock
  <2>3. caches \in [Core -> [Block -> CacheBlock]]
    BY DEF TypeOK
  <2> HIDE DEF i
  <2>4. ASSUME i \in Block, NEW k \in Core, NEW j \in Block,
               caches' = [caches EXCEPT ![c][i] = [@ EXCEPT !.state = "MODIFIED", !.data = d]]
        PROVE  caches'[k][j].state # "OWNED"
    <3>1. caches[c][i] \in CacheBlock
      BY <2>3, <2>4
    <3>2. CASE k = c /\ j = i
      <4>1. caches'[k][j] = [caches[c][i] EXCEPT !.state = "MODIFIED", !.data = d]
        BY <2>3, <2>4, <3>2
      <4> QED
        BY <3>1, <4>1 DEF CacheBlock
    <3>3. CASE k # c \/ j # i
      <4>1. caches'[k][j] = caches[k][j]
        BY <2>3, <2>4, <3>3
      <4> QED
        BY <4>1 DEF HasNoOwner
    <3> QED
      BY <3>2, <3>3
  <2> QED
    BY <2>1, <2>2, <2>4 DEF HasNoOwner
<1>3. ASSUME NEW c \in Core, cpu_thread(c)
      PROVE  HasNoOwner(caches')
  <2>1. PICK a \in Address, d \in Int : \/ readCacheBlock(c, a)
                                       \/ StoreCacheBlock(c, "WRITE", a, d)
                                       \/ StoreCacheBlock(c, "INCR", a, d)
    BY <1>3, CpuThreadExecutes
  <2> QED
    BY <1>2, <2>1 DEF readCacheBlock, busVars
<1>4. ASSUME NEW c \in Core, send_message(c) \/ wake_up(c)
      PROVE  HasNoOwner(caches')
  BY <1>4 DEF send_message, wake_up, busVars
<1>5. CASE join_cpu \/ UNCHANGED vars
  BY <1>5 DEF join_cpu, busVars, vars
<1> QED
  BY <1>1, <1>3, <1>4, <1>5 DEF Next, cpu

\* In MESI the state OWNED is never reached.
LEMMA NoOwnerHolds == Spec => []NoOwnerInMesi
<1>1. Init => NoOwnerInMesi
  BY DEF Init, BusInit, initializeCache, NoOwnerInMesi, HasNoOwner
<1> QED
  BY <1>1, StepMakesNoOwner, TypeCorrect, PTL DEF Spec

(***************************************************************************)
(* A READ that brings a line in.                                           *)
(***************************************************************************)
\* What ReadFillIsCoherent says of a request m.
FillIsCoherent(m) ==
  LET filled == caches'[m.id][m.block_id]
  IN  \/ /\ filled.state = "EXCLUSIVE"
         /\ \A k \in Others(m.id) :
              ShowsCopy(caches, k, m.address) =>
                \/ PROTOCOL = "MESI" /\ LineFor(caches, k, m.address).state = "MODIFIED"
                \/ \E j \in Others(m.id) :
                     ShowsCopy(caches, j, m.address) /\ LineFor(caches, j, m.address).data = -1
      \/ /\ filled.state = "SHARED"
         /\ \E k \in Others(m.id) :
              /\ ShowsCopy(caches', k, m.address)
              /\ LineFor(caches', k, m.address).data = filled.data
              /\ ~Writable(LineFor(caches', k, m.address))

\* The line is filled with what a search has answered: the core that answered
\* keeps its copy in a state in which it does not store without the bus.
LEMMA FilledByAnswer ==
  ASSUME NEW cs \in Caches, NEW m \in Message, NEW r, r.caches \in Caches,
         NEW found, found \subseteq Holders(cs, m.address, m.id),
         NEW s \in {"OWNED", "SHARED"},
         Answers(cs, r, found, m.address, s), r.data # -1,
         caches' = Fill(r.caches, m, "SHARED", r.data)
  PROVE  FillIsCoherent(m)
<1> DEFINE a == m.address
<1>1. PICK k \in found : /\ getCacheBlock_by_address(r.caches[k], a) # NotFound
                         /\ LineFor(r.caches, k, a).data = r.data
                         /\ LineFor(r.caches, k, a).state = s
  BY DEF Answers
<1>2. k \in Core /\ k \in Others(m.id)
  BY HoldersAmongOthers DEF Holders
<1>3. m.id \in Core /\ m.block_id \in Block
  BY DEF Message
<1>4. caches'[k] = r.caches[k]
  BY <1>2, <1>3 DEF Fill, Caches, Others
<1>5. LineFor(caches', k, a) = LineFor(r.caches, k, a)
  BY <1>4 DEF LineFor
<1>6. /\ caches'[m.id][m.block_id].state = "SHARED"
      /\ caches'[m.id][m.block_id].data = r.data
  BY <1>3 DEF Fill, Caches
<1>7. ShowsCopy(caches', k, a)
  <2>1. k \in Holders(caches', a, N_CPU)
    BY <1>1, <1>2, <1>4, HoldersAmongOthers
  <2> QED
    BY <1>1, <1>5, <2>1 DEF ShowsCopy, Valid
<1>8. ~Writable(LineFor(caches', k, a))
  BY <1>1, <1>5 DEF Writable
<1> QED
  BY <1>1, <1>2, <1>5, <1>6, <1>7, <1>8 DEF FillIsCoherent

\* The line is filled from the memory because neither search has answered with
\* data: a core that has a copy all the same is one that the MESI bus does not
\* look for, or a copy of -1 has hidden it.
LEMMA FilledFromMemory ==
  ASSUME TypeOK, NoOwnerInMesi, NEW m \in Message,
         NEW owned, owned = AskOwner(m),
         NEW shared, shared = seek_shared(owned.caches, m.address, m.id),
         owned.data = -1, shared.data = -1,
         NEW k \in Others(m.id), ShowsCopy(caches, k, m.address)
  PROVE  \/ PROTOCOL = "MESI" /\ LineFor(caches, k, m.address).state = "MODIFIED"
         \/ \E j \in Others(m.id) :
              ShowsCopy(caches, j, m.address) /\ LineFor(caches, j, m.address).data = -1
<1> DEFINE a == m.address
<1>1. /\ caches \in Caches /\ owned.caches \in Caches
      /\ Snooped(caches, owned.caches, a, m.id, {"BUSREAD"})
  BY SearchesSnoop DEF TypeOK, Caches
<1>2. k \in Core /\ k \in Holders(caches, a, m.id) /\ Valid(LineFor(caches, k, a))
  BY HoldersAmongOthers DEF ShowsCopy, Others
<1>3. LineFor(caches, k, a) \in CacheBlock
  BY <1>1, <1>2, LineForType DEF Holders
<1>4. Clean(LineFor(caches, k, a)) \/ Dirty(LineFor(caches, k, a))
  BY <1>2, <1>3 DEF CacheBlock, CacheState, Valid, Clean, Dirty
<1>5. CASE Clean(LineFor(caches, k, a))
  <2>1. /\ getCacheBlock_by_address(owned.caches[k], a) # NotFound
        /\ Clean(LineFor(owned.caches, k, a))
    BY <1>1, <1>2, <1>5, SnoopedCopy DEF Holders
  <2>2. k \in CleanHolders(owned.caches, a, m.id)
    BY <1>2, <2>1 DEF CleanHolders, Holders
  <2>3. Answers(owned.caches, shared, CleanHolders(owned.caches, a, m.id), a, "SHARED")
    BY <1>1, SeekSharedAnswers
  <2>4. PICK j \in CleanHolders(owned.caches, a, m.id) : LineFor(owned.caches, j, a).data = -1
    BY <2>2, <2>3 DEF Answers
  <2>5. /\ j \in Core /\ j # m.id /\ getCacheBlock_by_address(owned.caches[j], a) # NotFound
        /\ Valid(LineFor(owned.caches, j, a))
    BY DEF CleanHolders, Holders, Clean, Valid
  <2>6. /\ getCacheBlock_by_address(caches[j], a) # NotFound
        /\ LineFor(caches, j, a).data = -1 /\ Valid(LineFor(caches, j, a))
    BY <1>1, <2>4, <2>5, SnoopedCopy
  <2> QED
    BY <2>5, <2>6, HoldersAmongOthers DEF ShowsCopy, Others
<1>6. CASE Dirty(LineFor(caches, k, a)) /\ PROTOCOL = "MOESI"
  <2>1. k \in DirtyHolders(caches, a, m.id)
    BY <1>2, <1>6 DEF DirtyHolders
  <2>2. owned = seek_owned(caches, a, m.id)
    BY <1>6 DEF AskOwner
  <2>3. Answers(caches, owned, DirtyHolders(caches, a, m.id), a, "OWNED")
    BY <1>1, <2>2, SeekOwnedAnswers
  <2>4. PICK j \in DirtyHolders(caches, a, m.id) : LineFor(caches, j, a).data = -1
    BY <2>1, <2>3 DEF Answers
  <2>5. j \in Core /\ j # m.id /\ j \in Holders(caches, a, m.id) /\ Valid(LineFor(caches, j, a))
    BY DEF DirtyHolders, Holders, Dirty, Valid
  <2> QED
    BY <2>4, <2>5, HoldersAmongOthers DEF ShowsCopy, Others
<1>7. CASE Dirty(LineFor(caches, k, a)) /\ PROTOCOL = "MESI"
  <2>1. LineFor(caches, k, a).state # "OWNED"
    BY <1>2, <1>7, LookupFindsTheAddress DEF NoOwnerInMesi, HasNoOwner, LineFor, Holders
  <2> QED
    BY <1>7, <2>1 DEF Dirty
<1> QED
  BY <1>4, <1>5, <1>6, <1>7, BusAssumption

LEMMA ReadMissIsCoherent ==
  ASSUME TypeOK, NoOwnerInMesi, NEW m \in Message, process_readmiss(m), Brings(m)
  PROVE  FillIsCoherent(m)
<1> DEFINE a      == m.address
           owned  == AskOwner(m)
           shared == seek_shared(owned.caches, a, m.id)
           fromMemory == get_data_from_memory(WriteBackFirst(m), a)
<1>1. caches \in Caches /\ owned.caches \in Caches /\ shared.caches \in Caches
  BY SearchesSnoop DEF TypeOK, Caches
<1>2. \/ owned.data # -1 /\ caches' = Fill(owned.caches, m, "SHARED", owned.data)
      \/ shared.data # -1 /\ caches' = Fill(shared.caches, m, "SHARED", shared.data)
      \/ /\ owned.data = -1 /\ shared.data = -1
         /\ caches' = Fill(shared.caches, m, "EXCLUSIVE", fromMemory)
  BY DEF process_readmiss, Brings
<1> HIDE DEF owned, shared, fromMemory
<1>3. CASE owned.data # -1 /\ caches' = Fill(owned.caches, m, "SHARED", owned.data)
  <2>1. owned = seek_owned(caches, a, m.id)
    BY <1>3 DEF owned, AskOwner
  <2>2. Answers(caches, owned, DirtyHolders(caches, a, m.id), a, "OWNED")
    BY <1>1, <2>1, SeekOwnedAnswers
  <2>3. DirtyHolders(caches, a, m.id) \subseteq Holders(caches, a, m.id)
    BY DEF DirtyHolders
  <2> QED
    BY <1>1, <1>3, <2>2, <2>3, FilledByAnswer
<1>4. CASE shared.data # -1 /\ caches' = Fill(shared.caches, m, "SHARED", shared.data)
  <2>1. Answers(owned.caches, shared, CleanHolders(owned.caches, a, m.id), a, "SHARED")
    BY <1>1, SeekSharedAnswers DEF shared
  <2>2. CleanHolders(owned.caches, a, m.id) \subseteq Holders(owned.caches, a, m.id)
    BY DEF CleanHolders
  <2> QED
    BY <1>1, <1>4, <2>1, <2>2, FilledByAnswer
<1>5. CASE /\ owned.data = -1 /\ shared.data = -1
           /\ caches' = Fill(shared.caches, m, "EXCLUSIVE", fromMemory)
  <2>1. caches'[m.id][m.block_id].state = "EXCLUSIVE"
    BY <1>1, <1>5, FillEffect
  <2>2. owned = AskOwner(m) /\ shared = seek_shared(owned.caches, m.address, m.id)
    BY DEF owned, shared
  <2> QED
    BY <1>5, <2>1, <2>2, FilledFromMemory DEF FillIsCoherent
<1> QED
  BY <1>2, <1>3, <1>4, <1>5

\* The request served in a step is the one at the head of the queue, and the bus
\* has run its handler.  No other step takes a request out of the queue.
LEMMA ServedByTheBus ==
  ASSUME TypeOK, [Next]_vars, NEW m \in Served
  PROVE  /\ m \in Message
         /\ \/ m.access = "WRITEMISS" /\ process_writemiss(m)
            \/ m.access = "READMISS"  /\ process_readmiss(m)
            \/ m.access = "INCREMENT" /\ process_increment(m)
<1>1. queue # <<>> /\ queue' = Tail(queue) /\ m = Head(queue) /\ queue \in Seq(Message)
  BY DEF Served, TypeOK
<1>2. m \in Message /\ Len(queue') = Len(queue) - 1 /\ Len(queue) \in Nat
  BY <1>1, HeadTailProperties, LenProperties
<1>3. ASSUME NEW r \in Message, queue' = Append(queue, r)
      PROVE  FALSE
  BY <1>1, <1>2, <1>3, AppendProperties
<1>4. queue' # queue
  BY <1>2
<1>5. process_tasks
  <2>1. ASSUME NEW c \in Core, send_message(c) PROVE FALSE
    BY <1>3, <2>1 DEF send_message, TypeOK
  <2> QED
    BY <1>4, <2>1 DEF Next, vars, cpu, cpu_thread, wake_up, join_cpu
<1> QED
  BY <1>1, <1>2, <1>5 DEF process_tasks

\* In both protocols and for any number of cores, a READ is filled SHARED only
\* with the data of a core that keeps a copy, and EXCLUSIVE only if no core has
\* one that the bus could have found.
THEOREM ReadFillIsCoherentHolds == Spec => ReadFillIsCoherent
<1>1. TypeOK /\ NoOwnerInMesi /\ [Next]_vars =>
        \A m \in Served : Brings(m) /\ m.access = "READMISS" => FillIsCoherent(m)
  BY ServedByTheBus, ReadMissIsCoherent
<1> QED
  BY <1>1, TypeCorrect, NoOwnerHolds, PTL DEF Spec, ReadFillIsCoherent, FillIsCoherent

(***************************************************************************)
(* A store.                                                                *)
(***************************************************************************)
\* If every other core that holds the address shows a valid copy, the loop of
\* seek_invalidate reaches them all, and leaves none to a core with one line.
LEMMA EveryCopyReached ==
  ASSUME NEW f \in Caches, NEW a, NEW c \in Core,
         \A k \in Holders(f, a, c) : Valid(LineFor(f, k, a)),
         NEW r, r = seek_invalidate(f, a, c),
         NEW k \in Others(c), HoldsOnce(f, k, a)
  PROVE  ~HasCopy(r, k, a)
<1> DEFINE i == getCacheBlock_by_address(f[k], a)
           reached == {j \in Holders(f, a, c) :
                         \A l \in Holders(f, a, c) : l <= j => Valid(LineFor(f, l, a))}
<1>1. k \in Core /\ k # c
  BY DEF Others
<1>2. \A j \in Block : r[k][j].address = f[k][j].address
  BY <1>1, SeekInvalidateSnoops DEF Snooped
<1>3. /\ i # NotFound <=> \E j \in Block : f[k][j].address = a
      /\ i # NotFound => i \in Block /\ f[k][i].address = a
  BY LookupFindsTheAddress
<1>4. CASE i = NotFound
  BY <1>2, <1>3, <1>4 DEF HasCopy
<1>5. CASE i # NotFound
  <2>1. k \in Holders(f, a, c)
    BY <1>1, <1>5 DEF Holders
  <2>2. k \in reached
    BY <2>1
  <2>3. r = set_core_cache_block_state(f, reached, a, "INVALID")
    BY DEF seek_invalidate
  <2> HIDE DEF reached
  <2>4. r[k] = [f[k] EXCEPT ![i].state = "INVALID"]
    BY <1>1, <2>2, <2>3 DEF set_core_cache_block_state
  <2>5. f[k] \in [Block -> CacheBlock]
    BY <1>1 DEF Caches
  <2> HIDE DEF i
  <2>6. r[k][i].state = "INVALID"
    BY <1>3, <1>5, <2>4, <2>5 DEF CacheBlock
  <2>7. \A j \in Block : r[k][j].address = a => j = i
    BY <1>2, <1>3, <1>5 DEF HoldsOnce
  <2> QED
    BY <2>6, <2>7 DEF HasCopy, Valid
<1> QED
  BY <1>4, <1>5

\* What StoreTakesTheOnlyCopy says of a request m.
TakesTheOnlyCopy(m) ==
  /\ caches'[m.id][m.block_id].state = "MODIFIED"
  /\ \A k \in Others(m.id) :
       HoldsOnce(caches, k, m.address) => ~HasCopy(caches', k, m.address)

\* The searches before the line is filled make no copy invalid, so that the loop
\* reaches the same cores as before them.
LEMMA FillAndTakeTheOnlyCopy ==
  ASSUME TypeOK, NEW m \in Message, NEW cs \in Caches, NEW d \in Int,
         Snooped(caches, cs, m.address, m.id, {"BUSREAD"}),
         \A k \in Others(m.id) : ~ShowsInvalid(caches, k, m.address),
         caches' = seek_invalidate(Fill(cs, m, "MODIFIED", d), m.address, m.id)
  PROVE  TakesTheOnlyCopy(m)
<1> DEFINE a == m.address
           f == Fill(cs, m, "MODIFIED", d)
<1>1. m.id \in Core /\ caches \in Caches
  BY DEF Message, TypeOK, Caches
<1>2. f \in Caches
  <2>1. "MODIFIED" \in CacheState
    BY DEF CacheState
  <2> QED
    BY <2>1, FillType
<1>3. \A k \in Core \ {m.id} : f[k] = cs[k]
  BY <1>1 DEF Fill, Caches
<1>4. ASSUME NEW k \in Holders(f, a, m.id)
      PROVE  Valid(LineFor(f, k, a))
  <2>1. k \in Core /\ k # m.id /\ getCacheBlock_by_address(f[k], a) # NotFound
    BY DEF Holders
  <2>2. getCacheBlock_by_address(cs[k], a) # NotFound /\ LineFor(f, k, a) = LineFor(cs, k, a)
    BY <1>3, <2>1 DEF LineFor
  <2>3. getCacheBlock_by_address(caches[k], a) # NotFound
    BY <1>1, <2>1, <2>2, SnoopedCopy
  <2>4. Valid(LineFor(caches, k, a))
    BY <2>1, <2>3, HoldersAmongOthers DEF ShowsInvalid, Others
  <2> QED
    BY <1>1, <2>1, <2>2, <2>3, <2>4, SnoopedCopy
<1>5. caches' = seek_invalidate(f, a, m.id)
  OBVIOUS
<1>6. caches'[m.id][m.block_id].state = "MODIFIED"
  BY StoreServes
<1> HIDE DEF f
<1>7. ASSUME NEW k \in Others(m.id), HoldsOnce(caches, k, a)
      PROVE  ~HasCopy(caches', k, a)
  <2>1. HoldsOnce(f, k, a)
    BY <1>3, <1>7 DEF HoldsOnce, Snooped, Others
  <2> QED
    BY <1>1, <1>2, <1>4, <1>5, <1>7, <2>1, EveryCopyReached
<1> QED
  BY <1>6, <1>7 DEF TakesTheOnlyCopy

LEMMA ServiceTakesTheOnlyCopy ==
  ASSUME TypeOK, NEW m \in Message,
         \A k \in Others(m.id) : ~ShowsInvalid(caches, k, m.address),
         \/ process_writemiss(m)
         \/ process_increment(m) /\ Brings(m)
  PROVE  TakesTheOnlyCopy(m)
<1> DEFINE a      == m.address
           owned  == AskOwner(m)
           shared == seek_shared(owned.caches, a, m.id)
           fromMemory == get_data_from_memory(WriteBackFirst(m), a)
           Modify(cs, d) == seek_invalidate(Fill(cs, m, "MODIFIED", d), a, m.id)
<1>1. caches \in Caches /\ m.value \in Int /\ fromMemory \in Int
  BY HandlerPreamble DEF TypeOK, Caches, Message
<1>2. /\ owned.caches \in Caches /\ owned.data \in Int
      /\ shared.caches \in Caches /\ shared.data \in Int
      /\ Snooped(caches, owned.caches, a, m.id, {"BUSREAD"})
      /\ Snooped(caches, shared.caches, a, m.id, {"BUSREAD"})
  BY SearchesSnoop
<1>3. Snooped(caches, caches, a, m.id, {"BUSREAD"})
  BY DEF Snooped
<1>4. \E cs \in Caches, d \in Int :
        Snooped(caches, cs, a, m.id, {"BUSREAD"}) /\ caches' = Modify(cs, d)
  <2>1. CASE process_writemiss(m)
    BY <1>1, <1>3, <2>1 DEF process_writemiss
  <2>2. CASE process_increment(m) /\ Brings(m)
    <3>1. \/ caches' = Modify(owned.caches, owned.data + 1)
          \/ caches' = Modify(shared.caches, shared.data + 1)
          \/ caches' = Modify(shared.caches, fromMemory + 1)
      BY <2>2 DEF process_increment, Brings
    <3>2. owned.data + 1 \in Int /\ shared.data + 1 \in Int /\ fromMemory + 1 \in Int
      BY <1>1, <1>2
    <3> HIDE DEF owned, shared, fromMemory, Modify
    <3> QED
      BY <1>2, <3>1, <3>2
  <2> QED
    BY <2>1, <2>2
<1> QED
  BY <1>4, FillAndTakeTheOnlyCopy

\* A store that the bus serves takes the address from every core that holds it
\* once, provided that no other core shows an invalid copy, at which the loop of
\* the bus stops.
THEOREM StoreTakesTheOnlyCopyHolds == Spec => StoreTakesTheOnlyCopy
<1>1. ASSUME TypeOK, [Next]_vars, NEW m \in Served,
             m.access = "WRITEMISS" \/ (m.access = "INCREMENT" /\ Brings(m)),
             \A k \in Others(m.id) : ~ShowsInvalid(caches, k, m.address)
      PROVE  TakesTheOnlyCopy(m)
  BY <1>1, ServedByTheBus, ServiceTakesTheOnlyCopy
<1>2. TypeOK /\ [Next]_vars =>
        \A m \in Served :
          /\ m.access = "WRITEMISS" \/ (m.access = "INCREMENT" /\ Brings(m))
          /\ \A k \in Others(m.id) : ~ShowsInvalid(caches, k, m.address)
          => TakesTheOnlyCopy(m)
  BY <1>1
<1> QED
  BY <1>2, TypeCorrect, PTL DEF Spec, StoreTakesTheOnlyCopy, TakesTheOnlyCopy
=============================================================================
