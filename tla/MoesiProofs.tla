---------------------------- MODULE MoesiProofs ----------------------------
(***************************************************************************)
(* Proof that the simulator implements module MoesiLines: whatever the     *)
(* interleaving of cores and bus, and in both protocols, the states of the *)
(* lines move along the table of moesi.c.                                  *)
(***************************************************************************)
EXTENDS CoherenceProofs

(***************************************************************************)
(* What a search does to the lines of the cores it looks at.               *)
(***************************************************************************)
\* From cs to r, only lines of other cores than c that hold a have moved, each
\* by one of the events.
Snooped(cs, r, a, c, events) ==
  \A k \in Core, i \in Block :
    /\ r[k][i].address = cs[k][i].address
    /\ r[k][i].data = cs[k][i].data
    /\ \/ r[k][i].state = cs[k][i].state
       \/ /\ k # c
          /\ cs[k][i].address = a
          /\ \E e \in events : r[k][i].state = Lines!transition(cs[k][i].state, e)

LEMMA SetStateEffect ==
  ASSUME NEW cs \in Caches, NEW cores \in SUBSET Core, NEW a, NEW s \in CacheState,
         \A k \in cores : getCacheBlock_by_address(cs[k], a) # NotFound,
         NEW r, r = set_core_cache_block_state(cs, cores, a, s),
         NEW k \in Core, NEW i \in Block,
         NEW j, j = getCacheBlock_by_address(cs[k], a)
  PROVE  /\ r[k][i].address = cs[k][i].address
         /\ r[k][i].data = cs[k][i].data
         /\ \/ r[k][i].state = cs[k][i].state
            \/ k \in cores /\ i = j /\ cs[k][i].address = a /\ r[k][i].state = s
<1>1. cs[k] \in [Block -> CacheBlock] /\ cs[k][i] \in CacheBlock
  BY DEF Caches
<1>2. CASE k \notin cores
  BY <1>2 DEF set_core_cache_block_state
<1>3. CASE k \in cores
  <2>1. j \in Block /\ cs[k][j].address = a
    BY <1>3, LookupFindsTheAddress
  <2>2. r[k] = [cs[k] EXCEPT ![j].state = s]
    BY <1>3 DEF set_core_cache_block_state
  <2>3. CASE i # j
    BY <1>1, <2>1, <2>2, <2>3
  <2>4. CASE i = j
    <3>1. r[k][i] = [cs[k][i] EXCEPT !.state = s]
      BY <1>1, <2>1, <2>2, <2>4
    <3>2. r[k][i].state = s /\ r[k][i].address = cs[k][i].address /\ r[k][i].data = cs[k][i].data
      BY <1>1, <3>1 DEF CacheBlock
    <3> QED
      BY <1>3, <2>1, <2>4, <3>2
  <2> QED
    BY <2>3, <2>4
<1> QED
  BY <1>2, <1>3

LEMMA TableFacts ==
  /\ \A s \in {"MODIFIED", "OWNED"} : Lines!transition(s, "BUSREAD") = "OWNED"
  /\ \A s \in {"EXCLUSIVE", "SHARED"} : Lines!transition(s, "BUSREAD") = "SHARED"
  /\ \A s : Lines!transition(s, "BUSWRITE") = "INVALID"
  /\ \A s : Lines!transition(s, "WRITE") = "MODIFIED"
  /\ Lines!transition("INVALID", "READ") = "EXCLUSIVE"
  /\ Lines!transition("INVALID", "BUSREAD") = "INVALID"
  /\ \A s : s # "INVALID" => Lines!transition(s, "READ") = s
BY DEF Lines!transition

\* The searches of a read raise BUSREAD in the lines they move, the
\* invalidation BUSWRITE.
LEMMA SeekOwnedSnoops ==
  ASSUME NEW cs \in Caches, NEW a, NEW c
  PROVE  Snooped(cs, seek_owned(cs, a, c).caches, a, c, {"BUSREAD"})
<1> DEFINE cores == Lowest({k \in Holders(cs, a, c) : Dirty(LineFor(cs, k, a))})
           r     == set_core_cache_block_state(cs, cores, a, "OWNED")
<1>1. /\ cores \in SUBSET Core
      /\ \A k \in cores : getCacheBlock_by_address(cs[k], a) # NotFound /\ k # c
      /\ \A k \in cores : Dirty(cs[k][getCacheBlock_by_address(cs[k], a)])
  BY DEF Lowest, Holders, LineFor
<1>2. "OWNED" \in CacheState
  BY DEF CacheState
<1>3. seek_owned(cs, a, c).caches = r
  BY DEF seek_owned, Seek
<1> HIDE DEF cores
<1>4. ASSUME NEW k \in Core, NEW i \in Block
      PROVE  /\ r[k][i].address = cs[k][i].address
             /\ r[k][i].data = cs[k][i].data
             /\ \/ r[k][i].state = cs[k][i].state
                \/ /\ k # c /\ cs[k][i].address = a
                   /\ r[k][i].state = Lines!transition(cs[k][i].state, "BUSREAD")
  BY <1>1, <1>2, SetStateEffect, TableFacts DEF Dirty
<1> QED
  BY <1>3, <1>4 DEF Snooped

LEMMA SeekSharedSnoops ==
  ASSUME NEW cs \in Caches, NEW a, NEW c
  PROVE  Snooped(cs, seek_shared(cs, a, c).caches, a, c, {"BUSREAD"})
<1> DEFINE cores == Lowest({k \in Holders(cs, a, c) : Clean(LineFor(cs, k, a))})
           r     == set_core_cache_block_state(cs, cores, a, "SHARED")
<1>1. /\ cores \in SUBSET Core
      /\ \A k \in cores : getCacheBlock_by_address(cs[k], a) # NotFound /\ k # c
      /\ \A k \in cores : Clean(cs[k][getCacheBlock_by_address(cs[k], a)])
  BY DEF Lowest, Holders, LineFor
<1>2. "SHARED" \in CacheState
  BY DEF CacheState
<1>3. seek_shared(cs, a, c).caches = r
  BY DEF seek_shared, Seek
<1> HIDE DEF cores
<1>4. ASSUME NEW k \in Core, NEW i \in Block
      PROVE  /\ r[k][i].address = cs[k][i].address
             /\ r[k][i].data = cs[k][i].data
             /\ \/ r[k][i].state = cs[k][i].state
                \/ /\ k # c /\ cs[k][i].address = a
                   /\ r[k][i].state = Lines!transition(cs[k][i].state, "BUSREAD")
  BY <1>1, <1>2, SetStateEffect, TableFacts DEF Clean
<1> QED
  BY <1>3, <1>4 DEF Snooped

LEMMA SeekInvalidateSnoops ==
  ASSUME NEW cs \in Caches, NEW a, NEW c
  PROVE  Snooped(cs, seek_invalidate(cs, a, c), a, c, {"BUSWRITE"})
<1> DEFINE cores == {k \in Holders(cs, a, c) :
                       \A j \in Holders(cs, a, c) : j <= k => Valid(LineFor(cs, j, a))}
           r     == set_core_cache_block_state(cs, cores, a, "INVALID")
<1>1. /\ cores \in SUBSET Core
      /\ \A k \in cores : getCacheBlock_by_address(cs[k], a) # NotFound /\ k # c
  BY DEF Holders
<1>2. "INVALID" \in CacheState
  BY DEF CacheState
<1>3. seek_invalidate(cs, a, c) = r
  BY DEF seek_invalidate
<1> HIDE DEF cores
<1>4. ASSUME NEW k \in Core, NEW i \in Block
      PROVE  /\ r[k][i].address = cs[k][i].address
             /\ r[k][i].data = cs[k][i].data
             /\ \/ r[k][i].state = cs[k][i].state
                \/ /\ k # c /\ cs[k][i].address = a
                   /\ r[k][i].state = Lines!transition(cs[k][i].state, "BUSWRITE")
  BY <1>1, <1>2, SetStateEffect, TableFacts
<1> QED
  BY <1>3, <1>4 DEF Snooped
(***************************************************************************)
(* What a handler does to all lines.                                       *)
(***************************************************************************)
\* From cs to r, line b of core c may have changed in any way and the others
\* have moved by the events.
SnoopedBut(cs, r, a, c, b, events) ==
  \A k \in Core, i \in Block :
    k # c \/ i # b =>
      /\ r[k][i].address = cs[k][i].address
      /\ r[k][i].data = cs[k][i].data
      /\ \/ r[k][i].state = cs[k][i].state
         \/ /\ k # c
            /\ cs[k][i].address = a
            /\ \E e \in events : r[k][i].state = Lines!transition(cs[k][i].state, e)

LEMMA FillEffect ==
  ASSUME NEW cs \in Caches, NEW m \in Message, NEW s, NEW d,
         NEW r, r = Fill(cs, m, s, d)
  PROVE  /\ \A k \in Core, i \in Block : k # m.id \/ i # m.block_id => r[k][i] = cs[k][i]
         /\ r[m.id][m.block_id].state = s
         /\ r[m.id][m.block_id].address = m.address
BY DEF Fill, Caches, Message

\* Two searches of a read raise no more than one.
LEMMA SnoopedTwice ==
  ASSUME NEW cs, NEW r, NEW t, NEW a, NEW c,
         Snooped(cs, r, a, c, {"BUSREAD"}), Snooped(r, t, a, c, {"BUSREAD"})
  PROVE  Snooped(cs, t, a, c, {"BUSREAD"})
<1>1. \A s : Lines!transition(Lines!transition(s, "BUSREAD"), "BUSREAD") = Lines!transition(s, "BUSREAD")
  BY DEF Lines!transition
<1> QED
  BY <1>1 DEF Snooped

\* A read: searches, then perhaps the line of the requester is filled.
LEMMA SearchAndFill ==
  ASSUME NEW cs \in Caches, NEW r \in Caches, NEW m \in Message, NEW s, NEW d,
         Snooped(cs, r, m.address, m.id, {"BUSREAD"})
  PROVE  SnoopedBut(cs, Fill(r, m, s, d), m.address, m.id, m.block_id, {"BUSREAD"})
<1>1. \A k \in Core, i \in Block : k # m.id \/ i # m.block_id => Fill(r, m, s, d)[k][i] = r[k][i]
  BY FillEffect
<1> QED
  BY <1>1 DEF Snooped, SnoopedBut

\* A store: the other copies are invalidated after that, and the line of the
\* requester is left alone.
LEMMA FillAndInvalidate ==
  ASSUME NEW cs \in Caches, NEW f \in Caches, NEW m \in Message, NEW events,
         SnoopedBut(cs, f, m.address, m.id, m.block_id, events),
         NEW r, r = seek_invalidate(f, m.address, m.id)
  PROVE  SnoopedBut(cs, r, m.address, m.id, m.block_id, events \cup {"BUSWRITE"})
<1>1. Snooped(f, r, m.address, m.id, {"BUSWRITE"})
  BY SeekInvalidateSnoops
<1>2. \A s, t : Lines!transition(s, "BUSWRITE") = Lines!transition(t, "BUSWRITE")
  BY DEF Lines!transition
<1> QED
  BY <1>1, <1>2 DEF Snooped, SnoopedBut

LEMMA InvalidateKeepsOwnLine ==
  ASSUME NEW f \in Caches, NEW m \in Message,
         NEW r, r = seek_invalidate(f, m.address, m.id)
  PROVE  /\ r[m.id][m.block_id].state = f[m.id][m.block_id].state
         /\ r[m.id][m.block_id].address = f[m.id][m.block_id].address
         /\ r[m.id][m.block_id].data = f[m.id][m.block_id].data
<1>1. Snooped(f, r, m.address, m.id, {"BUSWRITE"})
  BY SeekInvalidateSnoops
<1>2. m.id \in Core /\ m.block_id \in Block
  BY DEF Message
<1> QED
  BY <1>1, <1>2 DEF Snooped

LEMMA AskOwnerSnoops ==
  ASSUME TypeOK, NEW m \in Message
  PROVE  Snooped(caches, AskOwner(m).caches, m.address, m.id, {"BUSREAD"})
<1>1. caches \in Caches
  BY DEF TypeOK, Caches
<1>2. Snooped(caches, caches, m.address, m.id, {"BUSREAD"})
  BY DEF Snooped
<1> QED
  BY <1>1, <1>2, SeekOwnedSnoops DEF AskOwner

\* The two searches of process_readmiss and process_increment.
LEMMA SearchesSnoop ==
  ASSUME TypeOK, NEW m \in Message,
         NEW owned, owned = AskOwner(m),
         NEW shared, shared = seek_shared(owned.caches, m.address, m.id)
  PROVE  /\ owned.caches \in Caches /\ owned.data \in Int
         /\ shared.caches \in Caches /\ shared.data \in Int
         /\ Snooped(caches, owned.caches, m.address, m.id, {"BUSREAD"})
         /\ Snooped(caches, shared.caches, m.address, m.id, {"BUSREAD"})
<1>1. owned.caches \in Caches /\ owned.data \in Int
  BY HandlerPreamble
<1>2. shared.caches \in Caches /\ shared.data \in Int
  BY <1>1, SeekSharedType
<1>3. Snooped(caches, owned.caches, m.address, m.id, {"BUSREAD"})
  BY AskOwnerSnoops
<1>4. Snooped(owned.caches, shared.caches, m.address, m.id, {"BUSREAD"})
  BY <1>1, SeekSharedSnoops
<1> QED
  BY <1>1, <1>2, <1>3, <1>4, SnoopedTwice
(***************************************************************************)
(* The handlers implement Serve.                                           *)
(***************************************************************************)
\* What the proofs use of a handler: the step of MoesiLines it is, and what it
\* leaves of the lines it does not serve.
HandlerServes(m) ==
  /\ Lines!Serve(m.id, m.block_id, m.access, m.address)
  /\ SnoopedBut(caches, caches', m.address, m.id, m.block_id, {"BUSREAD", "BUSWRITE"})

LEMMA ServesOneLine ==
  ASSUME NEW m \in Message,
         NEW events, events \subseteq Lines!SnoopedEvents(m.access),
         SnoopedBut(caches, caches', m.address, m.id, m.block_id, events),
         caches'[m.id][m.block_id].address = m.address,
         caches[m.id][m.block_id].address = m.address =>
           caches'[m.id][m.block_id].state =
             Lines!transition(caches[m.id][m.block_id].state, Lines!OwnEvent(m.access)),
         caches[m.id][m.block_id].address # m.address =>
           caches'[m.id][m.block_id].state \in Lines!FillStates(m.access)
  PROVE  HandlerServes(m)
<1>1. m.id \in Core /\ m.block_id \in Block
  BY DEF Message
<1>2. Lines!Served(m.id, m.block_id, m.access, m.address)
  BY <1>1 DEF Lines!Served
<1>3. \A j \in Block \ {m.block_id} :
        caches'[m.id][j].state = caches[m.id][j].state /\ caches'[m.id][j].address = caches[m.id][j].address
  BY <1>1 DEF SnoopedBut
<1>4. \A k \in Core \ {m.id}, j \in Block : Lines!Snoops(k, j, m.access, m.address)
  BY DEF SnoopedBut, Lines!Snoops
<1>5. Lines!Serve(m.id, m.block_id, m.access, m.address)
  BY <1>1, <1>2, <1>3, <1>4 DEF Lines!Serve
<1>6. events \subseteq {"BUSREAD", "BUSWRITE"}
  BY DEF Lines!SnoopedEvents, Message, AccessType
<1>7. SnoopedBut(caches, caches', m.address, m.id, m.block_id, {"BUSREAD", "BUSWRITE"})
  BY <1>6 DEF SnoopedBut
<1> QED
  BY <1>5, <1>7 DEF HandlerServes

LEMMA ReadMissServes ==
  ASSUME TypeOK, NEW m \in Message, m.access = "READMISS", process_readmiss(m)
  PROVE  HandlerServes(m)
<1> DEFINE a      == m.address
           owned  == AskOwner(m)
           shared == seek_shared(owned.caches, a, m.id)
           here   == Target(m).address = a
           fromMemory == get_data_from_memory(WriteBackFirst(m), a)
<1>1. m.id \in Core /\ m.block_id \in Block /\ a \in Address /\ caches \in Caches
  BY DEF Message, TypeOK, Caches
<1>2. /\ owned.caches \in Caches /\ owned.data \in Int
      /\ shared.caches \in Caches /\ shared.data \in Int
      /\ Snooped(caches, owned.caches, a, m.id, {"BUSREAD"})
      /\ Snooped(caches, shared.caches, a, m.id, {"BUSREAD"})
  BY SearchesSnoop
<1>3. {"BUSREAD"} \subseteq Lines!SnoopedEvents(m.access)
  BY DEF Lines!SnoopedEvents
<1>4. Lines!OwnEvent(m.access) = "READ" /\ Lines!FillStates(m.access) = {"EXCLUSIVE", "SHARED"}
  BY DEF Lines!OwnEvent, Lines!FillStates
<1>5. \/ /\ here /\ Target(m).state = "INVALID"
         /\ caches' = Fill(owned.caches, m, "EXCLUSIVE", fromMemory)
      \/ /\ here /\ Target(m).state # "INVALID"
         /\ caches' = owned.caches
      \/ /\ ~here
         /\ caches' = Fill(owned.caches, m, "SHARED", owned.data)
      \/ /\ ~here
         /\ \/ caches' = Fill(shared.caches, m, "SHARED", shared.data)
            \/ caches' = Fill(shared.caches, m, "EXCLUSIVE", fromMemory)
  BY DEF process_readmiss, Valid
<1> HIDE DEF a, owned, shared, fromMemory
<1>6. CASE /\ here /\ Target(m).state = "INVALID"
           /\ caches' = Fill(owned.caches, m, "EXCLUSIVE", fromMemory)
  <2>1. SnoopedBut(caches, caches', m.address, m.id, m.block_id, {"BUSREAD"})
    BY <1>1, <1>2, <1>6, SearchAndFill DEF a
  <2>2. caches'[m.id][m.block_id].address = m.address /\ caches'[m.id][m.block_id].state = "EXCLUSIVE"
    BY <1>2, <1>6, FillEffect
  <2> QED
    BY <1>3, <1>4, <1>6, <2>1, <2>2, ServesOneLine, TableFacts DEF Target, a
<1>7. CASE /\ here /\ Target(m).state # "INVALID"
           /\ caches' = owned.caches
  <2>1. SnoopedBut(caches, caches', m.address, m.id, m.block_id, {"BUSREAD"})
    BY <1>2, <1>7 DEF a, Snooped, SnoopedBut
  <2>2. /\ caches'[m.id][m.block_id].address = m.address
        /\ caches'[m.id][m.block_id].state = caches[m.id][m.block_id].state
    BY <1>1, <1>2, <1>7 DEF a, Snooped, Target
  <2> QED
    BY <1>3, <1>4, <1>7, <2>1, <2>2, ServesOneLine, TableFacts DEF Target, a
<1>8. CASE /\ ~here
           /\ caches' = Fill(owned.caches, m, "SHARED", owned.data)
  <2>1. SnoopedBut(caches, caches', m.address, m.id, m.block_id, {"BUSREAD"})
    BY <1>1, <1>2, <1>8, SearchAndFill DEF a
  <2>2. caches'[m.id][m.block_id].address = m.address /\ caches'[m.id][m.block_id].state = "SHARED"
    BY <1>2, <1>8, FillEffect
  <2> QED
    BY <1>3, <1>4, <1>8, <2>1, <2>2, ServesOneLine DEF Target, a
<1>9. CASE /\ ~here
           /\ \/ caches' = Fill(shared.caches, m, "SHARED", shared.data)
              \/ caches' = Fill(shared.caches, m, "EXCLUSIVE", fromMemory)
  <2>1. SnoopedBut(caches, caches', m.address, m.id, m.block_id, {"BUSREAD"})
    BY <1>1, <1>2, <1>9, SearchAndFill DEF a
  <2>2. /\ caches'[m.id][m.block_id].address = m.address
        /\ caches'[m.id][m.block_id].state \in {"SHARED", "EXCLUSIVE"}
    BY <1>2, <1>9, FillEffect
  <2> QED
    BY <1>3, <1>4, <1>9, <2>1, <2>2, ServesOneLine DEF Target, a
<1> QED
  BY <1>5, <1>6, <1>7, <1>8, <1>9
\* A line is filled in the state MODIFIED and the other copies invalidated.
LEMMA StoreServes ==
  ASSUME TypeOK, NEW m \in Message, NEW cs \in Caches, NEW d \in Int,
         Snooped(caches, cs, m.address, m.id, {"BUSREAD"}) \/ cs = caches,
         caches' = seek_invalidate(Fill(cs, m, "MODIFIED", d), m.address, m.id)
  PROVE  /\ caches'[m.id][m.block_id].address = m.address
         /\ caches'[m.id][m.block_id].state = "MODIFIED"
         /\ cs = caches =>
              SnoopedBut(caches, caches', m.address, m.id, m.block_id, {"BUSWRITE"})
         /\ SnoopedBut(caches, caches', m.address, m.id, m.block_id, {"BUSREAD", "BUSWRITE"})
<1> DEFINE f == Fill(cs, m, "MODIFIED", d)
<1>1. caches \in Caches /\ f \in Caches
  <2>1. "MODIFIED" \in CacheState
    BY DEF CacheState
  <2> QED
    BY <2>1, FillType DEF TypeOK, Caches
<1>2. f[m.id][m.block_id].state = "MODIFIED" /\ f[m.id][m.block_id].address = m.address
  BY FillEffect
<1>3. cs = caches => SnoopedBut(caches, f, m.address, m.id, m.block_id, {})
  <2>1. cs = caches => \A k \in Core, i \in Block : k # m.id \/ i # m.block_id => f[k][i] = caches[k][i]
    BY <1>1, FillEffect
  <2> QED
    BY <2>1 DEF SnoopedBut
<1>4. SnoopedBut(caches, f, m.address, m.id, m.block_id, {"BUSREAD"})
  <2>1. Snooped(caches, caches, m.address, m.id, {"BUSREAD"})
    BY DEF Snooped
  <2> QED
    BY <1>1, <2>1, SearchAndFill
<1>5. caches' = seek_invalidate(f, m.address, m.id)
  OBVIOUS
<1> HIDE DEF f
<1>6. /\ caches'[m.id][m.block_id].address = m.address
      /\ caches'[m.id][m.block_id].state = "MODIFIED"
  <2>1. /\ caches'[m.id][m.block_id].state = f[m.id][m.block_id].state
        /\ caches'[m.id][m.block_id].address = f[m.id][m.block_id].address
    BY <1>1, <1>5, InvalidateKeepsOwnLine
  <2> QED
    BY <1>2, <2>1
<1>7. cs = caches => SnoopedBut(caches, caches', m.address, m.id, m.block_id, {"BUSWRITE"})
  <2>1. {} \cup {"BUSWRITE"} = {"BUSWRITE"}
    OBVIOUS
  <2>2. SnoopedBut(caches, f, m.address, m.id, m.block_id, {}) =>
          SnoopedBut(caches, caches', m.address, m.id, m.block_id, {} \cup {"BUSWRITE"})
    BY <1>1, <1>5, FillAndInvalidate
  <2> QED
    BY <1>3, <2>1, <2>2
<1>8. SnoopedBut(caches, caches', m.address, m.id, m.block_id, {"BUSREAD", "BUSWRITE"})
  <2>1. {"BUSREAD"} \cup {"BUSWRITE"} = {"BUSREAD", "BUSWRITE"}
    OBVIOUS
  <2>2. SnoopedBut(caches, caches', m.address, m.id, m.block_id, {"BUSREAD"} \cup {"BUSWRITE"})
    BY <1>1, <1>4, <1>5, FillAndInvalidate
  <2> QED
    BY <2>1, <2>2
<1> QED
  BY <1>6, <1>7, <1>8

LEMMA WriteMissServes ==
  ASSUME TypeOK, NEW m \in Message, m.access = "WRITEMISS", process_writemiss(m)
  PROVE  HandlerServes(m)
<1>1. caches \in Caches /\ m.value \in Int
  BY DEF TypeOK, Caches, Message
<1>2. caches' = seek_invalidate(Fill(caches, m, "MODIFIED", m.value), m.address, m.id)
  BY DEF process_writemiss
<1>3. /\ caches'[m.id][m.block_id].address = m.address
      /\ caches'[m.id][m.block_id].state = "MODIFIED"
      /\ SnoopedBut(caches, caches', m.address, m.id, m.block_id, {"BUSWRITE"})
  BY <1>1, <1>2, StoreServes
<1>4. {"BUSWRITE"} \subseteq Lines!SnoopedEvents(m.access)
  BY DEF Lines!SnoopedEvents
<1>5. Lines!OwnEvent(m.access) = "WRITE" /\ Lines!FillStates(m.access) = {"MODIFIED"}
  BY DEF Lines!OwnEvent, Lines!FillStates
<1> QED
  BY <1>3, <1>4, <1>5, ServesOneLine, TableFacts

LEMMA IncrementServes ==
  ASSUME TypeOK, NEW m \in Message, m.access = "INCREMENT", process_increment(m)
  PROVE  HandlerServes(m)
<1> DEFINE a      == m.address
           owned  == AskOwner(m)
           shared == seek_shared(owned.caches, a, m.id)
           here   == Target(m).address = a
           fromMemory == get_data_from_memory(WriteBackFirst(m), a)
           Modify(cs, d) == seek_invalidate(Fill(cs, m, "MODIFIED", d + 1), a, m.id)
<1>1. m.id \in Core /\ m.block_id \in Block /\ caches \in Caches /\ fromMemory \in Int
  BY HandlerPreamble DEF Message, TypeOK, Caches
<1>2. /\ owned.caches \in Caches /\ owned.data \in Int
      /\ shared.caches \in Caches /\ shared.data \in Int
      /\ Snooped(caches, owned.caches, a, m.id, {"BUSREAD"})
      /\ Snooped(caches, shared.caches, a, m.id, {"BUSREAD"})
  BY SearchesSnoop
<1>3. Lines!SnoopedEvents(m.access) = {"BUSREAD", "BUSWRITE"}
  BY DEF Lines!SnoopedEvents
<1>4. Lines!OwnEvent(m.access) = "READ" /\ Lines!FillStates(m.access) = {"MODIFIED"}
  BY DEF Lines!OwnEvent, Lines!FillStates
<1>5. \/ /\ here /\ Target(m).state = "INVALID"
         /\ caches' = Fill(owned.caches, m, "EXCLUSIVE", fromMemory + 1)
      \/ /\ here /\ Target(m).state # "INVALID"
         /\ caches' = owned.caches
      \/ /\ ~here
         /\ \/ owned.data # -1 /\ caches' = Modify(owned.caches, owned.data)
            \/ shared.data # -1 /\ caches' = Modify(shared.caches, shared.data)
            \/ caches' = Modify(shared.caches, fromMemory)
  BY DEF process_increment, Valid
<1>6. \A cs \in Caches, d \in Int :
        /\ Snooped(caches, cs, a, m.id, {"BUSREAD"})
        /\ caches' = Modify(cs, d)
        => /\ caches'[m.id][m.block_id].address = m.address
           /\ caches'[m.id][m.block_id].state = "MODIFIED"
           /\ SnoopedBut(caches, caches', m.address, m.id, m.block_id, {"BUSREAD", "BUSWRITE"})
  <2> SUFFICES ASSUME NEW cs \in Caches, NEW d \in Int,
                      Snooped(caches, cs, a, m.id, {"BUSREAD"}),
                      caches' = Modify(cs, d)
               PROVE  /\ caches'[m.id][m.block_id].address = m.address
                      /\ caches'[m.id][m.block_id].state = "MODIFIED"
                      /\ SnoopedBut(caches, caches', m.address, m.id, m.block_id, {"BUSREAD", "BUSWRITE"})
    OBVIOUS
  <2> QED
    BY StoreServes
<1> HIDE DEF a, owned, shared, fromMemory, Modify
<1>7. CASE /\ here /\ Target(m).state = "INVALID"
           /\ caches' = Fill(owned.caches, m, "EXCLUSIVE", fromMemory + 1)
  <2>1. SnoopedBut(caches, caches', m.address, m.id, m.block_id, {"BUSREAD"})
    BY <1>1, <1>2, <1>7, SearchAndFill DEF a
  <2>2. caches'[m.id][m.block_id].address = m.address /\ caches'[m.id][m.block_id].state = "EXCLUSIVE"
    BY <1>2, <1>7, FillEffect
  <2> QED
    BY <1>3, <1>4, <1>7, <2>1, <2>2, ServesOneLine, TableFacts DEF Target, a
<1>8. CASE /\ here /\ Target(m).state # "INVALID"
           /\ caches' = owned.caches
  <2>1. SnoopedBut(caches, caches', m.address, m.id, m.block_id, {"BUSREAD"})
    BY <1>2, <1>8 DEF a, Snooped, SnoopedBut
  <2>2. /\ caches'[m.id][m.block_id].address = m.address
        /\ caches'[m.id][m.block_id].state = caches[m.id][m.block_id].state
    BY <1>1, <1>2, <1>8 DEF a, Snooped, Target
  <2> QED
    BY <1>3, <1>4, <1>8, <2>1, <2>2, ServesOneLine, TableFacts DEF Target, a
<1>9. CASE /\ ~here
           /\ \/ owned.data # -1 /\ caches' = Modify(owned.caches, owned.data)
              \/ shared.data # -1 /\ caches' = Modify(shared.caches, shared.data)
              \/ caches' = Modify(shared.caches, fromMemory)
  <2>1. /\ caches'[m.id][m.block_id].address = m.address
        /\ caches'[m.id][m.block_id].state = "MODIFIED"
        /\ SnoopedBut(caches, caches', m.address, m.id, m.block_id, {"BUSREAD", "BUSWRITE"})
    BY <1>1, <1>2, <1>6, <1>9
  <2> QED
    BY <1>3, <1>4, <1>9, <2>1, ServesOneLine DEF Target, a
<1> QED
  BY <1>5, <1>7, <1>8, <1>9

LEMMA TasksServe ==
  ASSUME TypeOK, NEW m \in Message,
         \/ m.access = "WRITEMISS" /\ process_writemiss(m)
         \/ m.access = "READMISS"  /\ process_readmiss(m)
         \/ m.access = "INCREMENT" /\ process_increment(m)
  PROVE  HandlerServes(m)
<1>1. CASE m.access = "WRITEMISS" /\ process_writemiss(m)
  BY <1>1, WriteMissServes
<1>2. CASE m.access = "READMISS" /\ process_readmiss(m)
  BY <1>2, ReadMissServes
<1>3. CASE m.access = "INCREMENT" /\ process_increment(m)
  BY <1>3, IncrementServes
<1> QED
  BY <1>1, <1>2, <1>3

(***************************************************************************)
(* The refinement.                                                         *)
(***************************************************************************)
\* A store that hits stays in the table: the line is writable and becomes
\* MODIFIED.
LEMMA HitIsSilentStore ==
  ASSUME TypeOK, NEW c \in Core, NEW i \in Block, NEW d, Writable(caches[c][i]),
         caches' = [caches EXCEPT ![c][i] = [@ EXCEPT !.state = "MODIFIED", !.data = d]]
  PROVE  Lines!SilentStore(c, i)
<1> DEFINE state == [k \in Core |-> [j \in Block |-> caches[k][j].state]]
           addr  == [k \in Core |-> [j \in Block |-> caches[k][j].address]]
<1>1. caches \in [Core -> [Block -> CacheBlock]]
  BY DEF TypeOK
<1>2. caches[c][i] \in CacheBlock /\ caches[c][i].state \in {"MODIFIED", "EXCLUSIVE"}
  BY <1>1 DEF Writable
<1>3. ASSUME NEW k \in Core, NEW j \in Block
      PROVE  /\ caches'[k][j].state = IF k = c /\ j = i THEN "MODIFIED" ELSE caches[k][j].state
             /\ caches'[k][j].address = caches[k][j].address
  <2>1. CASE k = c /\ j = i
    <3>1. caches'[k][j] = [caches[c][i] EXCEPT !.state = "MODIFIED", !.data = d]
      BY <1>1, <2>1
    <3>2. \A line \in CacheBlock :
            LET new == [line EXCEPT !.state = "MODIFIED", !.data = d]
            IN  new.state = "MODIFIED" /\ new.address = line.address
      BY DEF CacheBlock
    <3> QED
      BY <1>2, <2>1, <3>1, <3>2
  <2>2. CASE k # c \/ j # i
    BY <1>1, <2>2
  <2> QED
    BY <2>1, <2>2
<1>4. addr' = addr
  BY <1>3
<1>5. state' = [state EXCEPT ![c][i] = "MODIFIED"]
  <2>1. state' = [k \in Core |-> [j \in Block |->
                    IF k = c /\ j = i THEN "MODIFIED" ELSE caches[k][j].state]]
    BY <1>3
  <2>2. \A k \in Core : state[k] = [j \in Block |-> caches[k][j].state]
    OBVIOUS
  <2>3. [state EXCEPT ![c][i] = "MODIFIED"] =
          [k \in Core |-> [j \in Block |->
             IF k = c /\ j = i THEN "MODIFIED" ELSE caches[k][j].state]]
    BY <2>2
  <2> QED
    BY <2>1, <2>3
<1>6. state' = [state EXCEPT ![c][i] = Lines!transition(state[c][i], "WRITE")]
  <2>1. Lines!transition(state[c][i], "WRITE") = "MODIFIED"
    BY TableFacts
  <2> HIDE DEF state
  <2> QED
    BY <1>5, <2>1
<1> QED
  BY <1>2, <1>4, <1>6 DEF Lines!SilentStore

LEMMA StoreIsSilentStore ==
  ASSUME TypeOK, NEW c \in Core, NEW op, NEW a, NEW d, StoreCacheBlock(c, op, a, d)
  PROVE  UNCHANGED caches \/ \E i \in Block : Lines!SilentStore(c, i)
<1> DEFINE i == getCacheBlock_by_address(caches[c], a)
<1>1. \/ UNCHANGED caches
      \/ /\ i # NotFound
         /\ Writable(caches[c][i])
         /\ caches' = [caches EXCEPT ![c][i] = [@ EXCEPT !.state = "MODIFIED", !.data = d]]
  BY DEF StoreCacheBlock
<1>2. i # NotFound => i \in Block
  BY LookupFindsTheAddress
<1> HIDE DEF i
<1> QED
  BY <1>1, <1>2, HitIsSilentStore

\* Each step of the simulator is a step of MoesiLines or leaves the lines alone.
LEMMA StepIsALineStep ==
  ASSUME TypeOK, [Next]_vars
  PROVE  UNCHANGED caches \/ Lines!Next
<1>1. CASE process_tasks
  <2>1. PICK m \in Message : m = Head(queue)
    BY <1>1, HeadTailProperties DEF TypeOK, process_tasks
  <2>2. \/ m.access = "WRITEMISS" /\ process_writemiss(m)
        \/ m.access = "READMISS"  /\ process_readmiss(m)
        \/ m.access = "INCREMENT" /\ process_increment(m)
    BY <1>1, <2>1 DEF process_tasks
  <2>3. HandlerServes(m)
    BY <2>1, <2>2, TasksServe
  <2>4. /\ m.id \in Core /\ m.block_id \in Block /\ m.address \in Address
        /\ m.access \in {"READMISS", "WRITEMISS", "INCREMENT"}
    BY DEF Message, AccessType
  <2>5. Lines!Next
    BY <2>3, <2>4 DEF Lines!Next, HandlerServes
  <2> QED
    BY <2>5
<1>2. CASE join_cpu
  BY <1>2 DEF join_cpu, busVars
<1>3. ASSUME NEW c \in Core, cpu_thread(c)
      PROVE  UNCHANGED caches \/ Lines!Next
  <2>1. PICK a \in Address, d \in Int : \/ readCacheBlock(c, a)
                                       \/ StoreCacheBlock(c, "WRITE", a, d)
                                       \/ StoreCacheBlock(c, "INCR", a, d)
    BY <1>3, CpuThreadExecutes
  <2>2. CASE readCacheBlock(c, a)
    BY <2>2 DEF readCacheBlock, busVars
  <2>3. CASE StoreCacheBlock(c, "WRITE", a, d)
    BY <2>3, StoreIsSilentStore DEF Lines!Next
  <2>4. CASE StoreCacheBlock(c, "INCR", a, d)
    BY <2>4, StoreIsSilentStore DEF Lines!Next
  <2> QED
    BY <2>1, <2>2, <2>3, <2>4
<1>4. ASSUME NEW c \in Core, send_message(c) \/ wake_up(c)
      PROVE  UNCHANGED caches
  BY <1>4 DEF send_message, wake_up, busVars
<1>5. CASE UNCHANGED vars
  BY <1>5 DEF vars
<1> QED
  BY <1>1, <1>2, <1>3, <1>4, <1>5 DEF Next, cpu

LEMMA InitialLines == Init => Lines!Init
<1> SUFFICES ASSUME Init PROVE Lines!Init
  OBVIOUS
<1>1. caches = [c \in Core |-> [i \in Block |->
                  [state |-> "INVALID", address |-> NoAddress, data |-> 0]]]
  BY DEF Init, BusInit, initializeCache
<1>2. \A c \in Core, i \in Block :
        caches[c][i].state = "INVALID" /\ caches[c][i].address \notin Address
  BY <1>1, CacheAssumption
<1> QED
  BY <1>2 DEF Lines!Init

\* In every execution, with any number of cores and in both protocols, the
\* states of all cache lines move along the table of moesi.c.
THEOREM MoesiLinesImplemented == Spec => ImplementsMoesiLines
<1>1. TypeOK /\ [Next]_vars =>
        [Lines!Next]_<<[c \in Core |-> [i \in Block |-> caches[c][i].state]],
                       [c \in Core |-> [i \in Block |-> caches[c][i].address]]>>
  BY StepIsALineStep
<1> QED
  BY <1>1, TypeCorrect, InitialLines, PTL DEF Spec, ImplementsMoesiLines, Lines!Spec
=============================================================================
