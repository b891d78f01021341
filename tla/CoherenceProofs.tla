-------------------------- MODULE CoherenceProofs --------------------------
(***************************************************************************)
(* Proofs about module Coherence for every number of cores, size of cache, *)
(* set of addresses, length of queue and both protocols.                   *)
(***************************************************************************)
EXTENDS Coherence, TLAPS, WellFoundedInduction, SequenceTheorems

(***************************************************************************)
(* The searches.                                                           *)
(***************************************************************************)
\* The minimum that the searches take is a member of the set they found.
LEMMA MinIsMember ==
  ASSUME NEW S \in SUBSET Nat, S # {}
  PROVE  Min(S) \in S /\ \A y \in S : Min(S) <= y
<1> DEFINE less == {ss \in Nat \X Nat : ss[1] < ss[2]}
<1>1. IsWellFoundedOn(less, Nat)
  BY NatLessThanWellFounded DEF OpToRel
<1>2. PICK x \in S : \A y \in S : ~ (<<y, x>> \in less)
  BY <1>1, WFMin
<1>3. \A y \in Nat, z \in Nat : y < z => <<y, z>> \in less
  OBVIOUS
<1>4. \A y \in S : x <= y
  <2> SUFFICES ASSUME NEW y \in S, y < x PROVE FALSE
    OBVIOUS
  <2>1. x \in Nat /\ y \in Nat
    OBVIOUS
  <2>2. <<y, x>> \in less
    BY <2>1, <1>3
  <2> QED
    BY <2>2, <1>2
<1> QED
  BY <1>4 DEF Min

\* A lookup returns a line that holds the address, or NotFound if there is none.
LEMMA LookupFindsTheAddress ==
  ASSUME NEW cache, NEW a
  PROVE  LET i == getCacheBlock_by_address(cache, a)
         IN  /\ i \in Block \cup {NotFound}
             /\ i # NotFound <=> \E j \in Block : cache[j].address = a
             /\ i # NotFound => i \in Block /\ cache[i].address = a
<1> DEFINE found == {i \in Block : cache[i].address = a}
<1>1. found \in SUBSET Nat /\ NotFound \notin Block
  BY CacheAssumption DEF Block, NotFound
<1>2. found # {} => Min(found) \in found
  BY <1>1, MinIsMember
<1> QED
  BY <1>1, <1>2 DEF getCacheBlock_by_address

\* The policy always chooses a line of the cache.
LEMMA VictimIsALine ==
  ASSUME NEW cache
  PROVE  getBlockIdWithWriteBackPolicy(cache) \in Block
<1> DEFINE In(s) == {i \in Block : cache[i].state = s}
<1>1. \A s : In(s) \in SUBSET Nat
  BY CacheAssumption DEF Block
<1>2. \A s : In(s) # {} => Min(In(s)) \in Block
  <2> TAKE s
  <2> HAVE In(s) # {}
  <2>1. Min(In(s)) \in In(s)
    <3> HIDE DEF In
    <3> QED BY <1>1, MinIsMember
  <2> QED
    BY <2>1
<1>3. 0 \in Block
  BY CacheAssumption DEF Block
<1> QED
  BY <1>2, <1>3 DEF getBlockIdWithWriteBackPolicy

\* The core at which a search stops is one of those it looked for.
LEMMA LowestIsOneOfThem ==
  ASSUME NEW cores \in SUBSET Core, Lowest(cores) # {}
  PROVE  Min(Lowest(cores)) \in cores
<1>1. Core \subseteq Nat
  BY BusAssumption DEF Core
<1>2. Lowest(cores) \subseteq cores
  BY DEF Lowest
<1>3. Min(Lowest(cores)) \in Lowest(cores)
  BY <1>1, <1>2, MinIsMember
<1> QED
  BY <1>2, <1>3
(***************************************************************************)
(* Types of what the operators of the bus return.                          *)
(***************************************************************************)
Caches == [Core -> [Block -> CacheBlock]]

LEMMA LineForType ==
  ASSUME NEW cs \in Caches, NEW k \in Core, NEW a,
         getCacheBlock_by_address(cs[k], a) # NotFound
  PROVE  LineFor(cs, k, a) \in CacheBlock
BY LookupFindsTheAddress DEF LineFor, Caches

LEMMA SetStateType ==
  ASSUME NEW cs \in Caches, NEW cores \in SUBSET Core, NEW a, NEW s \in CacheState,
         \A k \in cores : getCacheBlock_by_address(cs[k], a) # NotFound
  PROVE  set_core_cache_block_state(cs, cores, a, s) \in Caches
<1> SUFFICES ASSUME NEW k \in Core
             PROVE  set_core_cache_block_state(cs, cores, a, s)[k] \in [Block -> CacheBlock]
  BY DEF set_core_cache_block_state, Caches
<1>1. cs[k] \in [Block -> CacheBlock]
  BY DEF Caches
<1>2. CASE k \in cores
  <2> DEFINE i == getCacheBlock_by_address(cs[k], a)
  <2>1. i \in Block
    BY <1>2, LookupFindsTheAddress
  <2>2. [cs[k] EXCEPT ![i].state = s] \in [Block -> CacheBlock]
    <3> HIDE DEF i
    <3> QED BY <1>1, <2>1 DEF CacheBlock
  <2> QED
    BY <1>2, <2>2 DEF set_core_cache_block_state
<1>3. CASE k \notin cores
  BY <1>1, <1>3 DEF set_core_cache_block_state
<1> QED
  BY <1>2, <1>3

\* A search returns the data of a line, or -1.
LEMMA SeekType ==
  ASSUME NEW cs \in Caches, NEW cores \in SUBSET Core, NEW a, NEW s \in CacheState,
         \A k \in cores : getCacheBlock_by_address(cs[k], a) # NotFound
  PROVE  /\ Seek(cs, a, Lowest(cores), s).caches \in Caches
         /\ Seek(cs, a, Lowest(cores), s).data \in Int
<1>1. Lowest(cores) \subseteq cores
  BY DEF Lowest
<1>2. set_core_cache_block_state(cs, Lowest(cores), a, s) \in Caches
  BY <1>1, SetStateType
<1>3. ASSUME Lowest(cores) # {}
      PROVE  LineFor(cs, Min(Lowest(cores)), a).data \in Int
  BY <1>3, LowestIsOneOfThem, LineForType DEF CacheBlock
<1> QED
  BY <1>2, <1>3 DEF Seek

LEMMA SeekOwnedType ==
  ASSUME NEW cs \in Caches, NEW a, NEW c
  PROVE  /\ seek_owned(cs, a, c).caches \in Caches
         /\ seek_owned(cs, a, c).data \in Int
<1> DEFINE cores == {k \in Holders(cs, a, c) : Dirty(LineFor(cs, k, a))}
<1>1. cores \in SUBSET Core /\ \A k \in cores : getCacheBlock_by_address(cs[k], a) # NotFound
  BY DEF Holders
<1>2. "OWNED" \in CacheState
  BY DEF CacheState
<1> HIDE DEF cores
<1>3. /\ Seek(cs, a, Lowest(cores), "OWNED").caches \in Caches
      /\ Seek(cs, a, Lowest(cores), "OWNED").data \in Int
  BY <1>1, <1>2, SeekType
<1> QED
  BY <1>3 DEF seek_owned, cores

LEMMA SeekSharedType ==
  ASSUME NEW cs \in Caches, NEW a, NEW c
  PROVE  /\ seek_shared(cs, a, c).caches \in Caches
         /\ seek_shared(cs, a, c).data \in Int
<1> DEFINE cores == {k \in Holders(cs, a, c) : Clean(LineFor(cs, k, a))}
<1>1. cores \in SUBSET Core /\ \A k \in cores : getCacheBlock_by_address(cs[k], a) # NotFound
  BY DEF Holders
<1>2. "SHARED" \in CacheState
  BY DEF CacheState
<1> HIDE DEF cores
<1>3. /\ Seek(cs, a, Lowest(cores), "SHARED").caches \in Caches
      /\ Seek(cs, a, Lowest(cores), "SHARED").data \in Int
  BY <1>1, <1>2, SeekType
<1> QED
  BY <1>3 DEF seek_shared, cores

LEMMA SeekInvalidateType ==
  ASSUME NEW cs \in Caches, NEW a, NEW c
  PROVE  seek_invalidate(cs, a, c) \in Caches
<1> DEFINE reached == {k \in Holders(cs, a, c) :
                         \A j \in Holders(cs, a, c) : j <= k => Valid(LineFor(cs, j, a))}
<1>1. reached \in SUBSET Core /\ \A k \in reached : getCacheBlock_by_address(cs[k], a) # NotFound
  BY DEF Holders
<1>2. "INVALID" \in CacheState
  BY DEF CacheState
<1> HIDE DEF reached
<1>3. set_core_cache_block_state(cs, reached, a, "INVALID") \in Caches
  BY <1>1, <1>2, SetStateType
<1> QED
  BY <1>3 DEF seek_invalidate, reached

LEMMA FillType ==
  ASSUME NEW cs \in Caches, NEW m \in Message, NEW s \in CacheState, NEW d \in Int
  PROVE  Fill(cs, m, s, d) \in Caches
BY DEF Fill, Caches, Message, CacheBlock

LEMMA MemoryTypes ==
  ASSUME NEW mem \in [MemAddress -> Int], NEW a \in Address, NEW d \in Int
  PROVE  /\ get_data_from_memory(mem, a) \in Int
         /\ set_data_in_memory(mem, a, d) \in [MemAddress -> Int]
BY DEF get_data_from_memory, set_data_in_memory
\* The write-back and the search for an owner that the handlers start with.
LEMMA HandlerPreamble ==
  ASSUME TypeOK, NEW m \in Message
  PROVE  /\ WriteBackFirst(m) \in [MemAddress -> Int]
         /\ get_data_from_memory(WriteBackFirst(m), m.address) \in Int
         /\ AskOwner(m).caches \in Caches
         /\ AskOwner(m).data \in Int
<1>1. caches \in Caches /\ memory \in [MemAddress -> Int]
  BY DEF TypeOK, Caches
<1>2. m.id \in Core /\ m.block_id \in Block /\ m.address \in Address
  BY DEF Message
<1>3. Target(m).data \in Int
  BY <1>1, <1>2 DEF Target, Caches, CacheBlock
<1>4. WriteBackFirst(m) \in [MemAddress -> Int]
  BY <1>1, <1>2, <1>3, MemoryTypes DEF WriteBackFirst, perform_wb
<1>5. AskOwner(m).caches \in Caches /\ AskOwner(m).data \in Int
  BY <1>1, SeekOwnedType DEF AskOwner
<1> QED
  BY <1>2, <1>4, <1>5, MemoryTypes

BusTypeOK == /\ caches \in Caches
             /\ memory \in [MemAddress -> Int]
             /\ INV \in [Core -> Nat]

LEMMA ReadMissType ==
  ASSUME TypeOK, NEW m \in Message, process_readmiss(m)
  PROVE  BusTypeOK'
<1> DEFINE a      == m.address
           mem    == WriteBackFirst(m)
           owned  == AskOwner(m)
           shared == seek_shared(owned.caches, a, m.id)
<1>1. /\ mem \in [MemAddress -> Int] /\ get_data_from_memory(mem, a) \in Int
      /\ owned.caches \in Caches /\ owned.data \in Int
  BY HandlerPreamble
<1>2. shared.caches \in Caches /\ shared.data \in Int
  BY <1>1, SeekSharedType
<1>3. memory' = mem /\ INV' = INV
  BY DEF process_readmiss
<1>4. \/ caches' = Fill(owned.caches, m, "EXCLUSIVE", get_data_from_memory(mem, a))
      \/ caches' = owned.caches
      \/ owned.data # -1 /\ caches' = Fill(owned.caches, m, "SHARED", owned.data)
      \/ shared.data # -1 /\ caches' = Fill(shared.caches, m, "SHARED", shared.data)
      \/ caches' = Fill(shared.caches, m, "EXCLUSIVE", get_data_from_memory(mem, a))
  BY DEF process_readmiss
<1>5. {"EXCLUSIVE", "SHARED"} \subseteq CacheState
  BY DEF CacheState
<1> HIDE DEF a, mem, owned, shared
<1>6. caches' \in Caches
  BY <1>1, <1>2, <1>4, <1>5, FillType
<1> QED
  BY <1>1, <1>3, <1>6 DEF BusTypeOK, TypeOK

LEMMA WriteMissType ==
  ASSUME TypeOK, NEW m \in Message, process_writemiss(m)
  PROVE  BusTypeOK'
<1>1. memory' = WriteBackFirst(m) /\ WriteBackFirst(m) \in [MemAddress -> Int]
  BY HandlerPreamble DEF process_writemiss
<1>2. INV' \in [Core -> Nat]
  BY DEF process_writemiss, TypeOK, Message
<1>3. Fill(caches, m, "MODIFIED", m.value) \in Caches
  <2>1. caches \in Caches /\ m.value \in Int /\ "MODIFIED" \in CacheState
    BY DEF TypeOK, Caches, Message, CacheState
  <2> QED
    BY <2>1, FillType
<1>4. caches' \in Caches
  BY <1>3, SeekInvalidateType DEF process_writemiss
<1> QED
  BY <1>1, <1>2, <1>4 DEF BusTypeOK

LEMMA IncrementType ==
  ASSUME TypeOK, NEW m \in Message, process_increment(m)
  PROVE  BusTypeOK'
<1> DEFINE a      == m.address
           mem    == WriteBackFirst(m)
           owned  == AskOwner(m)
           shared == seek_shared(owned.caches, a, m.id)
           Modify(cs, d) == seek_invalidate(Fill(cs, m, "MODIFIED", d + 1), a, m.id)
<1>1. /\ mem \in [MemAddress -> Int] /\ get_data_from_memory(mem, a) \in Int
      /\ owned.caches \in Caches /\ owned.data \in Int
  BY HandlerPreamble
<1>2. shared.caches \in Caches /\ shared.data \in Int
  BY <1>1, SeekSharedType
<1>3. memory' = mem /\ INV' \in [Core -> Nat]
  BY DEF process_increment, TypeOK, Message
<1>4. \/ caches' = Fill(owned.caches, m, "EXCLUSIVE", get_data_from_memory(mem, a) + 1)
      \/ caches' = owned.caches
      \/ owned.data # -1 /\ caches' = Modify(owned.caches, owned.data)
      \/ shared.data # -1 /\ caches' = Modify(shared.caches, shared.data)
      \/ caches' = Modify(shared.caches, get_data_from_memory(mem, a))
  BY DEF process_increment
<1>5. {"EXCLUSIVE", "MODIFIED"} \subseteq CacheState
  BY DEF CacheState
<1>6. \A cs \in Caches, d \in Int : Modify(cs, d) \in Caches
  <2> TAKE cs \in Caches, d \in Int
  <2>1. Fill(cs, m, "MODIFIED", d + 1) \in Caches
    BY <1>5, FillType
  <2> QED
    BY <2>1, SeekInvalidateType
<1> HIDE DEF a, mem, owned, shared, Modify
<1>7. caches' \in Caches
  BY <1>1, <1>2, <1>4, <1>5, <1>6, FillType
<1> QED
  BY <1>1, <1>3, <1>7 DEF BusTypeOK
(***************************************************************************)
(* Type correctness.                                                       *)
(***************************************************************************)
\* A cache operation ends in one of two ways.
LEMMA MissType ==
  ASSUME TypeOK, NEW c \in Core, NEW op \in Operation, NEW a \in Address,
         NEW d \in Int, NEW i \in Block, Miss(c, op, a, d, i)
  PROVE  /\ request' \in [Core -> Message \cup {NoRequest}]
         /\ pc' \in [Core -> {"ready", "sending", "sleeping"}]
         /\ \A k \in Core : pc'[k] # "ready" => request'[k] \in Message /\ request'[k].id = k
<1> DEFINE m == [id |-> c, access |-> AccessOf(op), address |-> a, value |-> d, block_id |-> i]
<1>1. AccessOf(op) \in AccessType
  BY DEF AccessOf, Operation, AccessType
<1>2. m \in Message /\ m.id = c
  BY <1>1 DEF Message
<1>3. request' = [request EXCEPT ![c] = m] /\ pc' = [pc EXCEPT ![c] = "sending"]
  BY DEF Miss
<1> HIDE DEF m
<1> QED
  BY <1>2, <1>3 DEF TypeOK

LEMMA CompleteType ==
  ASSUME TypeOK, NEW c \in Core, NEW op \in Operation, Complete(c, op)
  PROVE  /\ request' \in [Core -> Message \cup {NoRequest}]
         /\ pc' \in [Core -> {"ready", "sending", "sleeping"}]
         /\ \A k \in Core : pc'[k] # "ready" => request'[k] \in Message /\ request'[k].id = k
         /\ responses' \in [Core -> [Operation -> Nat]]
BY DEF TypeOK, Complete

LEMMA ReadType ==
  ASSUME TypeOK, NEW c \in Core, NEW a \in Address, readCacheBlock(c, a),
         UNCHANGED <<queue, main>>
  PROVE  TypeOK'
<1> DEFINE i == getCacheBlock_by_address(caches[c], a)
<1>1. i # NotFound => i \in Block
  BY LookupFindsTheAddress
<1>2. getBlockIdWithWriteBackPolicy(caches[c]) \in Block
  BY VictimIsALine
<1>3. "READ" \in Operation /\ 0 \in Nat
  BY DEF Operation
<1>4. BusTypeOK'
  BY DEF readCacheBlock, busVars, BusTypeOK, TypeOK, Caches
<1>5. again' \in [Core -> BOOLEAN]
  BY DEF readCacheBlock, TypeOK
<1>6. CASE Complete(c, "READ")
  BY <1>3, <1>4, <1>5, <1>6, CompleteType DEF TypeOK, BusTypeOK, Caches
<1>7. CASE \E j \in Block : Miss(c, "READ", a, 0, j) /\ UNCHANGED responses
  BY <1>3, <1>4, <1>5, <1>7, MissType DEF TypeOK, BusTypeOK, Caches
<1> QED
  BY <1>1, <1>2, <1>6, <1>7 DEF readCacheBlock

LEMMA StoreType ==
  ASSUME TypeOK, NEW c \in Core, NEW op \in Operation, NEW a \in Address, NEW d \in Int,
         StoreCacheBlock(c, op, a, d), UNCHANGED <<queue, main>>
  PROVE  TypeOK'
<1> DEFINE i == getCacheBlock_by_address(caches[c], a)
<1>1. i # NotFound => i \in Block
  BY LookupFindsTheAddress
<1>2. getBlockIdWithWriteBackPolicy(caches[c]) \in Block
  BY VictimIsALine
<1>3. memory' = memory /\ INV' = INV /\ again' = again
  BY DEF StoreCacheBlock
<1>4. \/ /\ i # NotFound
         /\ caches' = [caches EXCEPT ![c][i] = [@ EXCEPT !.state = "MODIFIED", !.data = d]]
         /\ Complete(c, op)
      \/ /\ \E j \in Block : Miss(c, op, a, d, j)
         /\ UNCHANGED <<caches, responses>>
  BY <1>1, <1>2 DEF StoreCacheBlock
<1> HIDE DEF i
<1>5. caches' \in Caches
  <2>1. caches \in Caches /\ "MODIFIED" \in CacheState
    BY DEF TypeOK, Caches, CacheState
  <2>2. ASSUME i \in Block
        PROVE  [caches EXCEPT ![c][i] = [@ EXCEPT !.state = "MODIFIED", !.data = d]] \in Caches
    <3>1. caches[c][i] \in CacheBlock
      BY <2>1, <2>2 DEF Caches
    <3>2. [caches[c][i] EXCEPT !.state = "MODIFIED", !.data = d] \in CacheBlock
      BY <2>1, <3>1 DEF CacheBlock
    <3> QED
      BY <2>1, <2>2, <3>2 DEF Caches
  <2> QED
    BY <1>1, <1>4, <2>1, <2>2
<1>6. BusTypeOK'
  BY <1>3, <1>5 DEF BusTypeOK, TypeOK
<1>7. CASE Complete(c, op)
  BY <1>3, <1>6, <1>7, CompleteType DEF TypeOK, BusTypeOK, Caches
<1>8. CASE \E j \in Block : Miss(c, op, a, d, j) /\ UNCHANGED responses
  BY <1>3, <1>6, <1>8, MissType DEF TypeOK, BusTypeOK, Caches
<1> QED
  BY <1>4, <1>7, <1>8

\* What one turn of the loop of a core executes, generated or entered.
LEMMA CpuThreadExecutes ==
  ASSUME NEW c \in Core, cpu_thread(c)
  PROVE  \E a \in Address, d \in Int : \/ readCacheBlock(c, a)
                                      \/ StoreCacheBlock(c, "WRITE", a, d)
                                      \/ StoreCacheBlock(c, "INCR", a, d)
<1>1. PICK instr \in get_random_instruction \cup set_instruction : execute_instruction(c, instr)
  BY DEF cpu_thread
<1>2. instr.address \in Address /\ instr.data \in Int
  <2>1. WriteData \subseteq Int /\ EnteredData \subseteq Int /\ 0 \in Int
    BY SimulatorAssumption
  <2>2. MemAddress \subseteq Address
    BY BusAssumption
  <2> QED
    BY <2>1, <2>2 DEF get_random_instruction, set_instruction
<1> QED
  BY <1>1, <1>2 DEF execute_instruction, writeCacheBlock, write_INCR_CacheBlock

\* Every action of a core thread, of the bus and of main.
LEMMA CpuThreadType ==
  ASSUME TypeOK, NEW c \in Core, cpu_thread(c)
  PROVE  TypeOK'
<1>1. "WRITE" \in Operation /\ "INCR" \in Operation
  BY DEF Operation
<1>2. UNCHANGED <<queue, main>>
  BY DEF cpu_thread
<1>3. PICK a \in Address, d \in Int : \/ readCacheBlock(c, a)
                                     \/ StoreCacheBlock(c, "WRITE", a, d)
                                     \/ StoreCacheBlock(c, "INCR", a, d)
  BY CpuThreadExecutes
<1>4. CASE readCacheBlock(c, a)
  BY <1>2, <1>4, ReadType
<1>5. CASE StoreCacheBlock(c, "WRITE", a, d)
  BY <1>1, <1>2, <1>5, StoreType
<1>6. CASE StoreCacheBlock(c, "INCR", a, d)
  BY <1>1, <1>2, <1>6, StoreType
<1> QED
  BY <1>3, <1>4, <1>5, <1>6

LEMMA SendType ==
  ASSUME TypeOK, NEW c \in Core, send_message(c)
  PROVE  TypeOK'
<1>1. request[c] \in Message /\ queue \in Seq(Message)
  BY DEF TypeOK, send_message
<1>2. queue' \in Seq(Message)
  BY <1>1, AppendProperties DEF send_message
<1> QED
  BY <1>2 DEF TypeOK, send_message, busVars

LEMMA WakeUpType ==
  ASSUME TypeOK, NEW c \in Core, wake_up(c)
  PROVE  TypeOK'
<1>1. request[c] \in Message
  BY DEF TypeOK, wake_up
<1>2. request[c].address \in Address /\ OperationOf(request[c].access) \in Operation
  BY <1>1 DEF Message, AccessType, OperationOf, Operation
<1>3. UNCHANGED <<caches, memory, INV, queue, main>>
  BY DEF wake_up, busVars
<1>4. CASE /\ Miss(c, "READ", request[c].address, 0, getBlockIdWithWriteBackPolicy(caches[c]))
           /\ again' = [again EXCEPT ![c] = FALSE]
           /\ UNCHANGED responses
  <2>1. "READ" \in Operation /\ getBlockIdWithWriteBackPolicy(caches[c]) \in Block
    BY VictimIsALine DEF Operation
  <2> QED
    BY <1>2, <1>3, <1>4, <2>1, MissType DEF TypeOK
<1>5. CASE Complete(c, OperationOf(request[c].access)) /\ UNCHANGED again
  BY <1>2, <1>3, <1>5, CompleteType DEF TypeOK
<1> QED
  BY <1>4, <1>5 DEF wake_up

LEMMA ProcessTasksType ==
  ASSUME TypeOK, process_tasks
  PROVE  TypeOK'
<1> DEFINE m == Head(queue)
<1>1. m \in Message /\ queue' \in Seq(Message)
  BY HeadTailProperties DEF TypeOK, process_tasks
<1>2. process_writemiss(m) \/ process_readmiss(m) \/ process_increment(m)
  BY DEF process_tasks
<1> HIDE DEF m
<1>3. BusTypeOK'
  BY <1>1, <1>2, WriteMissType, ReadMissType, IncrementType
<1> QED
  BY <1>1, <1>3 DEF TypeOK, BusTypeOK, Caches, process_tasks, cpuVars

LEMMA JoinType ==
  ASSUME TypeOK, join_cpu
  PROVE  TypeOK'
<1>1. main' \in 0 .. N_CPU
  BY BusAssumption DEF join_cpu, Core
<1> QED
  BY <1>1 DEF TypeOK, join_cpu, busVars, cpuVars

LEMMA InitType == Init => TypeOK
<1> SUFFICES ASSUME Init PROVE TypeOK
  OBVIOUS
<1>1. caches \in [Core -> [Block -> CacheBlock]]
  BY DEF Init, BusInit, initializeCache, CacheBlock, CacheState
<1>2. memory \in [MemAddress -> Int]
  <2>1. memory \in [MemAddress -> MemoryData]
    BY DEF Init, BusInit, memory_init
  <2>2. MemoryData \subseteq Int
    BY SimulatorAssumption
  <2> QED
    BY <2>1, <2>2
<1>3. queue \in Seq(Message) /\ main \in 0 .. N_CPU
  BY EmptySeq, BusAssumption DEF Init
<1> QED
  BY <1>1, <1>2, <1>3 DEF Init, BusInit, TypeOK

LEMMA NextType == TypeOK /\ [Next]_vars => TypeOK'
<1> SUFFICES ASSUME TypeOK, [Next]_vars PROVE TypeOK'
  OBVIOUS
<1>1. CASE process_tasks
  BY <1>1, ProcessTasksType
<1>2. CASE join_cpu
  BY <1>2, JoinType
<1>3. ASSUME NEW c \in Core, cpu(c) PROVE TypeOK'
  BY <1>3, CpuThreadType, SendType, WakeUpType DEF cpu
<1>4. CASE UNCHANGED vars
  BY <1>4 DEF TypeOK, vars
<1> QED
  BY <1>1, <1>2, <1>3, <1>4 DEF Next

\* The variables keep their types, and every request that is sent is for an
\* address of the memory and a line of its sender's cache: the indices the bus
\* uses are always those of lines.
THEOREM TypeCorrect == Spec => []TypeOK
BY InitType, NextType, PTL DEF Spec
=============================================================================
