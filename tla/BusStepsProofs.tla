--------------------------- MODULE BusStepsProofs ---------------------------
(***************************************************************************)
(* Proofs about module BusSteps, in which the steps of a search interleave *)
(* with the stores of the cores, for every number of cores, size of cache  *)
(* and length of queue and both protocols.                                 *)
(***************************************************************************)
EXTENDS BusSteps, ServiceProofs

(***************************************************************************)
(* The inductive invariant.                                                *)
(***************************************************************************)
Task == [at : {"receive", "state", "data", "set", "return"}, search : Search,
         m : Message \cup {NoRequest}, core : 0 .. N_CPU, data : Int, counts : BOOLEAN]

\* The line that the search has looked up, as it is by now.
Now == LineFor(caches, task.core, task.m.address)

\* A line that was copied can only have been stored into since, so that the
\* state the search is about to set is a step of the table.
StillFits ==
  task.at \in {"data", "set"} =>
    CASE task.search = "seek_owned"      -> Dirty(Now)
      [] task.search = "seek_shared"     -> Clean(Now) \/ Now.state = "MODIFIED"
      [] task.search = "seek_invalidate" -> Valid(Now)

\* The request of the core has been served, and the core has not woken up.
Answered(c) == pc[c] = "sleeping" /\ InQueue(c) = {} /\ ~Serves(c)

\* Once a handler invalidates, the line of its core is filled.
FilledFirst ==
  task # Idle =>
    IF task.search = "seek_invalidate"
    THEN /\ Target(task.m).address = task.m.address
         /\ task.m.access = "WRITEMISS" =>
              Dirty(Target(task.m)) /\ Target(task.m).data = task.m.value
    ELSE task.m.access # "WRITEMISS"

\* A core that has been answered does not store: its copied line is still clean.
NoStoreByAnswered ==
  task.at \in {"data", "set"} /\ task.search = "seek_shared" /\ Answered(task.core) => Clean(Now)

StepsTypes ==
  /\ StepsTypeOK
  /\ request \in [Core -> Message \cup {NoRequest}]
  /\ task \in Task

StepsInv ==
  /\ StepsTypes
  /\ OneRequestInFlight
  /\ AnsweredLineIsKept
  /\ StillFits
  /\ FilledFirst
  /\ NoStoreByAnswered

(***************************************************************************)
(* The loop of a search.                                                   *)
(***************************************************************************)
LEMMA LookFromFinds ==
  ASSUME NEW cs, NEW m, NEW k \in Nat, NEW next, next = LookFrom(cs, m, k)
  PROVE  /\ next \in 0 .. N_CPU /\ (next = N_CPU <=> next \notin Core)
         /\ next # N_CPU => next \in Holders(cs, m.address, m.id) /\ k <= next
         /\ \A j \in Holders(cs, m.address, m.id) : k <= j => next <= j /\ next # N_CPU
<1> DEFINE H == Holders(cs, m.address, m.id)
           S == {N_CPU} \cup {j \in H : k <= j}
<1>1. H \subseteq Core /\ Core \subseteq Nat /\ N_CPU \in Nat /\ \A j \in Core : j < N_CPU /\ j >= 0
  BY BusAssumption DEF Holders, Core
<1>2. next = Min(S)
  BY DEF LookFrom
<1> HIDE DEF H
<1>3. S \in SUBSET Nat /\ S # {}
  BY <1>1
<1>4. Min(S) \in S /\ \A y \in S : Min(S) <= y
  <2> HIDE DEF S
  <2> QED
    BY <1>3, MinIsMember
<1>5. next \in Nat /\ next <= N_CPU
  BY <1>1, <1>2, <1>3, <1>4
<1>6. next \in 0 .. N_CPU /\ (next = N_CPU <=> next \notin Core)
  <2>1. next \in S
    BY <1>2, <1>4
  <2> QED
    BY <1>1, <1>5, <2>1
<1>7. next # N_CPU => next \in H /\ k <= next
  BY <1>2, <1>4
<1>8. ASSUME NEW j \in H, k <= j
      PROVE  next <= j /\ next # N_CPU
  <2>1. next <= j
    BY <1>2, <1>4, <1>8
  <2>2. j < N_CPU /\ j \in Nat
    BY <1>1, <1>8
  <2> QED
    BY <1>1, <1>5, <2>1, <2>2
<1> QED
  BY <1>6, <1>7, <1>8 DEF H

\* What the loop knows of the task it has advanced.
Advanced(t, s, cs) ==
  /\ task' \in Task
  /\ task'.m = t.m /\ task'.search = s /\ task'.data = -1 /\ task'.counts = t.counts
  /\ task'.at \in {"state", "return"}
  /\ task'.at = "return" <=> task'.core = N_CPU
  /\ task'.at = "state" => task'.core \in Holders(cs, t.m.address, t.m.id)

LEMMA BeginAdvances ==
  ASSUME NEW t \in Task, NEW s \in Search, NEW cs, Begin(t, s, cs)
  PROVE  Advanced(t, s, cs) /\ task'.core = LookFrom(cs, t.m, 0)
<1> DEFINE first == LookFrom(cs, t.m, 0)
<1>1. task' = [t EXCEPT !.search = s, !.core = first, !.data = -1,
                        !.at = IF first = N_CPU THEN "return" ELSE "state"]
  BY DEF Begin
<1>2. /\ first \in 0 .. N_CPU
      /\ first # N_CPU => first \in Holders(cs, t.m.address, t.m.id)
  BY LookFromFinds
<1> HIDE DEF first
<1>3. task' \in Task
  <2> DEFINE at == IF first = N_CPU THEN "return" ELSE "state"
  <2>1. at \in {"receive", "state", "data", "set", "return"} /\ -1 \in Int
    OBVIOUS
  <2>2. task' = [t EXCEPT !.search = s, !.core = first, !.data = -1, !.at = at]
    BY <1>1
  <2> HIDE DEF at
  <2> QED
    BY <1>2, <2>1, <2>2 DEF Task
<1>4. /\ task'.m = t.m /\ task'.search = s /\ task'.data = -1 /\ task'.counts = t.counts
      /\ task'.core = first /\ task'.at = IF first = N_CPU THEN "return" ELSE "state"
  BY <1>1 DEF Task
<1> QED
  BY <1>2, <1>3, <1>4 DEF Advanced, first

LEMMA NextCoreAdvances ==
  ASSUME task \in Task, NextCore
  PROVE  Advanced(task, task.search, caches) /\ task'.core = LookFrom(caches, task.m, task.core + 1)
<1> DEFINE next == LookFrom(caches, task.m, task.core + 1)
<1>1. task' = [task EXCEPT !.core = next, !.data = -1,
                           !.at = IF next = N_CPU THEN "return" ELSE "state"]
  BY DEF NextCore
<1>2. task.core + 1 \in Nat /\ task.search \in Search
  BY BusAssumption DEF Task
<1>3. /\ next \in 0 .. N_CPU
      /\ next # N_CPU => next \in Holders(caches, task.m.address, task.m.id)
  BY <1>2, LookFromFinds
<1> HIDE DEF next
<1>4. task' \in Task
  <2> DEFINE at == IF next = N_CPU THEN "return" ELSE "state"
  <2>1. at \in {"receive", "state", "data", "set", "return"} /\ -1 \in Int
    OBVIOUS
  <2>2. task' = [task EXCEPT !.core = next, !.data = -1, !.at = at]
    BY <1>1
  <2> HIDE DEF at
  <2> QED
    BY <1>3, <2>1, <2>2 DEF Task
<1>5. /\ task'.m = task.m /\ task'.search = task.search /\ task'.data = -1
      /\ task'.counts = task.counts
      /\ task'.core = next /\ task'.at = IF next = N_CPU THEN "return" ELSE "state"
  BY <1>1 DEF Task
<1> QED
  BY <1>3, <1>4, <1>5 DEF Advanced, next

LEMMA ReturnReturns ==
  ASSUME task \in Task, NEW d \in Int, Return(d)
  PROVE  /\ task' \in Task /\ task'.at = "return" /\ task'.data = d
         /\ task'.m = task.m /\ task'.search = task.search /\ task'.core = task.core
         /\ task'.counts = task.counts
BY DEF Return, Task

\* Addresses alone decide which cores hold an address.
LEMMA SameHolders ==
  ASSUME NEW cs, NEW r, NEW a, NEW c,
         \A k \in Core \ {c}, i \in Block : r[k][i].address = cs[k][i].address
  PROVE  /\ Holders(r, a, c) = Holders(cs, a, c)
         /\ \A k \in Core \ {c} :
              getCacheBlock_by_address(r[k], a) = getCacheBlock_by_address(cs[k], a)
<1>1. ASSUME NEW k \in Core \ {c}
      PROVE  getCacheBlock_by_address(r[k], a) = getCacheBlock_by_address(cs[k], a)
  BY SameLookup
<1> QED
  BY <1>1 DEF Holders

(***************************************************************************)
(* The steps of a core on its own cache.                                   *)
(***************************************************************************)
\* Line by line, what a store may do to the caches.
StoredInto(c) ==
  /\ caches' \in Caches
  /\ \A k \in Core \ {c} : caches'[k] = caches[k]
  /\ \A i \in Block : /\ caches'[c][i].address = caches[c][i].address
                      /\ \/ caches'[c][i].state = caches[c][i].state
                         \/ caches'[c][i].state = "MODIFIED"

\* A step of core c that sends nothing: an instruction that starts or ends, a
\* part of a store, a sleep that ends.
LocalStep(c) ==
  /\ pc[c] # "sleeping" \/ (InQueue(c) = {} /\ ~Serves(c))
  /\ pc' \in [Core -> {"ready", "hit", "stored", "sending", "sleeping"}]
  /\ request' \in [Core -> Message \cup {NoRequest}]
  /\ pc'[c] # "sleeping"
  /\ pc'[c] # "ready" => request'[c] \in Message /\ request'[c].id = c
  /\ \A k \in Core \ {c} : pc'[k] = pc[k] /\ request'[k] = request[k]
  /\ UNCHANGED <<memory, INV, queue, task>>
  /\ StoredInto(c)

LEMMA NothingStored ==
  ASSUME StepsTypes, NEW c \in Core, UNCHANGED caches
  PROVE  StoredInto(c)
BY DEF StoredInto, StepsTypes, StepsTypeOK, Caches

\* The two ways in which an operation goes on.
LEMMA MissGoesOn ==
  ASSUME StepsTypes, NEW c \in Core, NEW op \in Operation, NEW a \in Address, NEW d \in Int,
         NEW i \in Block, NEW place \in {"hit", "sending"},
         request' = [request EXCEPT ![c] =
           [id |-> c, access |-> AccessOf(op), address |-> a, value |-> d, block_id |-> i]],
         pc' = [pc EXCEPT ![c] = place]
  PROVE  /\ pc' \in [Core -> {"ready", "hit", "stored", "sending", "sleeping"}]
         /\ request' \in [Core -> Message \cup {NoRequest}]
         /\ pc'[c] = place /\ request'[c] \in Message /\ request'[c].id = c
         /\ \A k \in Core \ {c} : pc'[k] = pc[k] /\ request'[k] = request[k]
<1> DEFINE m == [id |-> c, access |-> AccessOf(op), address |-> a, value |-> d, block_id |-> i]
<1>1. AccessOf(op) \in AccessType
  BY DEF AccessOf, Operation, AccessType
<1>2. m \in Message /\ m.id = c
  BY <1>1 DEF Message
<1> HIDE DEF m
<1>3. /\ pc \in [Core -> {"ready", "hit", "stored", "sending", "sleeping"}]
      /\ request \in [Core -> Message \cup {NoRequest}]
  BY DEF StepsTypes, StepsTypeOK
<1>4. request' = [request EXCEPT ![c] = m] /\ pc' = [pc EXCEPT ![c] = place]
  BY DEF m
<1> QED
  BY <1>2, <1>3, <1>4

LEMMA EndGoesOn ==
  ASSUME StepsTypes, NEW c \in Core, NEW op, Complete(c, op)
  PROVE  /\ pc' \in [Core -> {"ready", "hit", "stored", "sending", "sleeping"}]
         /\ request' \in [Core -> Message \cup {NoRequest}]
         /\ pc'[c] = "ready"
         /\ \A k \in Core \ {c} : pc'[k] = pc[k] /\ request'[k] = request[k]
BY DEF Complete, StepsTypes, StepsTypeOK

\* A turn of the loop that does not hit with a store leaves the caches alone.
LEMMA NoHitIsLocal ==
  ASSUME StepsTypes, NEW c \in Core, pc[c] = "ready",
         NEW instr \in get_random_instruction \cup set_instruction,
         ~StoreHits(c, instr), execute_instruction(c, instr), UNCHANGED <<queue, task>>
  PROVE  LocalStep(c) /\ pc'[c] \in {"ready", "sending"} /\ UNCHANGED caches
<1> DEFINE a == instr.address
           d == instr.data
           i == getCacheBlock_by_address(caches[c], a)
           v == getBlockIdWithWriteBackPolicy(caches[c])
<1>1. a \in Address /\ d \in Int /\ 0 \in Int
  <2>1. WriteData \subseteq Int /\ EnteredData \subseteq Int /\ 0 \in Int
    BY SimulatorAssumption
  <2>2. MemAddress \subseteq Address
    BY BusAssumption
  <2> QED
    BY <2>1, <2>2 DEF get_random_instruction, set_instruction
<1>2. (i # NotFound => i \in Block) /\ v \in Block
  BY LookupFindsTheAddress, VictimIsALine
<1>3. {"READ", "WRITE", "INCR"} \subseteq Operation
  BY DEF Operation
<1>4. /\ UNCHANGED <<caches, memory, INV>>
      /\ \E op \in Operation :
           \/ Complete(c, op)
           \/ i # NotFound /\ (Miss(c, op, a, d, i) \/ Miss(c, op, a, 0, i))
           \/ Miss(c, op, a, d, v) \/ Miss(c, op, a, 0, v)
  <2>1. CASE instr.op = "READ" /\ readCacheBlock(c, a)
    BY <1>3, <2>1 DEF readCacheBlock, busVars
  <2>2. CASE instr.op = "WRITE" /\ StoreCacheBlock(c, "WRITE", a, d)
    BY <1>3, <2>2 DEF StoreCacheBlock, StoreHits
  <2>3. CASE instr.op = "INCR" /\ StoreCacheBlock(c, "INCR", a, d)
    BY <1>3, <2>3 DEF StoreCacheBlock, StoreHits
  <2> QED
    BY <2>1, <2>2, <2>3 DEF execute_instruction, writeCacheBlock, write_INCR_CacheBlock
<1> HIDE DEF a, d, i, v
<1>5. StoredInto(c)
  BY <1>4, NothingStored
<1>6. PICK op \in Operation :
        \/ Complete(c, op)
        \/ \E j \in Block, e \in Int : Miss(c, op, a, e, j)
  BY <1>1, <1>2, <1>4
<1>7. CASE Complete(c, op)
  BY <1>4, <1>5, <1>7, EndGoesOn DEF LocalStep
<1>8. ASSUME NEW j \in Block, NEW e \in Int, Miss(c, op, a, e, j)
      PROVE  LocalStep(c) /\ pc'[c] = "sending"
  <2>1. /\ request' = [request EXCEPT ![c] =
             [id |-> c, access |-> AccessOf(op), address |-> a, value |-> e, block_id |-> j]]
        /\ pc' = [pc EXCEPT ![c] = "sending"]
    BY <1>8 DEF Miss
  <2> QED
    BY <1>1, <1>4, <1>5, <2>1, MissGoesOn DEF LocalStep
<1> QED
  BY <1>4, <1>6, <1>7, <1>8

LEMMA CpuStepIsLocal ==
  ASSUME StepsTypes, NEW c \in Core, cpu_step(c)
  PROVE  LocalStep(c) /\ UNCHANGED caches /\ (before' = NoBefore \/ (before' = before /\ pc'[c] # "hit"))
         /\ pc'[c] # "stored"
<1>1. pc[c] = "ready" /\ UNCHANGED <<queue, task>>
  BY DEF cpu_step
<1>2. PICK instr \in get_random_instruction \cup set_instruction :
        \/ StoreHits(c, instr) /\ BeginStore(c, instr)
        \/ ~StoreHits(c, instr) /\ execute_instruction(c, instr) /\ UNCHANGED before
  BY DEF cpu_step
<1>3. CASE StoreHits(c, instr) /\ BeginStore(c, instr)
  <2> DEFINE i == getCacheBlock_by_address(caches[c], instr.address)
  <2>1. i \in Block
    BY <1>3, LookupFindsTheAddress DEF StoreHits
  <2>2. instr.op \in Operation /\ instr.address \in Address /\ instr.data \in Int
    <3>1. WriteData \subseteq Int /\ EnteredData \subseteq Int /\ 0 \in Int
      BY SimulatorAssumption
    <3>2. MemAddress \subseteq Address
      BY BusAssumption
    <3> QED
      BY <3>1, <3>2 DEF get_random_instruction, set_instruction, Operation
  <2>3. /\ request' = [request EXCEPT ![c] =
             [id |-> c, access |-> AccessOf(instr.op), address |-> instr.address,
              value |-> instr.data, block_id |-> i]]
        /\ pc' = [pc EXCEPT ![c] = "hit"]
        /\ before' = NoBefore
        /\ UNCHANGED <<caches, memory, INV>>
    BY <1>3 DEF BeginStore, busVars
  <2> HIDE DEF i
  <2>4. /\ pc' \in [Core -> {"ready", "hit", "stored", "sending", "sleeping"}]
        /\ request' \in [Core -> Message \cup {NoRequest}]
        /\ pc'[c] = "hit" /\ request'[c] \in Message /\ request'[c].id = c
        /\ \A k \in Core \ {c} : pc'[k] = pc[k] /\ request'[k] = request[k]
    BY <2>1, <2>2, <2>3, MissGoesOn
  <2>5. StoredInto(c)
    BY <2>3, NothingStored
  <2> QED
    BY <1>1, <2>3, <2>4, <2>5 DEF LocalStep
<1>4. CASE ~StoreHits(c, instr) /\ execute_instruction(c, instr) /\ UNCHANGED before
  BY <1>1, <1>4, NoHitIsLocal
<1> QED
  BY <1>2, <1>3, <1>4

LEMMA StoreStateIsLocal ==
  ASSUME StepsTypes, NEW c \in Core, store_state(c)
  PROVE  LocalStep(c) /\ pc'[c] = "stored" /\ before' = before
<1> DEFINE i == request[c].block_id
<1>1. pc[c] = "hit" /\ request[c] \in Message /\ request[c].id = c /\ i \in Block
  BY DEF store_state, StepsTypes, StepsTypeOK, Message
<1>2. /\ caches' = [caches EXCEPT ![c][i].state = "MODIFIED"]
      /\ pc' = [pc EXCEPT ![c] = "stored"]
      /\ UNCHANGED <<memory, INV, queue, request, task, before>>
  BY DEF store_state
<1>3. caches \in Caches /\ "MODIFIED" \in CacheState
  BY DEF StepsTypes, StepsTypeOK, Caches, CacheState
<1> HIDE DEF i
<1>4. StoredInto(c)
  BY <1>1, <1>2, <1>3 DEF StoredInto, Caches, CacheBlock
<1>5. /\ pc' \in [Core -> {"ready", "hit", "stored", "sending", "sleeping"}]
      /\ pc'[c] = "stored" /\ \A k \in Core \ {c} : pc'[k] = pc[k]
      /\ request' \in [Core -> Message \cup {NoRequest}]
  BY <1>2 DEF StepsTypes, StepsTypeOK
<1> QED
  BY <1>1, <1>2, <1>4, <1>5 DEF LocalStep

LEMMA StoreDataIsLocal ==
  ASSUME StepsTypes, NEW c \in Core, store_data(c)
  PROVE  LocalStep(c) /\ pc'[c] = "ready" /\ before' = before
         /\ \A i \in Block : caches'[c][i].state = caches[c][i].state
<1> DEFINE i == request[c].block_id
           d == request[c].value
<1>1. pc[c] = "stored" /\ i \in Block /\ d \in Int
  BY DEF store_data, StepsTypes, StepsTypeOK, Message
<1>2. /\ caches' = [caches EXCEPT ![c][i].data = d]
      /\ Complete(c, OperationOf(request[c].access))
      /\ UNCHANGED <<memory, INV, queue, task, before>>
  BY DEF store_data
<1>3. caches \in Caches
  BY DEF StepsTypes, StepsTypeOK, Caches
<1> HIDE DEF i, d
<1>4. StoredInto(c) /\ \A j \in Block : caches'[c][j].state = caches[c][j].state
  BY <1>1, <1>2, <1>3 DEF StoredInto, Caches, CacheBlock
<1> QED
  BY <1>1, <1>2, <1>4, EndGoesOn DEF LocalStep

LEMMA WakeStepIsLocal ==
  ASSUME StepsTypes, NEW c \in Core, wake_step(c)
  PROVE  LocalStep(c) /\ pc'[c] \in {"ready", "sending"} /\ UNCHANGED <<caches, before>>
<1> DEFINE v == getBlockIdWithWriteBackPolicy(caches[c])
<1>1. /\ pc[c] = "sleeping" /\ InQueue(c) = {} /\ ~Serves(c)
      /\ UNCHANGED <<caches, memory, INV, queue, task, before>>
  BY BusStepsAssumption DEF wake_step, wake_up, busVars
<1>2. v \in Block
  BY VictimIsALine
<1>3. request[c].address \in Address /\ "READ" \in Operation /\ 0 \in Int
  BY <1>1 DEF StepsTypes, StepsTypeOK, Message, Operation
<1>4. \/ Miss(c, "READ", request[c].address, 0, v)
      \/ Complete(c, OperationOf(request[c].access))
  BY DEF wake_step, wake_up
<1> HIDE DEF v
<1>5. StoredInto(c)
  BY <1>1, NothingStored
<1>6. CASE Complete(c, OperationOf(request[c].access))
  BY <1>1, <1>5, <1>6, EndGoesOn DEF LocalStep
<1>7. CASE Miss(c, "READ", request[c].address, 0, v)
  <2>1. /\ request' = [request EXCEPT ![c] =
             [id |-> c, access |-> AccessOf("READ"), address |-> request[c].address,
              value |-> 0, block_id |-> v]]
        /\ pc' = [pc EXCEPT ![c] = "sending"]
    BY <1>7 DEF Miss
  <2> QED
    BY <1>1, <1>2, <1>3, <1>5, <2>1, MissGoesOn DEF LocalStep
<1> QED
  BY <1>4, <1>6, <1>7

(***************************************************************************)
(* The steps of the cores keep the invariant.                              *)
(***************************************************************************)
LEMMA ServedCore ==
  ASSUME StepsInv, task # Idle
  PROVE  /\ task.m \in Message /\ task.m.id \in Core /\ task.m.block_id \in Block
         /\ task.m.address \in Address
         /\ pc[task.m.id] = "sleeping" /\ request[task.m.id] = task.m /\ InQueue(task.m.id) = {}
<1>1. task.m \in Message /\ task.m.id \in Core /\ task.m.block_id \in Block /\ task.m.address \in Address
  BY DEF StepsInv, StepsTypes, StepsTypeOK, Message
<1>2. Serves(task.m.id)
  BY DEF Serves
<1>3. 0 \notin InQueue(task.m.id)
  BY DEF InQueue
<1> QED
  BY <1>1, <1>2, <1>3 DEF StepsInv, OneRequestInFlight

\* The core at which a search looks, and the line.
LEMMA SearchedLine ==
  ASSUME StepsTypes, task # Idle, task.at # "return"
  PROVE  /\ task.core \in Core /\ task.core # task.m.id
         /\ getCacheBlock_by_address(caches[task.core], task.m.address) \in Block
         /\ caches[task.core][getCacheBlock_by_address(caches[task.core], task.m.address)].address
              = task.m.address
<1>1. task.core \in Holders(caches, task.m.address, task.m.id)
  BY DEF StepsTypes, StepsTypeOK
<1> QED
  BY <1>1, LookupFindsTheAddress DEF Holders

LEMMA StoredIntoKeepsHolders ==
  ASSUME NEW c \in Core, StoredInto(c)
  PROVE  \A a, k : /\ Holders(caches', a, k) = Holders(caches, a, k)
                   /\ \A j \in Core : getCacheBlock_by_address(caches'[j], a)
                                        = getCacheBlock_by_address(caches[j], a)
<1>1. \A j \in Core, i \in Block : caches'[j][i].address = caches[j][i].address
  BY DEF StoredInto
<1>2. ASSUME NEW a, NEW j \in Core
      PROVE  getCacheBlock_by_address(caches'[j], a) = getCacheBlock_by_address(caches[j], a)
  BY <1>1, SameLookup
<1> QED
  BY <1>2 DEF Holders

LEMMA LocalStepKeepsTypes ==
  ASSUME StepsInv, NEW c \in Core, LocalStep(c)
  PROVE  StepsTypes'
<1>1. caches' \in [Core -> [Block -> CacheBlock]]
  BY DEF LocalStep, StoredInto, Caches
<1>2. \A k \in Core : pc'[k] # "ready" => request'[k] \in Message /\ request'[k].id = k
  BY DEF LocalStep, StepsInv, StepsTypes, StepsTypeOK
<1>3. Holders(caches', task.m.address, task.m.id) = Holders(caches, task.m.address, task.m.id)
  BY StoredIntoKeepsHolders DEF LocalStep
<1> QED
  BY <1>1, <1>2, <1>3 DEF LocalStep, StepsInv, StepsTypes, StepsTypeOK

LEMMA LocalStepKeeps ==
  ASSUME StepsInv, NEW c \in Core, LocalStep(c)
  PROVE  StepsInv'
<1>1. UNCHANGED <<queue, task>> /\ \A k : InQueue(k)' = InQueue(k) /\ Serves(k)' = Serves(k)
  BY DEF LocalStep, InQueue, Serves
<1>2. InQueue(c) = {} /\ ~Serves(c)
  <2>1. pc[c] # "sleeping" => InQueue(c) \cup (IF Serves(c) THEN {0} ELSE {}) = {}
    BY DEF StepsInv, OneRequestInFlight
  <2> QED
    BY <2>1 DEF LocalStep
<1>3. OneRequestInFlight'
  BY <1>1, <1>2 DEF LocalStep, StepsInv, OneRequestInFlight
<1>4. AnsweredLineIsKept'
  BY <1>1 DEF LocalStep, StoredInto, StepsInv, AnsweredLineIsKept
<1>5. FilledFirst'
  <2>1. CASE task = Idle
    BY <1>1, <2>1 DEF FilledFirst
  <2>2. CASE task # Idle
    <3>1. task.m.id \in Core \ {c}
      BY <1>2, <2>2, ServedCore DEF Serves
    <3>2. caches'[task.m.id] = caches[task.m.id]
      BY <3>1 DEF LocalStep, StoredInto
    <3> QED
      BY <1>1, <3>2 DEF StepsInv, FilledFirst, Target
  <2> QED
    BY <2>1, <2>2
<1>6. CASE task.at \notin {"data", "set"}
  <2>1. StillFits' /\ NoStoreByAnswered'
    BY <1>1, <1>6 DEF StillFits, NoStoreByAnswered
  <2> QED
    BY <1>3, <1>4, <1>5, <2>1, LocalStepKeepsTypes DEF StepsInv
<1>7. CASE task.at \in {"data", "set"}
  <2>1. task # Idle /\ task.at # "return"
    BY <1>7 DEF Idle
  <2> DEFINE i == getCacheBlock_by_address(caches[task.core], task.m.address)
  <2>2. task.core \in Core /\ i \in Block
    BY <2>1, SearchedLine DEF StepsInv
  <2>3. Now = caches[task.core][i] /\ Now' = caches'[task.core][i]
    BY <1>1, <2>2, StoredIntoKeepsHolders DEF Now, LineFor, LocalStep
  <2>4. /\ Now'.state = Now.state \/ Now'.state = "MODIFIED"
        /\ task.core # c => Now' = Now
    BY <2>2, <2>3 DEF LocalStep, StoredInto
  <2> HIDE DEF i
  <2>5. StillFits'
    <3>1. task.search \in Search
      BY DEF StepsInv, StepsTypes, Task
    <3> QED
      BY <1>1, <1>7, <2>4, <3>1 DEF StepsInv, StillFits, Dirty, Clean, Valid, Search
  <2>6. NoStoreByAnswered'
    <3>1. CASE task.core = c
      <4>1. ~Answered(c)'
        BY DEF LocalStep, Answered
      <4> QED
        BY <1>1, <3>1, <4>1 DEF NoStoreByAnswered
    <3>2. CASE task.core # c
      <4>1. Answered(task.core)' = Answered(task.core)
        BY <1>1, <2>2, <3>2 DEF LocalStep, Answered
      <4> QED
        BY <1>1, <2>4, <3>2, <4>1 DEF StepsInv, NoStoreByAnswered
    <3> QED
      BY <3>1, <3>2
  <2> QED
    BY <1>3, <1>4, <1>5, <2>5, <2>6, LocalStepKeepsTypes DEF StepsInv
<1> QED
  BY <1>6, <1>7

\* How the positions of a core in the queue change.
LEMMA AppendAtEnd ==
  ASSUME queue \in Seq(Message), NEW m \in Message, queue' = Append(queue, m), NEW c \in Core
  PROVE  /\ InQueue(c)' = InQueue(c) \cup (IF m.id = c THEN {Len(queue) + 1} ELSE {})
         /\ \A n \in InQueue(c) : queue'[n] = queue[n]
         /\ queue'[Len(queue) + 1] = m
         /\ queue' \in Seq(Message) /\ Len(queue') = Len(queue) + 1 /\ Len(queue) \in Nat
<1>1. Len(queue) \in Nat
  BY LenProperties
<1>2. Len(queue') = Len(queue) + 1 /\ queue'[Len(queue) + 1] = m /\ queue' \in Seq(Message)
  BY AppendProperties
<1>3. \A n \in 1 .. Len(queue) : queue'[n] = queue[n]
  BY AppendProperties
<1> QED
  BY <1>1, <1>2, <1>3 DEF InQueue

LEMMA HeadLeaves ==
  ASSUME queue \in Seq(Message), queue # <<>>, queue' = Tail(queue), NEW c \in Core
  PROVE  /\ \A n \in InQueue(c)' : n + 1 \in InQueue(c) /\ queue'[n] = queue[n + 1]
         /\ \A n \in InQueue(c) : n = 1 \/ n - 1 \in InQueue(c)'
         /\ 1 \in InQueue(c) <=> Head(queue).id = c
         /\ queue[1] = Head(queue) /\ Head(queue) \in Message
         /\ queue' \in Seq(Message) /\ Len(queue') = Len(queue) - 1 /\ Len(queue) \in Nat
<1>1. Len(queue) \in Nat \ {0}
  BY EmptySeq
<1>2. Len(queue') = Len(queue) - 1 /\ queue' \in Seq(Message) /\ Head(queue) \in Message
  BY <1>1, HeadTailProperties
<1>3. \A n \in 1 .. Len(queue) - 1 : queue'[n] = queue[n + 1]
  BY <1>1, <1>2, HeadTailProperties
<1>4. Head(queue) = queue[1]
  BY <1>1
<1> QED
  BY <1>1, <1>2, <1>3, <1>4 DEF InQueue

LEMMA SendStepKeeps ==
  ASSUME StepsInv, NEW c \in Core, send_step(c)
  PROVE  StepsInv' /\ pc'[c] = "sleeping" /\ \A k \in Core \ {c} : pc'[k] = pc[k]
<1>1. PICK m \in Message : m = request[c] /\ m.id = c
  BY DEF StepsInv, StepsTypes, StepsTypeOK, send_step, send_message
<1>2. /\ pc[c] = "sending" /\ pc' = [pc EXCEPT ![c] = "sleeping"]
      /\ Len(queue) < MAX_MESSAGES /\ queue' = Append(queue, m)
      /\ UNCHANGED <<caches, memory, INV, request, task>>
  BY <1>1 DEF send_step, send_message, busVars
<1>3. queue \in Seq(Message)
  BY DEF StepsInv, StepsTypes, StepsTypeOK
<1>4. /\ pc' \in [Core -> {"ready", "hit", "stored", "sending", "sleeping"}]
      /\ pc'[c] = "sleeping" /\ \A k \in Core \ {c} : pc'[k] = pc[k]
  BY <1>2 DEF StepsInv, StepsTypes, StepsTypeOK
<1>5. StepsTypes'
  <2>1. queue' \in Seq(Message) /\ Len(queue') <= MAX_MESSAGES
    BY <1>1, <1>2, <1>3, AppendAtEnd, SimulatorAssumption
  <2> QED
    BY <1>1, <1>2, <1>4, <2>1 DEF StepsInv, StepsTypes, StepsTypeOK
<1>6. InQueue(c) = {} /\ ~Serves(c) /\ \A k : Serves(k)' = Serves(k)
  <2>1. InQueue(c) \cup (IF Serves(c) THEN {0} ELSE {}) = {}
    BY <1>2 DEF StepsInv, OneRequestInFlight
  <2> QED
    BY <1>2, <2>1 DEF Serves
<1>7. InQueue(c)' = {Len(queue) + 1} /\ queue'[Len(queue) + 1] = m
  BY <1>1, <1>2, <1>3, <1>6, AppendAtEnd
<1>8. ASSUME NEW k \in Core \ {c}
      PROVE  InQueue(k)' = InQueue(k) /\ \A n \in InQueue(k) : queue'[n] = queue[n]
  <2>1. m.id # k
    BY <1>1
  <2>2. /\ InQueue(k)' = InQueue(k) \cup (IF m.id = k THEN {Len(queue) + 1} ELSE {})
        /\ \A n \in InQueue(k) : queue'[n] = queue[n]
    BY <1>2, <1>3, AppendAtEnd
  <2> QED
    BY <2>1, <2>2
<1>9. OneRequestInFlight'
  <2>1. Len(queue) + 1 # 0
    BY <1>3, LenProperties
  <2> DEFINE W(k) == InQueue(k) \cup (IF Serves(k) THEN {0} ELSE {})
  <2>2. ASSUME NEW k \in Core
        PROVE  /\ \A n, j \in W(k)' : n = j
               /\ \A n \in W(k)' : /\ pc'[k] = "sleeping"
                                  /\ request'[k] = IF n = 0 THEN task'.m ELSE queue'[n]
    <3>1. CASE k = c
      <4>1. W(k)' = {Len(queue) + 1}
        BY <1>6, <1>7, <3>1
      <4> QED
        BY <1>1, <1>2, <1>4, <1>7, <2>1, <3>1, <4>1
    <3>2. CASE k # c
      <4>1. W(k)' = W(k)
        BY <1>6, <1>8, <3>2
      <4>2. \A n \in W(k) : n = 0 \/ (n \in InQueue(k) /\ queue'[n] = queue[n])
        BY <1>8, <3>2
      <4>3. /\ \A n, j \in W(k) : n = j
            /\ \A n \in W(k) : pc[k] = "sleeping" /\ request[k] = IF n = 0 THEN task.m ELSE queue[n]
        BY DEF StepsInv, OneRequestInFlight
      <4> HIDE DEF W
      <4> QED
        BY <1>2, <1>4, <3>2, <4>1, <4>2, <4>3
    <3> QED
      BY <3>1, <3>2
  <2> QED
    BY <2>2 DEF OneRequestInFlight
<1>10. ASSUME NEW k \in Core, Answered(k)'
       PROVE  k # c /\ Answered(k)
  BY <1>4, <1>6, <1>7, <1>8, <1>10 DEF Answered
<1>11. AnsweredLineIsKept'
  BY <1>2, <1>10 DEF StepsInv, AnsweredLineIsKept, Answered
<1>12. StillFits' /\ FilledFirst'
  BY <1>2 DEF StepsInv, StillFits, FilledFirst, Now, Target
<1>13. NoStoreByAnswered'
  <2>1. CASE task.at \notin {"data", "set"}
    BY <1>2, <2>1 DEF NoStoreByAnswered
  <2>2. CASE task.at \in {"data", "set"}
    <3>1. task # Idle /\ task.at # "return"
      BY <2>2 DEF Idle
    <3>2. task.core \in Core
      BY <3>1, SearchedLine DEF StepsInv
    <3> QED
      BY <1>2, <1>10, <3>2 DEF StepsInv, NoStoreByAnswered, Now
  <2> QED
    BY <2>1, <2>2
<1> QED
  BY <1>4, <1>5, <1>9, <1>11, <1>12, <1>13 DEF StepsInv

(***************************************************************************)
(* The steps of the bus keep the invariant.                                *)
(***************************************************************************)
\* Within a handler, the requests in flight stay what they are.
LEMMA HandlerGoesOn ==
  ASSUME StepsInv, task # Idle, UNCHANGED <<queue, pc, request>>,
         task'.m = task.m, task'.at # "receive"
  PROVE  /\ task' # Idle /\ OneRequestInFlight'
         /\ \A c : Answered(c)' = Answered(c)
<1>1. task' # Idle
  BY DEF Idle
<1>2. \A c : Serves(c)' = Serves(c) /\ InQueue(c)' = InQueue(c)
  BY <1>1 DEF Serves, InQueue
<1>3. OneRequestInFlight'
  BY <1>2 DEF StepsInv, OneRequestInFlight
<1> QED
  BY <1>1, <1>2, <1>3 DEF Answered

LEMMA HandlerEnds ==
  ASSUME StepsInv, task # Idle, UNCHANGED <<queue, pc, request>>, task' = Idle
  PROVE  /\ OneRequestInFlight' /\ StillFits' /\ FilledFirst' /\ NoStoreByAnswered'
         /\ \A c : Answered(c)' => Answered(c) \/ c = task.m.id
<1>1. \A c : ~Serves(c)' /\ InQueue(c)' = InQueue(c) /\ 0 \notin InQueue(c)
  BY DEF Serves, InQueue
<1>2. OneRequestInFlight'
  <2>1. \A c \in Core : /\ \A n, j \in InQueue(c) : n = j
                        /\ \A n \in InQueue(c) : pc[c] = "sleeping" /\ request[c] = queue[n]
    BY <1>1 DEF StepsInv, OneRequestInFlight
  <2> QED
    BY <1>1, <2>1 DEF OneRequestInFlight
<1>3. StillFits' /\ FilledFirst' /\ NoStoreByAnswered'
  BY DEF StillFits, FilledFirst, NoStoreByAnswered, Idle
<1> QED
  BY <1>1, <1>2, <1>3 DEF Answered, Serves

LEMMA AtIsNotIdle ==
  ASSUME StepsInv, task.at # "receive"
  PROVE  task # Idle
BY DEF Idle

LEMMA CopyStateKeeps ==
  ASSUME StepsInv, copy_state
  PROVE  StepsInv'
<1>1. /\ task.at = "state" /\ task # Idle /\ task \in Task
      /\ UNCHANGED <<caches, memory, INV, queue, pc, request>>
  BY AtIsNotIdle DEF copy_state, vars, StepsInv, StepsTypes
<1>2. task.core \in Holders(caches, task.m.address, task.m.id)
  BY <1>1 DEF StepsInv, StepsTypes, StepsTypeOK
<1>3. \/ /\ Fits(task.search, Now)
         /\ task' = [task EXCEPT !.at = IF task.search = "seek_invalidate" THEN "set" ELSE "data"]
      \/ task.search # "seek_invalidate" /\ NextCore
      \/ task.search = "seek_invalidate" /\ Return(-1)
  BY DEF copy_state, Now
<1>4. CASE /\ Fits(task.search, Now)
           /\ task' = [task EXCEPT !.at = IF task.search = "seek_invalidate" THEN "set" ELSE "data"]
  <2>1. /\ task' \in Task /\ task'.at \in {"data", "set"} /\ task'.m = task.m
        /\ task'.search = task.search /\ task'.core = task.core /\ task'.data = task.data
    BY <1>1, <1>4 DEF Task
  <2>2. Now' = Now
    BY <1>1, <2>1 DEF Now
  <2>3. task' # Idle /\ OneRequestInFlight' /\ \A c : Answered(c)' = Answered(c)
    BY <1>1, <2>1, HandlerGoesOn
  <2>4. StepsTypes'
    BY <1>1, <1>2, <2>1 DEF StepsInv, StepsTypes, StepsTypeOK
  <2>5. StillFits' /\ NoStoreByAnswered'
    <3>1. task.search \in Search
      BY <1>1 DEF Task
    <3>2. /\ task.search = "seek_owned" => Dirty(Now)
          /\ task.search = "seek_shared" => Clean(Now)
          /\ task.search = "seek_invalidate" => Valid(Now)
      BY <1>4 DEF Fits
    <3>3. /\ task'.search = "seek_owned" => Dirty(Now')
          /\ task'.search = "seek_shared" => Clean(Now')
          /\ task'.search = "seek_invalidate" => Valid(Now')
      BY <2>1, <2>2, <3>2
    <3> QED
      BY <2>1, <3>1, <3>3 DEF StillFits, NoStoreByAnswered, Search
  <2>6. FilledFirst'
    BY <1>1, <2>1, <2>3 DEF StepsInv, FilledFirst, Target
  <2>7. AnsweredLineIsKept'
    BY <1>1, <2>3 DEF StepsInv, AnsweredLineIsKept, Answered
  <2> QED
    BY <2>3, <2>4, <2>5, <2>6, <2>7 DEF StepsInv
<1>5. CASE NextCore \/ Return(-1)
  <2>1. /\ task' \in Task /\ task'.at \in {"state", "return"} /\ task'.m = task.m
        /\ task'.search = task.search /\ task'.data \in Int
        /\ task'.at = "state" => task'.core \in Holders(caches, task.m.address, task.m.id)
    BY <1>1, <1>5, NextCoreAdvances, ReturnReturns DEF Advanced
  <2>2. task' # Idle /\ OneRequestInFlight' /\ \A c : Answered(c)' = Answered(c)
    BY <1>1, <2>1, HandlerGoesOn
  <2>3. task.m \in Message /\ task.search \in Search
    BY <1>1 DEF StepsInv, StepsTypes, StepsTypeOK
  <2>4. StepsTypes'
    BY <1>1, <2>1, <2>3 DEF StepsInv, StepsTypes, StepsTypeOK
  <2>5. StillFits' /\ NoStoreByAnswered'
    BY <2>1 DEF StillFits, NoStoreByAnswered
  <2>6. FilledFirst'
    BY <1>1, <2>1, <2>2 DEF StepsInv, FilledFirst, Target
  <2>7. AnsweredLineIsKept'
    BY <1>1, <2>2 DEF StepsInv, AnsweredLineIsKept, Answered
  <2> QED
    BY <2>2, <2>4, <2>5, <2>6, <2>7 DEF StepsInv
<1> QED
  BY <1>3, <1>4, <1>5

LEMMA CopyDataKeeps ==
  ASSUME StepsInv, copy_data
  PROVE  StepsInv'
<1>1. /\ task.at = "data" /\ task # Idle /\ task \in Task
      /\ task' = [task EXCEPT !.at = "set", !.data = Now.data]
      /\ UNCHANGED <<caches, memory, INV, queue, pc, request>>
  BY AtIsNotIdle DEF copy_data, vars, StepsInv, StepsTypes, Now
<1>2. task.core \in Holders(caches, task.m.address, task.m.id)
  BY <1>1 DEF StepsInv, StepsTypes, StepsTypeOK
<1>3. Now.data \in Int
  BY <1>2, LineForType DEF Holders, Now, StepsInv, StepsTypes, StepsTypeOK, Caches, CacheBlock
<1>4. /\ task' \in Task /\ task'.at = "set" /\ task'.m = task.m
      /\ task'.search = task.search /\ task'.core = task.core /\ task'.data \in Int
  BY <1>1, <1>3 DEF Task
<1>5. Now' = Now
  BY <1>1, <1>4 DEF Now
<1>6. task' # Idle /\ OneRequestInFlight' /\ \A c : Answered(c)' = Answered(c)
  BY <1>1, <1>4, HandlerGoesOn
<1>7. StepsTypes'
  BY <1>1, <1>2, <1>4 DEF StepsInv, StepsTypes, StepsTypeOK
<1>8. StillFits' /\ NoStoreByAnswered'
  BY <1>1, <1>4, <1>5, <1>6 DEF StepsInv, StillFits, NoStoreByAnswered
<1>9. FilledFirst'
  BY <1>1, <1>4, <1>6 DEF StepsInv, FilledFirst, Target
<1>10. AnsweredLineIsKept'
  BY <1>1, <1>6 DEF StepsInv, AnsweredLineIsKept, Answered
<1> QED
  BY <1>6, <1>7, <1>8, <1>9, <1>10 DEF StepsInv

\* The line that a search sets changes its state and nothing else.
LEMMA SetStateSetsOneLine ==
  ASSUME StepsInv, set_state
  PROVE  LET j == getCacheBlock_by_address(caches[task.core], task.m.address)
         IN  /\ task.core \in Core /\ task.core # task.m.id /\ j \in Block /\ Now = caches[task.core][j]
             /\ caches' \in Caches
             /\ \A k \in Core, i \in Block :
                  /\ caches'[k][i].address = caches[k][i].address
                  /\ caches'[k][i].data = caches[k][i].data
                  /\ \/ caches'[k][i].state = caches[k][i].state
                     \/ k = task.core /\ i = j /\ caches'[k][i].state = SetTo[task.search]
<1> DEFINE j == getCacheBlock_by_address(caches[task.core], task.m.address)
           s == SetTo[task.search]
<1>1. task.at = "set" /\ task # Idle
  BY AtIsNotIdle DEF set_state
<1>2. task.core \in Core /\ task.core # task.m.id /\ j \in Block
  BY <1>1, SearchedLine DEF StepsInv
<1>3. caches' = set_core_cache_block_state(caches, {task.core}, task.m.address, s)
  BY DEF set_state
<1>4. s \in CacheState
  BY DEF StepsInv, StepsTypes, Task, Search, SetTo, CacheState
<1>5. caches \in Caches /\ {task.core} \in SUBSET Core
      /\ \A k \in {task.core} : getCacheBlock_by_address(caches[k], task.m.address) # NotFound
  <2>1. j # NotFound
    BY <1>2, CacheAssumption DEF Block, NotFound
  <2> QED
    BY <1>2, <2>1 DEF StepsInv, StepsTypes, StepsTypeOK, Caches
<1> HIDE DEF s
<1>6. caches' \in Caches
  BY <1>3, <1>4, <1>5, SetStateType
<1>7. ASSUME NEW k \in Core, NEW i \in Block
      PROVE  /\ caches'[k][i].address = caches[k][i].address
             /\ caches'[k][i].data = caches[k][i].data
             /\ \/ caches'[k][i].state = caches[k][i].state
                \/ /\ k \in {task.core} /\ i = getCacheBlock_by_address(caches[k], task.m.address)
                   /\ caches'[k][i].state = s
  BY <1>3, <1>4, <1>5, SetStateEffect
<1> QED
  BY <1>2, <1>6, <1>7 DEF s, Now, LineFor

LEMMA SetStateKeeps ==
  ASSUME StepsInv, set_state
  PROVE  StepsInv'
<1> DEFINE j == getCacheBlock_by_address(caches[task.core], task.m.address)
<1>1. /\ task.at = "set" /\ task # Idle /\ task \in Task
      /\ UNCHANGED <<memory, INV, queue, pc, request>>
      /\ IF task.search = "seek_invalidate" THEN NextCore ELSE Return(task.data)
  BY AtIsNotIdle DEF set_state, cpuVars, StepsInv, StepsTypes
<1>2. /\ task.core \in Core /\ task.core # task.m.id /\ j \in Block /\ Now = caches[task.core][j]
      /\ caches' \in Caches
      /\ \A k \in Core, i \in Block :
           /\ caches'[k][i].address = caches[k][i].address
           /\ caches'[k][i].data = caches[k][i].data
           /\ \/ caches'[k][i].state = caches[k][i].state
              \/ k = task.core /\ i = j /\ caches'[k][i].state = SetTo[task.search]
  BY SetStateSetsOneLine
<1> HIDE DEF j
<1>3. task.m \in Message /\ task.m.id \in Core /\ task.m.block_id \in Block /\ task.search \in Search
  BY <1>1, ServedCore DEF Task
<1>4. /\ task' \in Task /\ task'.at \in {"state", "return"} /\ task'.m = task.m
      /\ task'.search = task.search /\ task'.data \in Int
      /\ task'.at = "state" => task'.core \in Holders(caches, task.m.address, task.m.id)
  <2>1. task.data \in Int
    BY <1>1 DEF Task
  <2> QED
    BY <1>1, <2>1, NextCoreAdvances, ReturnReturns DEF Advanced
<1>5. task' # Idle /\ OneRequestInFlight' /\ \A c : Answered(c)' = Answered(c)
  BY <1>1, <1>4, HandlerGoesOn
<1>6. Holders(caches', task.m.address, task.m.id) = Holders(caches, task.m.address, task.m.id)
  BY <1>2, SameHolders
<1>7. StepsTypes'
  BY <1>1, <1>2, <1>3, <1>4, <1>6 DEF StepsInv, StepsTypes, StepsTypeOK, Caches
<1>8. StillFits' /\ NoStoreByAnswered'
  BY <1>4 DEF StillFits, NoStoreByAnswered
<1>9. FilledFirst'
  <2>1. /\ Target(task.m)'.address = Target(task.m).address
        /\ Target(task.m)'.data = Target(task.m).data
        /\ Target(task.m)'.state = Target(task.m).state
    BY <1>2, <1>3, <1>4 DEF Target
  <2> QED
    BY <1>1, <1>4, <1>5, <2>1 DEF StepsInv, FilledFirst, Dirty, Target
<1>10. AnsweredLineIsKept'
  <2> SUFFICES ASSUME NEW c \in Core, Answered(c)
               PROVE  LET line == caches'[c][request[c].block_id]
                      IN  /\ line.address = request[c].address
                          /\ request[c].access = "WRITEMISS" /\ Valid(line) =>
                               Dirty(line) /\ line.data = request[c].value
    BY <1>1, <1>5 DEF AnsweredLineIsKept, Answered
  <2> DEFINE i    == request[c].block_id
             line == caches[c][i]
  <2>1. i \in Block
    BY DEF Answered, StepsInv, StepsTypes, StepsTypeOK, Message
  <2>2. /\ line.address = request[c].address
        /\ request[c].access = "WRITEMISS" /\ Valid(line) => Dirty(line) /\ line.data = request[c].value
    BY DEF StepsInv, AnsweredLineIsKept, Answered
  <2>3. /\ caches'[c][i].address = line.address /\ caches'[c][i].data = line.data
        /\ \/ caches'[c][i].state = line.state
           \/ c = task.core /\ line = Now /\ caches'[c][i].state = SetTo[task.search]
    BY <1>2, <2>1
  <2> HIDE DEF i
  <2>4. CASE caches'[c][i].state = line.state
    BY <2>2, <2>3, <2>4 DEF Valid, Dirty, i
  <2>5. CASE c = task.core /\ line = Now /\ caches'[c][i].state = SetTo[task.search]
    <3>1. task.search = "seek_owned" => caches'[c][i].state = "OWNED" /\ Dirty(line)
      BY <1>1, <2>5 DEF SetTo, Search, StepsInv, StillFits
    <3>2. task.search = "seek_shared" => caches'[c][i].state = "SHARED" /\ Clean(line)
      BY <1>1, <2>5 DEF SetTo, Search, StepsInv, NoStoreByAnswered
    <3>3. task.search = "seek_invalidate" => caches'[c][i].state = "INVALID"
      BY <2>5 DEF SetTo, Search
    <3> QED
      BY <1>3, <2>2, <2>3, <3>1, <3>2, <3>3 DEF Search, Valid, Dirty, Clean, i
  <2> QED
    BY <2>3, <2>4, <2>5
<1> QED
  BY <1>5, <1>7, <1>8, <1>9, <1>10 DEF StepsInv

LEMMA FillStep ==
  ASSUME StepsInv, NEW m \in Message, NEW s \in CacheState, NEW d \in Int,
         caches' = Fill(caches, m, s, d)
  PROVE  /\ caches' \in Caches
         /\ \A k \in Core \ {m.id} : caches'[k] = caches[k]
         /\ caches'[m.id][m.block_id] = [state |-> s, address |-> m.address, data |-> d]
<1>1. caches \in Caches
  BY DEF StepsInv, StepsTypes, StepsTypeOK, Caches
<1>2. caches' \in Caches
  BY <1>1, FillType
<1> QED
  BY <1>1, <1>2 DEF Fill, Caches, Message

\* A handler that returns has left the address in the line of its core.
LEMMA EndKeeps ==
  ASSUME StepsInv, task # Idle, UNCHANGED <<memory, queue, pc, request>>, task' = Idle,
         INV' \in [Core -> Nat], caches' \in Caches,
         \A k \in Core \ {task.m.id} : caches'[k] = caches[k],
         NEW line, line = caches'[task.m.id][task.m.block_id],
         line.address = task.m.address,
         task.m.access = "WRITEMISS" => Dirty(line) /\ line.data = task.m.value
  PROVE  StepsInv'
<1>1. task.m.id \in Core /\ request[task.m.id] = task.m
  BY ServedCore
<1>2. /\ OneRequestInFlight' /\ StillFits' /\ FilledFirst' /\ NoStoreByAnswered'
      /\ \A c : Answered(c)' => Answered(c) \/ c = task.m.id
  BY HandlerEnds
<1>3. StepsTypes'
  <2>1. Idle \in Task
    BY BusAssumption DEF Idle, Task, Search
  <2> QED
    BY <2>1 DEF StepsInv, StepsTypes, StepsTypeOK, Caches
<1>4. AnsweredLineIsKept'
  <2> SUFFICES ASSUME NEW c \in Core, Answered(c)'
               PROVE  LET mine == caches'[c][request[c].block_id]
                      IN  /\ mine.address = request[c].address
                          /\ request[c].access = "WRITEMISS" /\ Valid(mine) =>
                               Dirty(mine) /\ mine.data = request[c].value
    BY DEF AnsweredLineIsKept, Answered
  <2>1. CASE c = task.m.id
    BY <1>1, <2>1
  <2>2. CASE c # task.m.id
    <3>1. Answered(c) /\ caches'[c] = caches[c]
      BY <1>2, <2>2
    <3> QED
      BY <3>1 DEF StepsInv, AnsweredLineIsKept, Answered
  <2> QED
    BY <2>1, <2>2
<1> QED
  BY <1>2, <1>3, <1>4 DEF StepsInv

\* A handler that goes on to another search has changed no line but its own.
LEMMA BeginKeeps ==
  ASSUME StepsInv, task # Idle, UNCHANGED <<memory, INV, queue, pc, request>>,
         caches' \in Caches, \A k \in Core \ {task.m.id} : caches'[k] = caches[k],
         NEW t \in Task, t.m = task.m, NEW s \in Search, Begin(t, s, caches),
         FilledFirst'
  PROVE  StepsInv'
<1>1. /\ task' \in Task /\ task'.m = task.m /\ task'.search = s /\ task'.at \in {"state", "return"}
      /\ task'.at = "state" => task'.core \in Holders(caches, task.m.address, task.m.id)
  BY BeginAdvances DEF Advanced
<1>2. task' # Idle /\ OneRequestInFlight' /\ \A c : Answered(c)' = Answered(c)
  BY <1>1, HandlerGoesOn
<1>3. task.m \in Message /\ task'.data \in Int
  BY <1>1, ServedCore DEF Task
<1>4. Holders(caches', task.m.address, task.m.id) = Holders(caches, task.m.address, task.m.id)
  BY SameHolders
<1>5. StepsTypes'
  BY <1>1, <1>3, <1>4 DEF StepsInv, StepsTypes, StepsTypeOK, Caches
<1>6. StillFits' /\ NoStoreByAnswered'
  BY <1>1 DEF StillFits, NoStoreByAnswered
<1>7. AnsweredLineIsKept'
  <2>1. ASSUME NEW c \in Core, Answered(c)
        PROVE  caches'[c] = caches[c]
    BY <2>1 DEF Answered, Serves
  <2> QED
    BY <1>2, <2>1 DEF StepsInv, AnsweredLineIsKept, Answered
<1> QED
  BY <1>2, <1>5, <1>6, <1>7 DEF StepsInv

LEMMA DoneEnds ==
  ASSUME StepsInv, task # Idle, NEW counts, Done(counts)
  PROVE  task' = Idle /\ INV' \in [Core -> Nat]
BY ServedCore DEF Done, StepsInv, StepsTypes, StepsTypeOK

LEMMA FillAndGoOnKeeps ==
  ASSUME StepsInv, task # Idle, task.search # "seek_invalidate",
         NEW s \in CacheState, NEW d \in Int, NEW counts \in BOOLEAN, FillAndGoOn(s, d, counts),
         UNCHANGED <<memory, queue, cpuVars>>
  PROVE  StepsInv'
<1>1. task.m \in Message /\ task.m.id \in Core /\ task.m.access # "WRITEMISS"
  BY ServedCore DEF StepsInv, FilledFirst
<1>2. UNCHANGED <<memory, queue, pc, request>>
  BY DEF cpuVars
<1>3. CASE caches' = Fill(caches, task.m, s, d) /\ Done(FALSE)
  <2>1. /\ caches' \in Caches
        /\ \A k \in Core \ {task.m.id} : caches'[k] = caches[k]
        /\ caches'[task.m.id][task.m.block_id] = [state |-> s, address |-> task.m.address, data |-> d]
    BY <1>1, <1>3, FillStep
  <2>2. caches'[task.m.id][task.m.block_id].address = task.m.address
    BY <2>1
  <2> QED
    BY <1>1, <1>2, <1>3, <2>1, <2>2, DoneEnds, EndKeeps
<1>4. CASE /\ caches' = Fill(caches, task.m, "MODIFIED", d + 1)
           /\ Begin([task EXCEPT !.counts = counts], "seek_invalidate", caches)
           /\ UNCHANGED INV
  <2> DEFINE t == [task EXCEPT !.counts = counts]
  <2>1. t \in Task /\ t.m = task.m
    BY DEF StepsInv, StepsTypes, Task
  <2> HIDE DEF t
  <2>2. "MODIFIED" \in CacheState /\ d + 1 \in Int /\ "seek_invalidate" \in Search
    BY DEF CacheState, Search
  <2>3. /\ caches' \in Caches
        /\ \A k \in Core \ {task.m.id} : caches'[k] = caches[k]
        /\ caches'[task.m.id][task.m.block_id]
             = [state |-> "MODIFIED", address |-> task.m.address, data |-> d + 1]
    BY <1>1, <1>4, <2>2, FillStep
  <2>4. Begin(t, "seek_invalidate", caches)
    BY <1>4 DEF t
  <2>5. task'.m = task.m
    BY <2>1, <2>2, <2>4, BeginAdvances DEF Advanced
  <2>6. FilledFirst'
    <3>1. task'.search = "seek_invalidate"
      BY <2>1, <2>2, <2>4, BeginAdvances DEF Advanced
    <3> QED
      BY <1>1, <2>3, <2>5, <3>1 DEF FilledFirst, Target
  <2> QED
    BY <1>2, <1>4, <2>1, <2>2, <2>3, <2>4, <2>6, BeginKeeps
<1> QED
  BY <1>3, <1>4 DEF FillAndGoOn

LEMMA AfterSeekOwnedKeeps ==
  ASSUME StepsInv, after_seek_owned
  PROVE  StepsInv'
<1>1. /\ task # Idle /\ task.search = "seek_owned" /\ task \in Task
      /\ UNCHANGED <<memory, queue, pc, request, cpuVars>>
  BY AtIsNotIdle DEF after_seek_owned, cpuVars, StepsInv, StepsTypes
<1>2. task.m \in Message /\ task.m.id \in Core /\ task.m.access # "WRITEMISS" /\ task.m.address \in Address
  BY <1>1, ServedCore DEF StepsInv, FilledFirst
<1>3. caches \in Caches /\ memory \in [MemAddress -> Int]
  BY DEF StepsInv, StepsTypes, StepsTypeOK, Caches
<1>4. CASE /\ caches' = Fill(caches, task.m, "EXCLUSIVE",
                             get_data_from_memory(memory, task.m.address)
                               + (IF task.m.access = "INCREMENT" THEN 1 ELSE 0))
           /\ Done(FALSE)
  <2> DEFINE d == get_data_from_memory(memory, task.m.address)
                    + (IF task.m.access = "INCREMENT" THEN 1 ELSE 0)
  <2>1. d \in Int /\ "EXCLUSIVE" \in CacheState
    <3>1. get_data_from_memory(memory, task.m.address) \in Int
      BY <1>2, <1>3 DEF get_data_from_memory
    <3> QED
      BY <3>1 DEF CacheState
  <2> HIDE DEF d
  <2>2. caches' = Fill(caches, task.m, "EXCLUSIVE", d)
    BY <1>4 DEF d
  <2>3. /\ caches' \in Caches
        /\ \A k \in Core \ {task.m.id} : caches'[k] = caches[k]
        /\ caches'[task.m.id][task.m.block_id]
             = [state |-> "EXCLUSIVE", address |-> task.m.address, data |-> d]
    BY <1>2, <2>1, <2>2, FillStep
  <2>4. caches'[task.m.id][task.m.block_id].address = task.m.address
    BY <2>3
  <2> QED
    BY <1>1, <1>2, <1>4, <2>3, <2>4, DoneEnds, EndKeeps
<1>5. CASE Target(task.m).address = task.m.address /\ UNCHANGED caches /\ Done(FALSE)
  BY <1>1, <1>2, <1>3, <1>5, DoneEnds, EndKeeps DEF Target
<1>6. CASE FillAndGoOn("SHARED", task.data, FALSE)
  <2>1. task.data \in Int /\ "SHARED" \in CacheState /\ FALSE \in BOOLEAN
    BY <1>1 DEF Task, CacheState
  <2> QED
    BY <1>1, <1>6, <2>1, FillAndGoOnKeeps
<1>7. CASE Begin(task, "seek_shared", caches) /\ UNCHANGED <<caches, INV>>
  <2>1. "seek_shared" \in Search
    BY DEF Search
  <2>2. task'.m = task.m /\ task'.search = "seek_shared"
    BY <1>1, <1>7, <2>1, BeginAdvances DEF Advanced
  <2>3. FilledFirst'
    BY <1>2, <2>2 DEF FilledFirst
  <2> QED
    BY <1>1, <1>3, <1>7, <2>1, <2>3, BeginKeeps
<1> QED
  BY <1>4, <1>5, <1>6, <1>7 DEF after_seek_owned

LEMMA AfterSeekSharedKeeps ==
  ASSUME StepsInv, after_seek_shared
  PROVE  StepsInv'
<1>1. /\ task # Idle /\ task.search = "seek_shared" /\ task \in Task
      /\ UNCHANGED <<memory, queue, cpuVars>>
  BY AtIsNotIdle DEF after_seek_shared, StepsInv, StepsTypes
<1>2. get_data_from_memory(memory, task.m.address) \in Int
  <2>1. task.m.address \in Address
    BY <1>1, ServedCore
  <2>2. memory \in [MemAddress -> Int]
    BY DEF StepsInv, StepsTypes, StepsTypeOK
  <2> QED
    BY <2>1, <2>2 DEF get_data_from_memory
<1>3. task.data \in Int /\ {"SHARED", "EXCLUSIVE"} \subseteq CacheState
  BY <1>1 DEF Task, CacheState
<1>4. \/ FillAndGoOn("SHARED", task.data, FALSE)
      \/ FillAndGoOn("EXCLUSIVE", get_data_from_memory(memory, task.m.address), TRUE)
  BY DEF after_seek_shared
<1> QED
  BY <1>1, <1>2, <1>3, <1>4, FillAndGoOnKeeps

LEMMA AfterSeekInvalidateKeeps ==
  ASSUME StepsInv, after_seek_invalidate
  PROVE  StepsInv'
<1>1. /\ task # Idle /\ task.search = "seek_invalidate" /\ Done(task.counts)
      /\ UNCHANGED <<caches, memory, queue, pc, request>>
  BY AtIsNotIdle DEF after_seek_invalidate, cpuVars
<1>2. caches \in Caches
  BY DEF StepsInv, StepsTypes, StepsTypeOK, Caches
<1>3. /\ Target(task.m).address = task.m.address
      /\ task.m.access = "WRITEMISS" => Dirty(Target(task.m)) /\ Target(task.m).data = task.m.value
  BY <1>1 DEF StepsInv, FilledFirst
<1> QED
  BY <1>1, <1>2, <1>3, DoneEnds, EndKeeps DEF Target

\* A request that is received has its core waiting for it.
LEMMA ReceiveTakesOne ==
  ASSUME StepsInv, receive, NEW m, m = Head(queue)
  PROVE  /\ m \in Message /\ m.id \in Core
         /\ pc[m.id] = "sleeping" /\ request[m.id] = m /\ InQueue(m.id)' = {}
         /\ queue' \in Seq(Message) /\ Len(queue') <= MAX_MESSAGES
         /\ \A c \in Core \ {m.id} :
              /\ InQueue(c)' = {} => InQueue(c) = {}
              /\ \A n \in InQueue(c)' : n + 1 \in InQueue(c) /\ queue'[n] = queue[n + 1]
<1>1. queue \in Seq(Message) /\ queue # <<>> /\ queue' = Tail(queue) /\ Len(queue) <= MAX_MESSAGES
  BY DEF receive, StepsInv, StepsTypes, StepsTypeOK
<1>2. m \in Message /\ m.id \in Core
  <2>1. m \in Message
    BY <1>1, HeadTailProperties
  <2> QED
    BY <2>1 DEF Message
<1>3. 1 \in InQueue(m.id) /\ queue[1] = m
  BY <1>1, <1>2, HeadLeaves
<1>4. \A n \in InQueue(m.id) : n = 1 /\ pc[m.id] = "sleeping" /\ request[m.id] = queue[n]
  <2>1. 0 \notin InQueue(m.id)
    BY DEF InQueue
  <2> QED
    BY <1>2, <1>3, <2>1 DEF StepsInv, OneRequestInFlight
<1>5. InQueue(m.id)' = {}
  <2>1. \A n \in InQueue(m.id)' : n + 1 \in InQueue(m.id) /\ n \in 1 .. Len(queue')
    BY <1>1, <1>2, HeadLeaves DEF InQueue
  <2> QED
    BY <1>4, <2>1
<1>6. ASSUME NEW c \in Core \ {m.id}
      PROVE  /\ InQueue(c)' = {} => InQueue(c) = {}
             /\ \A n \in InQueue(c)' : n + 1 \in InQueue(c) /\ queue'[n] = queue[n + 1]
  <2>1. 1 \notin InQueue(c)
    BY <1>1, <1>6, HeadLeaves
  <2> QED
    BY <1>1, <1>6, <2>1, HeadLeaves
<1>7. queue' \in Seq(Message) /\ Len(queue') <= MAX_MESSAGES
  BY <1>1, <1>2, HeadLeaves, SimulatorAssumption
<1> QED
  BY <1>2, <1>3, <1>4, <1>5, <1>6, <1>7

\* The task that a received request becomes.
LEMMA ReceiveBegins ==
  ASSUME StepsInv, receive, NEW m \in Message, m = Head(queue)
  PROVE  /\ task' \in Task /\ task'.m = m /\ task'.at \in {"state", "return"} /\ task'.data = -1
         /\ task'.search = IF m.access = "WRITEMISS" THEN "seek_invalidate" ELSE "seek_owned"
         /\ task'.counts = (m.access = "WRITEMISS")
         /\ task'.at = "state" =>
              task'.core \in Holders(caches, m.address, m.id) /\ task'.core = LookFrom(caches, m, 0)
         /\ task'.at = "return" =>
              (PROTOCOL = "MESI" /\ m.access # "WRITEMISS") \/ LookFrom(caches, m, 0) = N_CPU
         /\ PROTOCOL = "MESI" /\ m.access # "WRITEMISS" => task'.at = "return"
         /\ IF m.access = "WRITEMISS" THEN caches' = Fill(caches, m, "MODIFIED", m.value)
                                      ELSE caches' = caches
<1> DEFINE t == [Idle EXCEPT !.m = m, !.counts = m.access = "WRITEMISS"]
<1>1. t \in Task /\ t.m = m /\ t.counts = (m.access = "WRITEMISS")
  <2> DEFINE w == m.access = "WRITEMISS"
  <2>1. w \in BOOLEAN
    OBVIOUS
  <2>2. Idle \in Task /\ t = [Idle EXCEPT !.m = m, !.counts = w]
    BY BusAssumption DEF Idle, Task, Search
  <2> HIDE DEF t, w
  <2>3. t \in Task /\ t.m = m /\ t.counts = w
    BY <2>1, <2>2 DEF Task
  <2> QED
    BY <2>3 DEF w
<1>2. {"seek_invalidate", "seek_owned"} \subseteq Search /\ -1 \in Int
  BY DEF Search
<1>3. \/ /\ m.access = "WRITEMISS"
         /\ caches' = Fill(caches, m, "MODIFIED", m.value)
         /\ Begin(t, "seek_invalidate", caches)
      \/ /\ m.access # "WRITEMISS" /\ PROTOCOL = "MOESI"
         /\ caches' = caches /\ Begin(t, "seek_owned", caches)
      \/ /\ m.access # "WRITEMISS" /\ PROTOCOL = "MESI"
         /\ caches' = caches
         /\ task' = [t EXCEPT !.at = "return", !.search = "seek_owned", !.data = -1]
  BY DEF receive
<1> HIDE DEF t
<1>4. CASE /\ m.access = "WRITEMISS"
           /\ caches' = Fill(caches, m, "MODIFIED", m.value)
           /\ Begin(t, "seek_invalidate", caches)
  BY <1>1, <1>2, <1>4, BeginAdvances DEF Advanced
<1>5. CASE /\ m.access # "WRITEMISS" /\ PROTOCOL = "MOESI"
           /\ caches' = caches /\ Begin(t, "seek_owned", caches)
  BY <1>1, <1>2, <1>5, BeginAdvances DEF Advanced
<1>6. CASE /\ m.access # "WRITEMISS" /\ PROTOCOL = "MESI"
           /\ caches' = caches
           /\ task' = [t EXCEPT !.at = "return", !.search = "seek_owned", !.data = -1]
  BY <1>1, <1>2, <1>6 DEF Task
<1> QED
  BY <1>3, <1>4, <1>5, <1>6

LEMMA WriteBackType ==
  ASSUME StepsInv, NEW m \in Message
  PROVE  WriteBackFirst(m) \in [MemAddress -> Int]
<1>1. /\ memory \in [MemAddress -> Int] /\ m.address \in Address
      /\ Target(m).data \in Int
  BY DEF StepsInv, StepsTypes, StepsTypeOK, Message, Target, CacheBlock
<1> QED
  BY <1>1, MemoryTypes DEF WriteBackFirst, perform_wb

LEMMA ReceiveKeeps ==
  ASSUME StepsInv, receive
  PROVE  StepsInv'
<1>1. PICK m : m = Head(queue)
  OBVIOUS
<1>2. task = Idle /\ UNCHANGED <<INV, pc, request>> /\ memory' = WriteBackFirst(m)
  BY <1>1 DEF receive, cpuVars
<1>3. /\ m \in Message /\ m.id \in Core
      /\ pc[m.id] = "sleeping" /\ request[m.id] = m /\ InQueue(m.id)' = {}
      /\ queue' \in Seq(Message) /\ Len(queue') <= MAX_MESSAGES
      /\ \A c \in Core \ {m.id} :
           /\ InQueue(c)' = {} => InQueue(c) = {}
           /\ \A n \in InQueue(c)' : n + 1 \in InQueue(c) /\ queue'[n] = queue[n + 1]
  BY <1>1, ReceiveTakesOne
<1>4. /\ task' \in Task /\ task'.m = m /\ task'.at \in {"state", "return"} /\ task'.data = -1
      /\ task'.search = IF m.access = "WRITEMISS" THEN "seek_invalidate" ELSE "seek_owned"
      /\ task'.at = "state" => task'.core \in Holders(caches, m.address, m.id)
      /\ IF m.access = "WRITEMISS" THEN caches' = Fill(caches, m, "MODIFIED", m.value)
                                   ELSE caches' = caches
  BY <1>1, <1>3, ReceiveBegins
<1>5. /\ caches' \in Caches
      /\ \A k \in Core \ {m.id} : caches'[k] = caches[k]
      /\ m.access = "WRITEMISS" =>
           caches'[m.id][m.block_id] = [state |-> "MODIFIED", address |-> m.address, data |-> m.value]
  <2>1. CASE m.access = "WRITEMISS"
    <3>1. m.value \in Int /\ "MODIFIED" \in CacheState
      BY <1>3 DEF Message, CacheState
    <3> QED
      BY <1>3, <1>4, <2>1, <3>1, FillStep
  <2>2. CASE m.access # "WRITEMISS"
    BY <1>4, <2>2 DEF StepsInv, StepsTypes, StepsTypeOK, Caches
  <2> QED
    BY <2>1, <2>2
<1>6. task' # Idle
  BY <1>4 DEF Idle
<1>7. Holders(caches', m.address, m.id) = Holders(caches, m.address, m.id)
  BY <1>5, SameHolders
<1>8. StepsTypes'
  <2>1. memory' \in [MemAddress -> Int]
    BY <1>2, <1>3, WriteBackType
  <2>2. task'.search \in Search /\ task'.data \in Int
    BY <1>4 DEF Task
  <2> QED
    BY <1>2, <1>3, <1>4, <1>5, <1>7, <2>1, <2>2 DEF StepsInv, StepsTypes, StepsTypeOK, Caches
<1>9. \A c : Serves(c)' <=> c = m.id
  BY <1>4, <1>6 DEF Serves
<1>10. OneRequestInFlight'
  <2> DEFINE W(c) == InQueue(c) \cup (IF Serves(c) THEN {0} ELSE {})
  <2>1. ASSUME NEW c \in Core
        PROVE  /\ \A n, j \in W(c)' : n = j
               /\ \A n \in W(c)' : /\ pc'[c] = "sleeping"
                                  /\ request'[c] = IF n = 0 THEN task'.m ELSE queue'[n]
    <3>1. CASE c = m.id
      <4>1. W(c)' = {0}
        BY <1>3, <1>9, <3>1
      <4> QED
        BY <1>2, <1>3, <1>4, <3>1, <4>1
    <3>2. CASE c # m.id
      <4>1. W(c)' = InQueue(c)'
        BY <1>9, <3>2
      <4>2. \A n \in InQueue(c)' : /\ n \in Nat \ {0} /\ n + 1 \in InQueue(c)
                                  /\ queue'[n] = queue[n + 1]
        BY <1>3, <3>2 DEF InQueue
      <4>3. /\ \A n, j \in InQueue(c) : n = j
            /\ \A n \in InQueue(c) : pc[c] = "sleeping" /\ request[c] = queue[n]
        <5>1. 0 \notin InQueue(c)
          BY DEF InQueue
        <5> QED
          BY <5>1 DEF StepsInv, OneRequestInFlight
      <4>4. \A n, j \in InQueue(c)' : n = j
        <5>1. \A n, j \in InQueue(c)' : n + 1 = j + 1 /\ n \in Nat /\ j \in Nat
          BY <4>2, <4>3
        <5> QED
          BY <5>1
      <4> HIDE DEF W
      <4> QED
        BY <1>2, <4>1, <4>2, <4>3, <4>4
    <3> QED
      BY <3>1, <3>2
  <2> QED
    BY <2>1 DEF OneRequestInFlight
<1>11. StillFits' /\ NoStoreByAnswered'
  BY <1>4 DEF StillFits, NoStoreByAnswered
<1>12. FilledFirst'
  BY <1>4, <1>5 DEF FilledFirst, Target, Dirty
<1>13. AnsweredLineIsKept'
  <2>1. ASSUME NEW c \in Core, Answered(c)'
        PROVE  Answered(c) /\ caches'[c] = caches[c]
    <3>1. c # m.id
      BY <1>9, <2>1 DEF Answered
    <3> QED
      BY <1>2, <1>3, <1>5, <2>1, <3>1 DEF Answered, Serves
  <2> QED
    BY <1>2, <2>1 DEF StepsInv, AnsweredLineIsKept, Answered
<1> QED
  BY <1>8, <1>10, <1>11, <1>12, <1>13 DEF StepsInv

(***************************************************************************)
(* The theorems.                                                           *)
(***************************************************************************)
LEMMA StepsInvInitially == StepsInit => StepsInv
<1> SUFFICES ASSUME StepsInit
             PROVE  StepsInv
  OBVIOUS
<1>1. Init /\ task = Idle
  BY DEF StepsInit
<1>2. TypeOK
  BY <1>1, InitType
<1>3. queue = <<>> /\ \A c \in Core : pc[c] = "ready"
  BY <1>1 DEF Init
<1>4. Len(queue) <= MAX_MESSAGES
  BY <1>3, SimulatorAssumption
<1>5. Idle \in Task
  BY BusAssumption DEF Idle, Task, Search
<1>6. StepsTypes
  BY <1>1, <1>2, <1>4, <1>5 DEF StepsTypes, StepsTypeOK, TypeOK
<1>7. \A c \in Core : InQueue(c) = {} /\ ~Serves(c)
  BY <1>1, <1>3 DEF InQueue, Serves
<1>8. OneRequestInFlight /\ AnsweredLineIsKept
  BY <1>3, <1>7 DEF OneRequestInFlight, AnsweredLineIsKept
<1>9. StillFits /\ FilledFirst /\ NoStoreByAnswered
  BY <1>1 DEF StillFits, FilledFirst, NoStoreByAnswered, Idle
<1> QED
  BY <1>6, <1>8, <1>9 DEF StepsInv

LEMMA StepsInvOnStep == StepsInv /\ [StepsNext]_stepVars => StepsInv'
<1> SUFFICES ASSUME StepsInv, [StepsNext]_stepVars
             PROVE  StepsInv'
  OBVIOUS
<1>1. CASE bus_thread
  BY <1>1, ReceiveKeeps, CopyStateKeeps, CopyDataKeeps, SetStateKeeps, AfterSeekOwnedKeeps,
     AfterSeekSharedKeeps, AfterSeekInvalidateKeeps DEF bus_thread
<1>2. ASSUME NEW c \in Core, core_thread(c)
      PROVE  StepsInv'
  <2>1. StepsTypes
    BY DEF StepsInv
  <2>2. CASE send_step(c)
    BY <2>2, SendStepKeeps
  <2>3. CASE ~send_step(c)
    <3>1. LocalStep(c)
      BY <1>2, <2>1, <2>3, CpuStepIsLocal, StoreStateIsLocal, StoreDataIsLocal, WakeStepIsLocal
         DEF core_thread
    <3> QED
      BY <3>1, LocalStepKeeps
  <2> QED
    BY <2>2, <2>3
<1>3. CASE join_step \/ UNCHANGED stepVars
  <2>1. UNCHANGED <<caches, memory, INV, queue, pc, request, task>>
    BY <1>3 DEF join_step, join_cpu, busVars, cpuVars, stepVars, vars
  <2>2. StepsTypes'
    BY <2>1 DEF StepsInv, StepsTypes, StepsTypeOK
  <2>3. \A c : Serves(c)' = Serves(c) /\ InQueue(c)' = InQueue(c)
    BY <2>1 DEF Serves, InQueue
  <2>4. OneRequestInFlight'
    BY <2>1, <2>3 DEF StepsInv, OneRequestInFlight
  <2>5. AnsweredLineIsKept'
    BY <2>1, <2>3 DEF StepsInv, AnsweredLineIsKept
  <2>6. Now' = Now
    BY <2>1 DEF Now
  <2>7. StillFits' /\ NoStoreByAnswered'
    BY <2>1, <2>3, <2>6 DEF StepsInv, StillFits, NoStoreByAnswered, Answered
  <2>8. FilledFirst'
    BY <2>1 DEF StepsInv, FilledFirst, Target
  <2> QED
    BY <2>2, <2>4, <2>5, <2>7, <2>8 DEF StepsInv
<1> QED
  BY <1>1, <1>2, <1>3 DEF StepsNext

LEMMA StepsInvHolds == StepsSpec => []StepsInv
BY StepsInvInitially, StepsInvOnStep, PTL DEF StepsSpec

\* The variables keep their types, and a search looks only at lines that hold
\* the requested address, although the caches change between its steps.
THEOREM StepsTypeCorrect == StepsSpec => []StepsTypeOK
<1>1. StepsInv => StepsTypeOK
  BY DEF StepsInv, StepsTypes
<1> QED
  BY <1>1, StepsInvHolds, PTL

\* The request that a core waits for is in the queue or with the bus, once.
THEOREM OneRequestInFlightHolds == StepsSpec => []OneRequestInFlight
<1>1. StepsInv => OneRequestInFlight
  BY DEF StepsInv
<1> QED
  BY <1>1, StepsInvHolds, PTL

\* What the bus has answered is still there when the core wakes up, whatever
\* searches for other cores do to the line in the meantime.
THEOREM AnsweredLineIsKeptHolds == StepsSpec => []AnsweredLineIsKept
<1>1. StepsInv => AnsweredLineIsKept
  BY DEF StepsInv
<1> QED
  BY <1>1, StepsInvHolds, PTL

\* The state a search sets follows the table from the state the line is in by
\* then, or makes SHARED a line stored into since it was copied.
THEOREM SearchFollowsTableHolds == StepsSpec => SearchFollowsTable
<1>1. StepsInv /\ task.at = "set" =>
        CASE task.search = "seek_owned"      -> Dirty(Now)
          [] task.search = "seek_shared"     -> Clean(Now) \/ Now.state = "MODIFIED"
          [] task.search = "seek_invalidate" -> Valid(Now)
  BY DEF StepsInv, StillFits
<1> QED
  BY <1>1, StepsInvHolds, PTL DEF SearchFollowsTable, Now

(***************************************************************************)
(* Which steps make an invalid line valid.                                 *)
(***************************************************************************)
Revived(c, i) == ~Valid(caches[c][i]) /\ Valid(caches'[c][i])

\* The steps of the bus on the line of the core it serves.
LEMMA HandlerTouchesItsCore ==
  ASSUME StepsInv, after_seek_owned \/ after_seek_shared \/ after_seek_invalidate
  PROVE  task # Idle /\ \A k \in Core \ {task.m.id} : caches'[k] = caches[k]
<1>1. task # Idle
  BY AtIsNotIdle DEF after_seek_owned, after_seek_shared, after_seek_invalidate
<1>2. UNCHANGED caches \/ \E s, d : caches' = Fill(caches, task.m, s, d)
  BY DEF after_seek_owned, after_seek_shared, after_seek_invalidate, FillAndGoOn
<1>3. caches \in Caches
  BY DEF StepsInv, StepsTypes, StepsTypeOK, Caches
<1> QED
  BY <1>1, <1>2, <1>3 DEF Fill, Caches

LEMMA BusRevivesItsCoreOnly ==
  ASSUME StepsInv, bus_thread, NEW c \in Core, NEW i \in Block, Revived(c, i)
  PROVE  Serves(c) \/ Serves(c)'
<1>1. CASE receive
  <2>1. PICK m : m = Head(queue)
    OBVIOUS
  <2>2. m \in Message /\ m.id \in Core
    BY <1>1, <2>1, ReceiveTakesOne
  <2>3. /\ task'.m = m /\ task'.at \in {"state", "return"}
        /\ caches' = Fill(caches, m, "MODIFIED", m.value) \/ caches' = caches
    BY <1>1, <2>1, <2>2, ReceiveBegins
  <2>4. caches \in Caches
    BY DEF StepsInv, StepsTypes, StepsTypeOK, Caches
  <2>5. c = m.id
    BY <2>3, <2>4 DEF Fill, Caches, Revived
  <2> QED
    BY <2>3, <2>5 DEF Serves, Idle
<1>2. CASE copy_state \/ copy_data
  BY <1>2 DEF copy_state, copy_data, vars, Revived
<1>3. CASE set_state
  <2> DEFINE j == getCacheBlock_by_address(caches[task.core], task.m.address)
  <2>1. /\ Now = caches[task.core][j]
        /\ \/ caches'[c][i].state = caches[c][i].state
           \/ c = task.core /\ i = j /\ caches'[c][i].state = SetTo[task.search]
    BY <1>3, SetStateSetsOneLine
  <2>2. task.at = "set" /\ task.search \in Search
    BY <1>3 DEF set_state, StepsInv, StepsTypes, Task
  <2>3. caches[c][i] = Now /\ caches'[c][i].state = SetTo[task.search]
    <3> HIDE DEF j
    <3> QED
      BY <2>1 DEF Revived, Valid
  <2>4. task.search = "seek_invalidate"
    BY <2>2, <2>3 DEF StepsInv, StillFits, Search, Valid, Dirty, Clean, Revived
  <2> QED
    BY <2>3, <2>4 DEF Revived, Valid, SetTo, Search
<1>4. CASE after_seek_owned \/ after_seek_shared \/ after_seek_invalidate
  BY <1>4, HandlerTouchesItsCore DEF Revived, Serves
<1> QED
  BY <1>1, <1>2, <1>3, <1>4 DEF bus_thread

LEMMA CoreRevivesByAStoreOnly ==
  ASSUME StepsInv, NEW k \in Core, core_thread(k), NEW c \in Core, NEW i \in Block, Revived(c, i)
  PROVE  pc[c] = "hit" /\ request[c].block_id = i
<1>1. StepsTypes
  BY DEF StepsInv
<1>2. ~send_step(k)
  BY DEF send_step, send_message, busVars, Revived
<1>3. ~cpu_step(k) /\ ~wake_step(k)
  BY <1>1, CpuStepIsLocal, WakeStepIsLocal DEF Revived
<1>4. ~store_data(k)
  <2> SUFFICES ASSUME store_data(k)
               PROVE  FALSE
    OBVIOUS
  <2>1. LocalStep(k) /\ \A j \in Block : caches'[k][j].state = caches[k][j].state
    BY <1>1, StoreDataIsLocal
  <2>2. c = k
    BY <2>1 DEF LocalStep, StoredInto, Revived
  <2> QED
    BY <2>1, <2>2 DEF Revived, Valid
<1>5. CASE store_state(k)
  <2>1. LocalStep(k)
    BY <1>1, <1>5, StoreStateIsLocal
  <2>2. c = k
    BY <2>1 DEF LocalStep, StoredInto, Revived
  <2>3. /\ pc[k] = "hit"
        /\ caches' = [caches EXCEPT ![k][request[k].block_id].state = "MODIFIED"]
    BY <1>5 DEF store_state
  <2>4. caches \in Caches
    BY <1>1 DEF StepsTypes, StepsTypeOK, Caches
  <2>5. i # request[k].block_id => caches'[k][i] = caches[k][i]
    BY <2>2, <2>3, <2>4 DEF Caches
  <2> QED
    BY <2>2, <2>3, <2>5 DEF Revived
<1> QED
  BY <1>2, <1>3, <1>4, <1>5 DEF core_thread

\* A line that was invalidated comes back only by a handler for its own core or
\* by a store whose test came before the invalidation.
THEOREM RevivedByItsCoreOnlyHolds == StepsSpec => RevivedByItsCoreOnly
<1> DEFINE P == \A c \in Core : \A i \in Block :
                  ~Valid(caches[c][i]) /\ Valid(caches'[c][i]) =>
                    \/ Serves(c) \/ Serves(c)'
                    \/ pc[c] = "hit" /\ request[c].block_id = i
<1>1. StepsInv /\ [StepsNext]_stepVars => P
  <2> SUFFICES ASSUME StepsInv, [StepsNext]_stepVars, NEW c \in Core, NEW i \in Block,
                      Revived(c, i)
               PROVE  \/ Serves(c) \/ Serves(c)'
                      \/ pc[c] = "hit" /\ request[c].block_id = i
    BY DEF Revived
  <2>1. CASE bus_thread
    BY <2>1, BusRevivesItsCoreOnly
  <2>2. CASE \E k \in Core : core_thread(k)
    BY <2>2, CoreRevivesByAStoreOnly
  <2>3. CASE join_step \/ UNCHANGED stepVars
    BY <2>3 DEF join_step, join_cpu, busVars, stepVars, vars, Revived
  <2> QED
    BY <2>1, <2>2, <2>3 DEF StepsNext
<1> HIDE DEF P
<1>2. StepsInv /\ [StepsNext]_stepVars => [P]_stepVars
  BY <1>1
<1>3. StepsSpec => [][P]_stepVars
  BY <1>2, StepsInvHolds, PTL DEF StepsSpec
<1> QED
  BY <1>3 DEF P, RevivedByItsCoreOnly
=============================================================================
