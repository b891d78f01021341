--------------------------- MODULE RestartProofs ---------------------------
(***************************************************************************)
(* Proofs about the counters of invalidations, in one run of the program   *)
(* and across a kill and a restart, and about what the restarted program   *)
(* keeps of the promises of module Coherence.                              *)
(***************************************************************************)
EXTENDS Restart, RequestProofs, ServiceProofs, FiniteSetTheorems

(***************************************************************************)
(* How many stores of a core wait in the queue.                            *)
(***************************************************************************)
LEMMA StoresAreFinite ==
  ASSUME TypeOK, NEW c \in Core
  PROVE  IsFiniteSet(StoresInQueue(c)) /\ Cardinality(StoresInQueue(c)) \in Nat
<1>1. Len(queue) \in Nat
  BY LenProperties DEF TypeOK
<1>2. IsFiniteSet(1 .. Len(queue))
  BY <1>1, FS_Interval
<1>3. StoresInQueue(c) \in SUBSET (1 .. Len(queue))
  BY DEF StoresInQueue, InQueue
<1> QED
  BY <1>2, <1>3, FS_Subset, FS_CardinalityType

\* One more when the core sends a store.
LEMMA StoresOnSend ==
  ASSUME TypeOK, NEW m \in Message, queue' = Append(queue, m), NEW c \in Core
  PROVE  Cardinality(StoresInQueue(c))' =
           Cardinality(StoresInQueue(c)) + (IF m.id = c /\ m.access \in Stores THEN 1 ELSE 0)
<1> DEFINE last == Len(queue) + 1
<1>1. Len(queue) \in Nat
  BY LenProperties DEF TypeOK
<1>2. /\ InQueue(c)' = InQueue(c) \cup (IF m.id = c THEN {last} ELSE {})
      /\ \A n \in InQueue(c) : queue'[n] = queue[n]
      /\ queue'[last] = m
  BY AppendPositions
<1>3. last \notin StoresInQueue(c)
  BY <1>1 DEF StoresInQueue, InQueue
<1>4. StoresInQueue(c)' =
        StoresInQueue(c) \cup (IF m.id = c /\ m.access \in Stores THEN {last} ELSE {})
  BY <1>2 DEF StoresInQueue
<1>5. /\ IsFiniteSet(StoresInQueue(c)) /\ Cardinality(StoresInQueue(c)) \in Nat
      /\ Cardinality(StoresInQueue(c) \cup {last}) = Cardinality(StoresInQueue(c)) + 1
  BY <1>3, StoresAreFinite, FS_AddElement
<1>6. CASE m.id = c /\ m.access \in Stores
  BY <1>4, <1>5, <1>6
<1>7. CASE ~(m.id = c /\ m.access \in Stores)
  <2>1. StoresInQueue(c)' = StoresInQueue(c)
    BY <1>4, <1>7
  <2> QED
    BY <1>5, <1>7, <2>1
<1> QED
  BY <1>6, <1>7

\* One less when the bus receives a store of the core: the others move up.
LEMMA StoresOnReceive ==
  ASSUME TypeOK, queue # <<>>, queue' = Tail(queue), NEW c \in Core
  PROVE  Cardinality(StoresInQueue(c))' =
           Cardinality(StoresInQueue(c))
             - (IF Head(queue).id = c /\ Head(queue).access \in Stores THEN 1 ELSE 0)
<1> DEFINE S == StoresInQueue(c) \ {1}
           T == StoresInQueue(c)'
           f == [n \in S |-> n - 1]
<1>1. /\ \A n \in InQueue(c)' : n + 1 \in InQueue(c) /\ queue'[n] = queue[n + 1]
      /\ \A n \in InQueue(c) : n = 1 \/ n - 1 \in InQueue(c)'
      /\ 1 \in InQueue(c) <=> Head(queue).id = c
      /\ queue[1] = Head(queue)
  BY TailPositions
<1>2. InQueue(c) \subseteq Nat \ {0} /\ InQueue(c)' \subseteq Nat \ {0}
  BY DEF InQueue
<1>3. /\ \A n \in S : n \in Nat \ {0, 1} /\ n - 1 \in T
      /\ \A n \in T : n \in Nat \ {0} /\ n + 1 \in S
  <2>1. ASSUME NEW n \in S
        PROVE  n \in Nat \ {0, 1} /\ n - 1 \in T
    <3>1. n \in InQueue(c) /\ queue[n].access \in Stores /\ n \in Nat \ {0, 1}
      BY <1>2 DEF StoresInQueue
    <3>2. n - 1 \in InQueue(c)' /\ (n - 1) + 1 = n
      BY <1>1, <3>1
    <3>3. queue'[n - 1] = queue[n]
      BY <1>1, <3>2
    <3> QED
      BY <3>1, <3>2, <3>3 DEF StoresInQueue
  <2>2. ASSUME NEW n \in T
        PROVE  n \in Nat \ {0} /\ n + 1 \in S
    <3>1. n \in InQueue(c)' /\ queue'[n].access \in Stores /\ n \in Nat \ {0}
      BY <1>2 DEF StoresInQueue
    <3>2. n + 1 \in InQueue(c) /\ queue'[n] = queue[n + 1]
      BY <1>1, <3>1, Zenon
    <3>3. n + 1 # 1
      BY <3>1
    <3> QED
      BY <3>1, <3>2, <3>3 DEF StoresInQueue
  <2> QED
    BY <2>1, <2>2
<1>4. f \in Bijection(S, T)
  <2>1. f \in [S -> T] /\ \A n \in S : f[n] = n - 1
    BY <1>3
  <2>2. \A n, j \in S : f[n] = f[j] => n = j
    BY <1>3, <2>1
  <2>3. \A n \in T : \E j \in S : f[j] = n
    <3> TAKE n \in T
    <3>1. n + 1 \in S /\ f[n + 1] = n
      BY <1>3, <2>1
    <3> QED
      BY <3>1
  <2> HIDE DEF f, S, T
  <2> QED
    BY <2>1, <2>2, <2>3 DEF Bijection, Injection, Surjection, IsInjective
<1>5. IsFiniteSet(StoresInQueue(c)) /\ Cardinality(StoresInQueue(c)) \in Nat
  BY StoresAreFinite
<1>6. /\ IsFiniteSet(S)
      /\ Cardinality(S) = IF 1 \in StoresInQueue(c) THEN Cardinality(StoresInQueue(c)) - 1
                                                    ELSE Cardinality(StoresInQueue(c))
  BY <1>5, FS_RemoveElement, Zenon
<1>7. Cardinality(T) = Cardinality(S)
  BY <1>4, <1>6, FS_Bijection DEF ExistsBijection
<1>8. 1 \in StoresInQueue(c) <=> Head(queue).id = c /\ Head(queue).access \in Stores
  BY <1>1 DEF StoresInQueue
<1> QED
  BY <1>5, <1>6, <1>7, <1>8

LEMMA StoresUnchanged ==
  ASSUME UNCHANGED queue, NEW c \in Core
  PROVE  Cardinality(StoresInQueue(c))' = Cardinality(StoresInQueue(c))
BY DEF StoresInQueue, InQueue

(***************************************************************************)
(* A core spends on invalidations no more than it has earned with stores.  *)
(***************************************************************************)
Spent(c) == INV[c] + Cardinality(StoresInQueue(c))

Earned(c) ==
  responses[c]["WRITE"] + responses[c]["INCR"]
    + (IF pc[c] = "sleeping" /\ request[c].access \in Stores THEN 1 ELSE 0)

\* The step spends no more than it earns.
StepPaysFor(c) == Spent(c)' + Earned(c) <= Spent(c) + Earned(c)'

\* Only a READ sends a second request.  Without this fact a store whose core
\* goes on to send a READ would be spent and never earned.
OnlyReadsGoAgain ==
  \A c \in Core : again[c] => pc[c] # "ready" /\ request[c].access = "READMISS"

LEMMA CountsAreNumbers ==
  ASSUME TypeOK, NEW c \in Core
  PROVE  /\ INV[c] \in Nat /\ Cardinality(StoresInQueue(c)) \in Nat
         /\ responses[c]["WRITE"] \in Nat /\ responses[c]["INCR"] \in Nat
         /\ responses[c]["READ"] \in Nat
BY StoresAreFinite DEF TypeOK, Operation

AmountsAreNumbers == \A c \in Core : Spent(c) \in Int /\ Earned(c) \in Int

\* A core whose part of the state does not change spends and earns nothing.
LEMMA NothingSpent ==
  ASSUME TypeOK, NEW k \in Core, UNCHANGED queue, INV'[k] = INV[k], pc'[k] = pc[k],
         request'[k] = request[k], responses'[k] = responses[k]
  PROVE  StepPaysFor(k)
<1>1. Spent(k)' = Spent(k)
  BY StoresUnchanged DEF Spent
<1>2. Earned(k)' = Earned(k)
  BY DEF Earned
<1>3. Spent(k) \in Int /\ Earned(k) \in Int
  BY CountsAreNumbers DEF Spent, Earned
<1> QED
  BY <1>1, <1>2, <1>3 DEF StepPaysFor

\* An instruction that ends is earned if it was a store, and one that the core
\* slept on was counted before.
LEMMA CompleteEarns ==
  ASSUME TypeOK, NEW c \in Core, NEW op \in Operation, Complete(c, op), UNCHANGED <<queue, INV>>,
         pc[c] = "ready" \/ (pc[c] = "sleeping" /\ op = OperationOf(request[c].access))
  PROVE  StepPaysFor(c)
<1>1. Spent(c)' = Spent(c) /\ Spent(c) \in Int
  BY StoresUnchanged, CountsAreNumbers DEF Spent
<1>2. /\ pc'[c] = "ready"
      /\ responses'[c] = [responses[c] EXCEPT ![op] = @ + 1]
  BY DEF Complete, TypeOK
<1>3. responses[c] \in [Operation -> Nat] /\ {"READ", "WRITE", "INCR"} = Operation
  BY DEF TypeOK, Operation
<1>4. Earned(c)' = responses'[c]["WRITE"] + responses'[c]["INCR"]
  BY <1>2, <1>3 DEF Earned
<1>5. pc[c] = "sleeping" => request[c].access \in AccessType
  BY DEF TypeOK, Message
<1>6. CASE pc[c] = "sleeping" /\ request[c].access \in Stores
  <2>1. op \in {"WRITE", "INCR"}
    BY <1>6 DEF OperationOf, Stores
  <2>2. Earned(c) = responses[c]["WRITE"] + responses[c]["INCR"] + 1
    BY <1>6 DEF Earned
  <2>3. responses'[c]["WRITE"] + responses'[c]["INCR"] = responses[c]["WRITE"] + responses[c]["INCR"] + 1
    BY <1>2, <1>3, <2>1
  <2> QED
    BY <1>1, <1>4, <2>2, <2>3, CountsAreNumbers DEF StepPaysFor
<1>7. CASE ~(pc[c] = "sleeping" /\ request[c].access \in Stores)
  <2>1. Earned(c) = responses[c]["WRITE"] + responses[c]["INCR"]
    BY <1>3, <1>7 DEF Earned
  <2>2. responses'[c]["WRITE"] >= responses[c]["WRITE"] /\ responses'[c]["INCR"] >= responses[c]["INCR"]
    BY <1>2, <1>3
  <2>3. responses'[c]["WRITE"] \in Nat /\ responses'[c]["INCR"] \in Nat
    BY <1>2, <1>3
  <2> QED
    BY <1>1, <1>4, <2>1, <2>2, <2>3, CountsAreNumbers DEF StepPaysFor
<1> QED
  BY <1>6, <1>7

\* A request that is built is neither spent nor earned.
LEMMA MissEarnsNothing ==
  ASSUME TypeOK, NEW c \in Core, NEW op, NEW a, NEW d, NEW i, Miss(c, op, a, d, i),
         UNCHANGED <<queue, INV, responses>>,
         pc[c] = "ready" \/ request[c].access \notin Stores
  PROVE  StepPaysFor(c)
<1>1. Spent(c)' = Spent(c) /\ Spent(c) \in Int
  BY StoresUnchanged, CountsAreNumbers DEF Spent
<1>2. pc'[c] = "sending"
  BY DEF Miss, TypeOK
<1>3. Earned(c)' = Earned(c) /\ Earned(c) \in Int
  <2>1. Earned(c)' = responses[c]["WRITE"] + responses[c]["INCR"]
    BY <1>2, CountsAreNumbers DEF Earned
  <2>2. Earned(c) = responses[c]["WRITE"] + responses[c]["INCR"]
    BY CountsAreNumbers DEF Earned
  <2> QED
    BY <2>1, <2>2, CountsAreNumbers
<1> QED
  BY <1>1, <1>3 DEF StepPaysFor

LEMMA CpuThreadPays ==
  ASSUME TypeOK, NEW c \in Core, cpu_thread(c), NEW k \in Core
  PROVE  StepPaysFor(k)
<1>1. PICK a \in Address, d \in Int : \/ readCacheBlock(c, a)
                                     \/ StoreCacheBlock(c, "WRITE", a, d)
                                     \/ StoreCacheBlock(c, "INCR", a, d)
  BY CpuThreadExecutes
<1>2. pc[c] = "ready" /\ UNCHANGED queue
  BY DEF cpu_thread
<1>3. UNCHANGED INV
  BY <1>1 DEF readCacheBlock, StoreCacheBlock, busVars
<1>4. \/ \E op \in Operation : Complete(c, op)
      \/ \E op, i : Miss(c, op, a, d, i) /\ UNCHANGED responses
      \/ \E op, i : Miss(c, op, a, 0, i) /\ UNCHANGED responses
  <2>1. CASE readCacheBlock(c, a)
    BY <2>1 DEF readCacheBlock, Operation
  <2>2. CASE StoreCacheBlock(c, "WRITE", a, d)
    BY <2>2 DEF StoreCacheBlock, Operation
  <2>3. CASE StoreCacheBlock(c, "INCR", a, d)
    BY <2>3 DEF StoreCacheBlock, Operation
  <2> QED
    BY <1>1, <2>1, <2>2, <2>3
<1>5. CASE k = c
  BY <1>2, <1>3, <1>4, <1>5, CompleteEarns, MissEarnsNothing
<1>6. CASE k # c
  <2>1. pc'[k] = pc[k] /\ request'[k] = request[k] /\ responses'[k] = responses[k]
    BY <1>4, <1>6 DEF Complete, Miss, TypeOK
  <2> QED
    BY <1>2, <1>3, <2>1, NothingSpent
<1> QED
  BY <1>5, <1>6

LEMMA SendPays ==
  ASSUME TypeOK, NEW c \in Core, send_message(c), NEW k \in Core
  PROVE  StepPaysFor(k)
<1>1. PICK m \in Message : m = request[c] /\ m.id = c
  BY DEF TypeOK, send_message
<1>2. queue' = Append(queue, m)
  BY <1>1 DEF send_message
<1>3. /\ pc[c] = "sending" /\ pc'[c] = "sleeping"
      /\ \A j \in Core \ {c} : pc'[j] = pc[j]
      /\ UNCHANGED <<INV, request, responses>>
  BY DEF send_message, busVars, TypeOK
<1> DEFINE spent == IF k = c /\ m.access \in Stores THEN 1 ELSE 0
<1>4. Spent(k)' = Spent(k) + spent /\ Spent(k) \in Int
  <2>1. Cardinality(StoresInQueue(k))' = Cardinality(StoresInQueue(k)) + spent
    BY <1>1, <1>2, StoresOnSend
  <2> QED
    BY <1>3, <2>1, CountsAreNumbers DEF Spent
<1>5. Earned(k)' = Earned(k) + spent /\ Earned(k) \in Int
  BY <1>1, <1>3, CountsAreNumbers DEF Earned
<1> QED
  BY <1>4, <1>5 DEF StepPaysFor

LEMMA WakePays ==
  ASSUME TypeOK, OnlyReadsGoAgain, NEW c \in Core, wake_up(c), NEW k \in Core
  PROVE  StepPaysFor(k)
<1>1. pc[c] = "sleeping" /\ UNCHANGED <<queue, INV>>
  BY DEF wake_up, busVars
<1>2. OperationOf(request[c].access) \in Operation
  BY <1>1 DEF TypeOK, Message, AccessType, OperationOf, Operation
<1>3. \/ /\ again[c]
         /\ Miss(c, "READ", request[c].address, 0, getBlockIdWithWriteBackPolicy(caches[c]))
         /\ UNCHANGED responses
      \/ Complete(c, OperationOf(request[c].access))
  BY DEF wake_up
<1>4. again[c] => request[c].access \notin Stores
  BY DEF OnlyReadsGoAgain, Stores
<1>5. CASE k = c
  BY <1>1, <1>2, <1>3, <1>4, <1>5, CompleteEarns, MissEarnsNothing
<1>6. CASE k # c
  <2>1. pc'[k] = pc[k] /\ request'[k] = request[k] /\ responses'[k] = responses[k]
    BY <1>3, <1>6 DEF Complete, Miss, TypeOK
  <2> QED
    BY <1>1, <2>1, NothingSpent
<1> QED
  BY <1>5, <1>6

\* The bus counts at most one invalidation for a store that it takes out of the
\* queue, and none for a READ.
LEMMA BusPays ==
  ASSUME TypeOK, process_tasks, NEW k \in Core
  PROVE  StepPaysFor(k)
<1>1. PICK m \in Message : m = Head(queue)
  BY HeadTailProperties DEF TypeOK, process_tasks
<1>2. /\ queue # <<>> /\ queue' = Tail(queue)
      /\ UNCHANGED <<pc, request, responses>>
  BY DEF process_tasks, cpuVars
<1> DEFINE received == IF m.id = k /\ m.access \in Stores THEN 1 ELSE 0
<1>3. INV'[k] <= INV[k] + received /\ INV'[k] \in Nat
  <2>1. \/ m.access = "READMISS" /\ INV' = INV
        \/ m.access \in Stores /\ INV' = [INV EXCEPT ![m.id] = @ + 1]
        \/ m.access \in Stores /\ INV' = INV
    BY <1>1 DEF process_tasks, process_writemiss, process_readmiss, process_increment, Stores
  <2> QED
    BY <2>1 DEF TypeOK, Stores
<1>4. Cardinality(StoresInQueue(k))' = Cardinality(StoresInQueue(k)) - received
  BY <1>1, <1>2, StoresOnReceive
<1>5. Earned(k)' = Earned(k) /\ Earned(k) \in Int
  BY <1>2, CountsAreNumbers DEF Earned
<1>6. Spent(k)' <= Spent(k) /\ Spent(k) \in Int /\ Spent(k)' \in Int
  BY <1>3, <1>4, CountsAreNumbers DEF Spent
<1> QED
  BY <1>5, <1>6 DEF StepPaysFor

LEMMA EveryStepPays ==
  ASSUME TypeOK, OnlyReadsGoAgain, [Next]_vars, NEW k \in Core
  PROVE  StepPaysFor(k)
<1>1. CASE process_tasks
  BY <1>1, BusPays
<1>2. ASSUME NEW c \in Core, cpu(c)
      PROVE  StepPaysFor(k)
  BY <1>2, CpuThreadPays, SendPays, WakePays DEF cpu
<1>3. CASE join_cpu \/ UNCHANGED vars
  BY <1>3, NothingSpent DEF join_cpu, busVars, cpuVars, vars
<1> QED
  BY <1>1, <1>2, <1>3 DEF Next

LEMMA OnlyReadsGoAgainStep ==
  ASSUME TypeOK, OnlyReadsGoAgain, [Next]_vars
  PROVE  OnlyReadsGoAgain'
<1>1. ASSUME NEW c \in Core, cpu_thread(c)
      PROVE  OnlyReadsGoAgain'
  <2>1. PICK a \in Address, d \in Int : \/ readCacheBlock(c, a)
                                       \/ StoreCacheBlock(c, "WRITE", a, d)
                                       \/ StoreCacheBlock(c, "INCR", a, d)
    BY <1>1, CpuThreadExecutes
  <2>2. ~again[c]
    BY <1>1 DEF cpu_thread, OnlyReadsGoAgain
  <2>3. \/ UNCHANGED again
        \/ /\ again' = [again EXCEPT ![c] = TRUE]
           /\ \E i : Miss(c, "READ", a, 0, i)
    BY <2>1 DEF readCacheBlock, StoreCacheBlock
  <2>4. \A k \in Core \ {c} : pc'[k] = pc[k] /\ request'[k] = request[k]
    BY <2>1 DEF readCacheBlock, StoreCacheBlock, Complete, Miss, TypeOK
  <2>5. ASSUME NEW i, Miss(c, "READ", a, 0, i)
        PROVE  pc'[c] # "ready" /\ request'[c].access = "READMISS"
    BY <2>5 DEF Miss, AccessOf, TypeOK
  <2>6. \A k \in Core \ {c} : again'[k] = again[k]
    BY <2>3 DEF TypeOK
  <2>7. again'[c] => pc'[c] # "ready" /\ request'[c].access = "READMISS"
    BY <2>2, <2>3, <2>5
  <2> QED
    BY <2>4, <2>6, <2>7 DEF OnlyReadsGoAgain
<1>2. ASSUME NEW c \in Core, send_message(c)
      PROVE  OnlyReadsGoAgain'
  BY <1>2 DEF send_message, OnlyReadsGoAgain, TypeOK
<1>3. ASSUME NEW c \in Core, wake_up(c)
      PROVE  OnlyReadsGoAgain'
  <2>1. ~again'[c]
    BY <1>3 DEF wake_up, TypeOK
  <2>2. \A k \in Core \ {c} : again'[k] = again[k] /\ pc'[k] = pc[k] /\ request'[k] = request[k]
    BY <1>3 DEF wake_up, Miss, Complete, TypeOK
  <2> QED
    BY <2>1, <2>2 DEF OnlyReadsGoAgain
<1>4. CASE process_tasks \/ join_cpu \/ UNCHANGED vars
  BY <1>4 DEF process_tasks, join_cpu, cpuVars, vars, OnlyReadsGoAgain
<1> QED
  BY <1>1, <1>2, <1>3, <1>4 DEF Next, cpu

LEMMA OnlyReadsGoAgainHolds == Spec => []OnlyReadsGoAgain
<1>1. Init => OnlyReadsGoAgain
  BY DEF Init, OnlyReadsGoAgain
<1> QED
  BY <1>1, OnlyReadsGoAgainStep, TypeCorrect, PTL DEF Spec

\* Nothing is spent or earned at the start of the program.
LEMMA NothingSpentAtFirst ==
  ASSUME Init, NEW c \in Core
  PROVE  Spent(c) = 0 /\ Earned(c) = 0
<1>1. StoresInQueue(c) = {}
  <2>1. Len(queue) = 0
    BY EmptySeq DEF Init
  <2> QED
    BY <2>1 DEF StoresInQueue, InQueue
<1>2. Cardinality(StoresInQueue(c)) = 0 /\ INV[c] = 0
  BY <1>1, FS_EmptySet DEF Init, BusInit
<1>3. pc[c] = "ready" /\ responses[c]["WRITE"] = 0 /\ responses[c]["INCR"] = 0
  BY DEF Init, Operation
<1> QED
  BY <1>2, <1>3 DEF Spent, Earned

\* No core counts more invalidations than it has stores to show for them, even
\* if it wakes up and goes on before the bus has served them.
THEOREM InvalidationsAccountedHolds == Spec => []InvalidationsAccounted
<1> DEFINE Paid == \A c \in Core : Spent(c) <= Earned(c)
<1>1. Init => Paid
  BY NothingSpentAtFirst
<1>2. TypeOK => AmountsAreNumbers
  BY CountsAreNumbers DEF AmountsAreNumbers, Spent, Earned
<1>3. TypeOK /\ OnlyReadsGoAgain /\ Paid /\ AmountsAreNumbers /\ AmountsAreNumbers' /\ [Next]_vars => Paid'
  <2> SUFFICES ASSUME TypeOK, AmountsAreNumbers, AmountsAreNumbers', OnlyReadsGoAgain, Paid,
                      [Next]_vars, NEW c \in Core
               PROVE  Spent(c)' <= Earned(c)'
    OBVIOUS
  <2>1. Spent(c)' + Earned(c) <= Spent(c) + Earned(c)'
    BY EveryStepPays DEF StepPaysFor
  <2>2. Spent(c) \in Int /\ Earned(c) \in Int /\ Spent(c) <= Earned(c)
    BY DEF AmountsAreNumbers
  <2>3. Spent(c)' \in Int /\ Earned(c)' \in Int
    BY DEF AmountsAreNumbers
  <2> QED
    BY <2>1, <2>2, <2>3
<1>4. Paid => InvalidationsAccounted
  BY DEF Spent, Earned, InvalidationsAccounted
<1> HIDE DEF Paid
<1> QED
  BY <1>1, <1>2, <1>3, <1>4, OnlyReadsGoAgainHolds, TypeCorrect, PTL DEF Spec

(***************************************************************************)
(* The program killed and started again.                                   *)
(***************************************************************************)
RestartTypeOK ==
  /\ TypeOK
  /\ inherited \in [Core -> Nat]

\* A step is one of the running program, which does not touch the variables of
\* module Restart, or a kill and a start.
LEMMA RestartSteps ==
  ASSUME [RestartNext]_restartVars
  PROVE  ([Next]_vars /\ UNCHANGED inherited) \/ kill_and_start
BY DEF RestartNext, restartVars, vars

\* What a new program finds: the queue as it was, and all else as at the start.
LEMMA NewProgram ==
  ASSUME kill_and_start
  PROVE  /\ UNCHANGED queue
         /\ TypeOK => TypeOK'
         /\ NoOwnerInMesi'
         /\ OnlyReadsGoAgain'
         /\ \A c \in Core : pc'[c] = "ready" /\ INV'[c] = 0
         /\ \A c \in Core, op \in Operation : responses'[c][op] = 0
<1>1. caches' \in [Core -> [Block -> CacheBlock]]
  BY DEF kill_and_start, NewBus, initializeCache, CacheBlock, CacheState
<1>2. memory' \in [MemAddress -> Int]
  <2>1. memory' \in [MemAddress -> MemoryData]
    BY DEF kill_and_start, NewBus, memory_init
  <2>2. MemoryData \subseteq Int
    BY SimulatorAssumption
  <2> QED
    BY <2>1, <2>2
<1>3. main' \in 0 .. N_CPU /\ UNCHANGED queue
  BY BusAssumption DEF kill_and_start
<1>4. /\ pc' = [c \in Core |-> "ready"]
      /\ request' = [c \in Core |-> NoRequest]
      /\ again' = [c \in Core |-> FALSE]
      /\ responses' = [c \in Core |-> [op \in Operation |-> 0]]
      /\ INV' = [c \in Core |-> 0]
  BY DEF kill_and_start, NewBus
<1>5. TypeOK => TypeOK'
  BY <1>1, <1>2, <1>3, <1>4 DEF TypeOK
<1>6. NoOwnerInMesi'
  BY DEF kill_and_start, NewBus, initializeCache, NoOwnerInMesi, HasNoOwner
<1>7. OnlyReadsGoAgain'
  BY <1>4 DEF OnlyReadsGoAgain
<1> QED
  BY <1>3, <1>4, <1>5, <1>6, <1>7

\* The types and the two facts that the properties rest on survive a restart.
LEMMA RestartInvariants == RestartSpec => [](RestartTypeOK /\ NoOwnerInMesi /\ OnlyReadsGoAgain)
<1> DEFINE I == RestartTypeOK /\ NoOwnerInMesi /\ OnlyReadsGoAgain
<1>1. RestartInit => I
  <2> SUFFICES ASSUME RestartInit PROVE I
    OBVIOUS
  <2>1. TypeOK
    BY InitType DEF RestartInit
  <2>2. inherited \in [Core -> Nat]
    BY DEF RestartInit
  <2>3. NoOwnerInMesi
    BY DEF RestartInit, Init, BusInit, initializeCache, NoOwnerInMesi, HasNoOwner
  <2>4. OnlyReadsGoAgain
    BY DEF RestartInit, Init, OnlyReadsGoAgain
  <2> QED
    BY <2>1, <2>2, <2>3, <2>4 DEF RestartTypeOK
<1>2. I /\ [RestartNext]_restartVars => I'
  <2> SUFFICES ASSUME I, [RestartNext]_restartVars PROVE I'
    OBVIOUS
  <2>1. CASE [Next]_vars /\ UNCHANGED inherited
    BY <2>1, NextType, StepMakesNoOwner, OnlyReadsGoAgainStep DEF RestartTypeOK
  <2>2. CASE kill_and_start
    <3>1. inherited' \in [Core -> Nat]
      BY <2>2, StoresAreFinite DEF kill_and_start, RestartTypeOK
    <3> QED
      BY <2>2, <3>1, NewProgram DEF RestartTypeOK
  <2> QED
    BY <2>1, <2>2, RestartSteps
<1> QED
  BY <1>1, <1>2, PTL DEF RestartSpec

\* However often the program is killed, and wherever: each invalidation that a
\* core counts is a store of the new program or one that it found in the queue.
THEOREM InheritedStoresAccountedHolds == RestartSpec => []InheritedStoresAccounted
<1> DEFINE Paid == \A c \in Core : Spent(c) <= Earned(c) + inherited[c]
           I    == RestartTypeOK /\ NoOwnerInMesi /\ OnlyReadsGoAgain
<1>1. RestartInit => Paid
  BY NothingSpentAtFirst DEF RestartInit
<1>2. I => AmountsAreNumbers
  BY CountsAreNumbers DEF RestartTypeOK, AmountsAreNumbers, Spent, Earned
<1>3. I /\ Paid /\ AmountsAreNumbers /\ AmountsAreNumbers' /\ [RestartNext]_restartVars => Paid'
  <2> SUFFICES ASSUME I, Paid, AmountsAreNumbers, AmountsAreNumbers', [RestartNext]_restartVars,
                      NEW c \in Core
               PROVE  Spent(c)' <= Earned(c)' + inherited'[c]
    OBVIOUS
  <2>1. CASE [Next]_vars /\ UNCHANGED inherited
    <3>1. Spent(c)' + Earned(c) <= Spent(c) + Earned(c)'
      BY <2>1, EveryStepPays DEF StepPaysFor, RestartTypeOK
    <3>2. /\ Spent(c) \in Int /\ Earned(c) \in Int /\ Spent(c) <= Earned(c) + inherited[c]
          /\ Spent(c)' \in Int /\ Earned(c)' \in Int
          /\ inherited[c] \in Nat /\ inherited'[c] = inherited[c]
      BY <2>1 DEF AmountsAreNumbers, RestartTypeOK
    <3> QED
      BY <3>1, <3>2
  <2>2. CASE kill_and_start
    <3>1. inherited'[c] = Cardinality(StoresInQueue(c)) /\ Cardinality(StoresInQueue(c)) \in Nat
      BY <2>2, StoresAreFinite DEF kill_and_start, RestartTypeOK
    <3>2. /\ UNCHANGED queue /\ INV'[c] = 0 /\ pc'[c] = "ready"
          /\ responses'[c]["WRITE"] = 0 /\ responses'[c]["INCR"] = 0
      BY <2>2, NewProgram DEF Operation
    <3>3. Spent(c)' = Cardinality(StoresInQueue(c))
      BY <3>1, <3>2, StoresUnchanged DEF Spent
    <3>4. Earned(c)' = 0
      BY <3>2 DEF Earned
    <3> QED
      BY <3>1, <3>3, <3>4
  <2> QED
    BY <2>1, <2>2, RestartSteps
<1>4. I /\ Paid => InheritedStoresAccounted
  <2> SUFFICES ASSUME I, Paid, NEW c \in Core
               PROVE  INV[c] + Cardinality(StoresInQueue(c))
                        <= responses[c]["WRITE"] + responses[c]["INCR"] + inherited[c]
                           + (IF pc[c] = "sleeping" /\ request[c].access \in Stores THEN 1 ELSE 0)
    BY DEF InheritedStoresAccounted
  <2>1. Spent(c) <= Earned(c) + inherited[c]
    OBVIOUS
  <2>2. inherited[c] \in Nat
    BY DEF RestartTypeOK
  <2> QED
    BY <2>1, <2>2, CountsAreNumbers DEF Spent, Earned, RestartTypeOK
<1> HIDE DEF Paid, I
<1>5. RestartSpec => []I
  BY RestartInvariants DEF I
<1> QED
  BY <1>1, <1>2, <1>3, <1>4, <1>5, PTL DEF RestartSpec

\* The bus of the new program fills lines coherently, although some of the
\* requests that it serves are for cores of the old one.
THEOREM RestartFillIsCoherent == RestartSpec => ReadFillIsCoherent
<1>1. ASSUME TypeOK, kill_and_start
      PROVE  Served = {}
  <2>1. queue' = queue /\ queue \in Seq(Message)
    BY <1>1, NewProgram DEF TypeOK
  <2>2. queue # <<>> => Len(Tail(queue)) = Len(queue) - 1 /\ Len(queue) \in Nat
    BY <2>1, HeadTailProperties, LenProperties
  <2>3. queue # <<>> => queue # Tail(queue)
    BY <2>2
  <2> QED
    BY <2>1, <2>3 DEF Served
<1>2. RestartTypeOK /\ NoOwnerInMesi /\ [RestartNext]_restartVars =>
        \A m \in Served : Brings(m) /\ m.access = "READMISS" => FillIsCoherent(m)
  <2> SUFFICES ASSUME RestartTypeOK, NoOwnerInMesi, [RestartNext]_restartVars,
                      NEW m \in Served, Brings(m), m.access = "READMISS"
               PROVE  FillIsCoherent(m)
    OBVIOUS
  <2>1. [Next]_vars
    BY <1>1, RestartSteps DEF RestartTypeOK
  <2> QED
    BY <2>1, ServedByTheBus, ReadMissIsCoherent DEF RestartTypeOK
<1> QED
  BY <1>2, RestartInvariants, PTL DEF RestartSpec, ReadFillIsCoherent, FillIsCoherent
=============================================================================
