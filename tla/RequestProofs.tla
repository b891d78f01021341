--------------------------- MODULE RequestProofs ---------------------------
(***************************************************************************)
(* Proofs about the requests in flight: with a sleep that outlasts the bus *)
(* each core has at most one of them, which still fits its cache when the  *)
(* bus serves it, and only a READ brings an address to a second line.      *)
(***************************************************************************)
EXTENDS MoesiProofs

(***************************************************************************)
(* The inductive invariant about the requests in flight.                   *)
(***************************************************************************)
\* A request that is being sent, or waits in the queue, has chosen a line that
\* the policy may give up.
ChoiceStands(c) ==
  \/ Chosen(c).address = request[c].address
  \/ request[c].block_id = 0
  \/ ~Clean(Chosen(c))

\* A request that has been served has left its line in place.
LineIsKept(c) ==
  /\ Chosen(c).address = request[c].address
  /\ request[c].access = "WRITEMISS" /\ Valid(Chosen(c)) =>
       Dirty(Chosen(c)) /\ Chosen(c).data = request[c].value

OneRequest(c) ==
  /\ \A n, j \in InQueue(c) : n = j
  /\ \A n \in InQueue(c) : pc[c] = "sleeping" /\ queue[n] = request[c]

RequestInv ==
  \A c \in Core :
    /\ OneRequest(c)
    /\ pc[c] = "sending" \/ InQueue(c) # {} => ChoiceStands(c)
    /\ pc[c] = "sleeping" /\ InQueue(c) = {} => LineIsKept(c)

\* How the queue positions of a core change.
LEMMA AppendPositions ==
  ASSUME TypeOK, NEW m \in Message, queue' = Append(queue, m), NEW c \in Core
  PROVE  /\ InQueue(c)' = InQueue(c) \cup (IF m.id = c THEN {Len(queue) + 1} ELSE {})
         /\ \A n \in InQueue(c) : queue'[n] = queue[n]
         /\ queue'[Len(queue) + 1] = m
<1>1. queue \in Seq(Message) /\ Len(queue) \in Nat
  BY LenProperties DEF TypeOK
<1>2. Len(queue') = Len(queue) + 1 /\ queue'[Len(queue) + 1] = m
  BY <1>1, AppendProperties
<1>3. \A n \in 1 .. Len(queue) : queue'[n] = queue[n]
  BY <1>1, AppendProperties
<1> QED
  BY <1>1, <1>2, <1>3 DEF InQueue

LEMMA TailPositions ==
  ASSUME TypeOK, queue # <<>>, queue' = Tail(queue), NEW c \in Core
  PROVE  /\ \A n \in InQueue(c)' : n + 1 \in InQueue(c) /\ queue'[n] = queue[n + 1]
         /\ \A n \in InQueue(c) : n = 1 \/ n - 1 \in InQueue(c)'
         /\ 1 \in InQueue(c) <=> Head(queue).id = c
         /\ queue[1] = Head(queue)
<1>1. queue \in Seq(Message) /\ Len(queue) \in Nat \ {0}
  BY EmptySeq DEF TypeOK
<1>2. Len(queue') = Len(queue) - 1
  BY <1>1, HeadTailProperties
<1>3. \A n \in 1 .. Len(queue) - 1 : queue'[n] = queue[n + 1]
  BY <1>1, <1>2, HeadTailProperties
<1>4. Head(queue) = queue[1]
  BY <1>1
<1> QED
  BY <1>1, <1>2, <1>3, <1>4 DEF InQueue
\* What a request looks like just after Miss has chosen its line.
LEMMA PolicyIsJustified ==
  ASSUME NEW cache, NEW v, v = getBlockIdWithWriteBackPolicy(cache)
  PROVE  v \in Block /\ (v = 0 \/ ~Clean(cache[v]))
<1> DEFINE In(s) == {i \in Block : cache[i].state = s}
<1>1. v \in Block
  BY VictimIsALine
<1>2. \A s : In(s) # {} => Min(In(s)) \in In(s)
  <2>1. \A s : In(s) \in SUBSET Nat
    BY CacheAssumption DEF Block
  <2> HIDE DEF In
  <2> QED
    BY <2>1, MinIsMember
<1>3. v = 0 \/ cache[v].state = "INVALID" \/ cache[v].state = "MODIFIED"
  BY <1>2 DEF getBlockIdWithWriteBackPolicy
<1> QED
  BY <1>1, <1>3 DEF Clean

\* A core that starts a request, or an instruction that hits, disturbs neither
\* the requests of other cores nor the lines they have chosen.
RequestOfOthersKept(c) ==
  \A k \in Core \ {c} :
    pc'[k] = pc[k] /\ request'[k] = request[k] /\ caches'[k] = caches[k]

LEMMA OthersKeepTheirPart ==
  ASSUME TypeOK, RequestInv, NEW c \in Core, RequestOfOthersKept(c), queue' = queue,
         NEW k \in Core \ {c}
  PROVE  /\ OneRequest(k)'
         /\ pc'[k] = "sending" \/ InQueue(k)' # {} => ChoiceStands(k)'
         /\ pc'[k] = "sleeping" /\ InQueue(k)' = {} => LineIsKept(k)'
BY DEF RequestInv, RequestOfOthersKept, OneRequest, ChoiceStands, LineIsKept, Chosen, InQueue

\* The step of the core itself, when it has no request in the queue: it gets
\* ready for the next instruction or has chosen a line for a new request.
LEMMA OwnStepKeepsRequestInv ==
  ASSUME TypeOK, RequestInv, NEW c \in Core, RequestOfOthersKept(c), queue' = queue,
         InQueue(c) = {},
         \/ pc'[c] = "ready"
         \/ pc'[c] = "sending" /\ ChoiceStands(c)'
  PROVE  RequestInv'
<1>1. InQueue(c)' = {}
  BY DEF InQueue
<1>2. /\ OneRequest(c)'
      /\ pc'[c] = "sending" \/ InQueue(c)' # {} => ChoiceStands(c)'
      /\ pc'[c] = "sleeping" /\ InQueue(c)' = {} => LineIsKept(c)'
  BY <1>1 DEF OneRequest
<1> QED
  BY <1>2, OthersKeepTheirPart DEF RequestInv

\* A miss on a line that holds the address, or on the line of the policy, has
\* made a choice that stands.
LEMMA MissChoosesALine ==
  ASSUME TypeOK, NEW c \in Core, NEW op, NEW a, NEW d, NEW i \in Block,
         Miss(c, op, a, d, i), UNCHANGED caches,
         caches[c][i].address = a \/ i = getBlockIdWithWriteBackPolicy(caches[c])
  PROVE  /\ pc'[c] = "sending" /\ ChoiceStands(c)'
         /\ \A k \in Core \ {c} : pc'[k] = pc[k] /\ request'[k] = request[k]
<1>1. pc'[c] = "sending" /\ request'[c].address = a /\ request'[c].block_id = i
  BY DEF Miss, TypeOK
<1>2. caches[c][i].address = a \/ i = 0 \/ ~Clean(caches[c][i])
  BY PolicyIsJustified
<1>3. \A k \in Core \ {c} : pc'[k] = pc[k] /\ request'[k] = request[k]
  BY DEF Miss, TypeOK
<1> QED
  BY <1>1, <1>2, <1>3 DEF ChoiceStands, Chosen

\* An instruction that ends leaves the core ready.
LEMMA CompleteIsReady ==
  ASSUME TypeOK, NEW c \in Core, NEW op, Complete(c, op)
  PROVE  /\ pc'[c] = "ready"
         /\ \A k \in Core \ {c} : pc'[k] = pc[k] /\ request'[k] = request[k]
BY DEF Complete, TypeOK

\* Where the two cache operations leave the core that runs them.
LEMMA ReadStartsOrEnds ==
  ASSUME TypeOK, NEW c \in Core, NEW a \in Address, readCacheBlock(c, a)
  PROVE  /\ pc'[c] = "ready" \/ (pc'[c] = "sending" /\ ChoiceStands(c)')
         /\ RequestOfOthersKept(c)
<1> DEFINE i == getCacheBlock_by_address(caches[c], a)
           v == getBlockIdWithWriteBackPolicy(caches[c])
<1>1. i # NotFound => i \in Block /\ caches[c][i].address = a
  BY LookupFindsTheAddress
<1>2. v \in Block
  BY VictimIsALine
<1>3. UNCHANGED caches
  BY DEF readCacheBlock, busVars
<1>4. \/ Complete(c, "READ")
      \/ i # NotFound /\ Miss(c, "READ", a, 0, i)
      \/ Miss(c, "READ", a, 0, v)
  BY DEF readCacheBlock
<1> HIDE DEF i, v
<1>5. CASE Complete(c, "READ")
  BY <1>3, <1>5, CompleteIsReady DEF RequestOfOthersKept
<1>6. CASE i # NotFound /\ Miss(c, "READ", a, 0, i)
  BY <1>1, <1>3, <1>6, MissChoosesALine DEF RequestOfOthersKept
<1>7. CASE Miss(c, "READ", a, 0, v)
  BY <1>2, <1>3, <1>7, MissChoosesALine DEF RequestOfOthersKept, v
<1> QED
  BY <1>4, <1>5, <1>6, <1>7

LEMMA StoreStartsOrEnds ==
  ASSUME TypeOK, NEW c \in Core, NEW op, NEW a \in Address, NEW d, StoreCacheBlock(c, op, a, d)
  PROVE  /\ pc'[c] = "ready" \/ (pc'[c] = "sending" /\ ChoiceStands(c)')
         /\ RequestOfOthersKept(c)
<1> DEFINE i == getCacheBlock_by_address(caches[c], a)
           v == getBlockIdWithWriteBackPolicy(caches[c])
<1>1. i # NotFound => i \in Block /\ caches[c][i].address = a
  BY LookupFindsTheAddress
<1>2. v \in Block
  BY VictimIsALine
<1>3. \A k \in Core \ {c} : caches'[k] = caches[k]
  BY DEF StoreCacheBlock, TypeOK
<1>4. \/ Complete(c, op)
      \/ i # NotFound /\ Miss(c, op, a, d, i) /\ UNCHANGED caches
      \/ Miss(c, op, a, d, v) /\ UNCHANGED caches
  BY DEF StoreCacheBlock
<1> HIDE DEF i, v
<1>5. CASE Complete(c, op)
  BY <1>3, <1>5, CompleteIsReady DEF RequestOfOthersKept
<1>6. CASE i # NotFound /\ Miss(c, op, a, d, i) /\ UNCHANGED caches
  BY <1>1, <1>3, <1>6, MissChoosesALine DEF RequestOfOthersKept
<1>7. CASE Miss(c, op, a, d, v) /\ UNCHANGED caches
  BY <1>2, <1>3, <1>7, MissChoosesALine DEF RequestOfOthersKept, v
<1> QED
  BY <1>4, <1>5, <1>6, <1>7

LEMMA CpuThreadRequests ==
  ASSUME TypeOK, RequestInv, NEW c \in Core, cpu_thread(c)
  PROVE  RequestInv'
<1>1. pc[c] = "ready" /\ queue' = queue /\ InQueue(c) = {}
  BY DEF cpu_thread, RequestInv, OneRequest
<1>2. PICK a \in Address, d \in Int : \/ readCacheBlock(c, a)
                                     \/ StoreCacheBlock(c, "WRITE", a, d)
                                     \/ StoreCacheBlock(c, "INCR", a, d)
  BY CpuThreadExecutes
<1>3. /\ pc'[c] = "ready" \/ (pc'[c] = "sending" /\ ChoiceStands(c)')
      /\ RequestOfOthersKept(c)
  BY <1>2, ReadStartsOrEnds, StoreStartsOrEnds
<1> QED
  BY <1>1, <1>3, OwnStepKeepsRequestInv

LEMMA SendRequests ==
  ASSUME TypeOK, RequestInv, NEW c \in Core, send_message(c)
  PROVE  RequestInv'
<1>1. PICK m \in Message : m = request[c] /\ m.id = c
  BY DEF TypeOK, send_message
<1>2. queue' = Append(queue, m)
  BY <1>1 DEF send_message
<1>3. pc[c] = "sending" /\ InQueue(c) = {} /\ ChoiceStands(c)
  BY DEF send_message, RequestInv, OneRequest
<1>4. /\ InQueue(c)' = {Len(queue) + 1}
      /\ queue'[Len(queue) + 1] = m
  BY <1>1, <1>2, <1>3, AppendPositions
<1>5. pc'[c] = "sleeping" /\ UNCHANGED <<request, caches>>
  BY DEF send_message, TypeOK, busVars
<1>6. /\ OneRequest(c)'
      /\ pc'[c] = "sending" \/ InQueue(c)' # {} => ChoiceStands(c)'
      /\ pc'[c] = "sleeping" /\ InQueue(c)' = {} => LineIsKept(c)'
  BY <1>1, <1>3, <1>4, <1>5 DEF OneRequest, ChoiceStands, Chosen
<1>7. ASSUME NEW k \in Core \ {c}
      PROVE  /\ OneRequest(k)'
             /\ pc'[k] = "sending" \/ InQueue(k)' # {} => ChoiceStands(k)'
             /\ pc'[k] = "sleeping" /\ InQueue(k)' = {} => LineIsKept(k)'
  <2>1. InQueue(k)' = InQueue(k) /\ \A n \in InQueue(k) : queue'[n] = queue[n]
    <3>1. m.id # k
      BY <1>1
    <3>2. /\ InQueue(k)' = InQueue(k) \cup (IF m.id = k THEN {Len(queue) + 1} ELSE {})
          /\ \A n \in InQueue(k) : queue'[n] = queue[n]
      BY <1>2, AppendPositions
    <3> QED
      BY <3>1, <3>2
  <2>2. pc'[k] = pc[k]
    BY DEF send_message, TypeOK
  <2> QED
    BY <1>5, <2>1, <2>2 DEF RequestInv, OneRequest, ChoiceStands, LineIsKept, Chosen
<1> QED
  BY <1>6, <1>7 DEF RequestInv

LEMMA WakeRequests ==
  ASSUME TypeOK, RequestInv, SleepOutlastsBus, NEW c \in Core, wake_up(c)
  PROVE  RequestInv'
<1> DEFINE v == getBlockIdWithWriteBackPolicy(caches[c])
<1>1. queue' = queue /\ InQueue(c) = {} /\ UNCHANGED caches
  BY DEF wake_up, busVars
<1>2. v \in Block
  BY VictimIsALine
<1>3. \/ Miss(c, "READ", request[c].address, 0, v)
      \/ Complete(c, OperationOf(request[c].access))
  BY DEF wake_up
<1> HIDE DEF v
<1>4. CASE Miss(c, "READ", request[c].address, 0, v)
  <2>1. /\ pc'[c] = "sending" /\ ChoiceStands(c)'
        /\ \A k \in Core \ {c} : pc'[k] = pc[k] /\ request'[k] = request[k]
    BY <1>1, <1>2, <1>4, MissChoosesALine DEF v
  <2> QED
    BY <1>1, <2>1, OwnStepKeepsRequestInv DEF RequestOfOthersKept
<1>5. CASE Complete(c, OperationOf(request[c].access))
  BY <1>1, <1>5, CompleteIsReady, OwnStepKeepsRequestInv DEF RequestOfOthersKept
<1> QED
  BY <1>3, <1>4, <1>5

(***************************************************************************)
(* The bus serves a request.                                               *)
(***************************************************************************)
\* What the snooped events do to the states that RequestInv tells apart.
LEMMA SnoopedStates ==
  ASSUME NEW s, NEW t, NEW e \in {"BUSREAD", "BUSWRITE"},
         t = s \/ t = Lines!transition(s, e)
  PROVE  /\ s \notin {"EXCLUSIVE", "SHARED"} => t \notin {"EXCLUSIVE", "SHARED"} \/ t = s
         /\ s = "INVALID" => t = "INVALID"
         /\ s \in {"MODIFIED", "OWNED"} => t \in {"MODIFIED", "OWNED", "INVALID"}
<1>1. CASE t = s
  BY <1>1
<1>2. CASE t = Lines!transition(s, e)
  BY <1>2 DEF Lines!transition
<1> QED
  BY <1>1, <1>2

\* The line of a core that did not send the request keeps what it stands for.
LEMMA SnoopedLine ==
  ASSUME TypeOK, NEW m \in Message, HandlerServes(m), UNCHANGED request,
         NEW k \in Core \ {m.id}, request[k].block_id \in Block
  PROVE  /\ ChoiceStands(k) => ChoiceStands(k)'
         /\ LineIsKept(k) => LineIsKept(k)'
<1> DEFINE i == request[k].block_id
           s == caches[k][i].state
           t == caches'[k][i].state
<1>1. /\ caches'[k][i].address = caches[k][i].address
      /\ caches'[k][i].data = caches[k][i].data
      /\ t = s \/ \E e \in {"BUSREAD", "BUSWRITE"} : t = Lines!transition(s, e)
  BY DEF HandlerServes, SnoopedBut
<1>2. /\ s \notin {"EXCLUSIVE", "SHARED"} => t \notin {"EXCLUSIVE", "SHARED"} \/ t = s
      /\ s = "INVALID" => t = "INVALID"
      /\ s \in {"MODIFIED", "OWNED"} => t \in {"MODIFIED", "OWNED", "INVALID"}
  BY <1>1, SnoopedStates
<1>3. ChoiceStands(k) => ChoiceStands(k)'
  BY <1>1, <1>2 DEF ChoiceStands, Chosen, Clean
<1>4. LineIsKept(k) => LineIsKept(k)'
  BY <1>1, <1>2 DEF LineIsKept, Chosen, Valid, Dirty
<1> QED
  BY <1>3, <1>4

\* A write miss leaves its value in the line of the core that sent it.
LEMMA WriteMissStores ==
  ASSUME TypeOK, NEW m \in Message, process_writemiss(m)
  PROVE  /\ caches'[m.id][m.block_id].state = "MODIFIED"
         /\ caches'[m.id][m.block_id].data = m.value
<1> DEFINE f == Fill(caches, m, "MODIFIED", m.value)
<1>1. caches \in Caches /\ m.value \in Int /\ m.id \in Core /\ m.block_id \in Block
  BY DEF TypeOK, Caches, Message
<1>2. f \in Caches
  <2>1. "MODIFIED" \in CacheState
    BY DEF CacheState
  <2> QED
    BY <1>1, <2>1, FillType
<1>3. f[m.id][m.block_id] = [state |-> "MODIFIED", address |-> m.address, data |-> m.value]
  BY <1>1 DEF Fill, Caches
<1>4. caches' = seek_invalidate(f, m.address, m.id)
  BY DEF process_writemiss
<1> HIDE DEF f
<1> QED
  <2>1. /\ caches'[m.id][m.block_id].state = f[m.id][m.block_id].state
        /\ caches'[m.id][m.block_id].data = f[m.id][m.block_id].data
    BY <1>2, <1>4, InvalidateKeepsOwnLine
  <2> QED
    BY <1>3, <2>1

LEMMA BusRequests ==
  ASSUME TypeOK, RequestInv, process_tasks
  PROVE  RequestInv'
<1>1. PICK m \in Message : m = Head(queue)
  BY HeadTailProperties DEF TypeOK, process_tasks
<1>2. /\ queue # <<>> /\ queue' = Tail(queue)
      /\ UNCHANGED <<pc, request>>
  BY DEF process_tasks, cpuVars
<1>3. \/ m.access = "WRITEMISS" /\ process_writemiss(m)
      \/ m.access = "READMISS"  /\ process_readmiss(m)
      \/ m.access = "INCREMENT" /\ process_increment(m)
  BY <1>1 DEF process_tasks
<1>4. HandlerServes(m)
  BY <1>3, TasksServe
<1>5. m.id \in Core /\ m.block_id \in Block
  BY DEF Message
<1>6. ASSUME NEW k \in Core
      PROVE  OneRequest(k)'
  BY <1>2, <1>6, TailPositions DEF RequestInv, OneRequest, InQueue
<1>7. /\ pc'[m.id] = "sleeping" /\ InQueue(m.id)' = {}
      /\ request'[m.id] = m
  <2>1. /\ 1 \in InQueue(m.id) /\ queue[1] = m
        /\ \A n \in InQueue(m.id)' : n + 1 \in InQueue(m.id) /\ n \in 1 .. Len(queue')
    BY <1>1, <1>2, <1>5, TailPositions DEF InQueue
  <2> QED
    BY <1>2, <1>5, <2>1 DEF RequestInv, OneRequest
<1>8. LineIsKept(m.id)'
  <2>1. caches'[m.id][m.block_id].address = m.address
    BY <1>4, <1>5 DEF HandlerServes, Lines!Serve, Lines!Served
  <2>2. m.access = "WRITEMISS" => /\ caches'[m.id][m.block_id].state = "MODIFIED"
                                  /\ caches'[m.id][m.block_id].data = m.value
    BY <1>3, WriteMissStores
  <2> QED
    BY <1>7, <2>1, <2>2 DEF LineIsKept, Chosen, Dirty
<1>9. ASSUME NEW k \in Core \ {m.id}
      PROVE  /\ pc'[k] = "sending" \/ InQueue(k)' # {} => ChoiceStands(k)'
             /\ pc'[k] = "sleeping" /\ InQueue(k)' = {} => LineIsKept(k)'
  <2>1. InQueue(k)' # {} <=> InQueue(k) # {}
    <3>1. 1 \notin InQueue(k)
      BY <1>1, <1>2, <1>9, TailPositions
    <3> QED
      BY <1>2, <1>9, <3>1, TailPositions
  <2>2. pc[k] # "ready" => request[k].block_id \in Block
    BY DEF TypeOK, Message
  <2>3. InQueue(k) # {} => pc[k] = "sleeping"
    BY DEF RequestInv, OneRequest
  <2> QED
    BY <1>2, <1>4, <1>9, <2>1, <2>2, <2>3, SnoopedLine DEF RequestInv
<1> QED
  BY <1>6, <1>7, <1>8, <1>9 DEF RequestInv

(***************************************************************************)
(* The theorems.                                                           *)
(***************************************************************************)
LEMMA RequestInvStep ==
  ASSUME TypeOK, RequestInv, SleepOutlastsBus, [Next]_vars
  PROVE  RequestInv'
<1>1. CASE process_tasks
  BY <1>1, BusRequests
<1>2. CASE join_cpu \/ UNCHANGED vars
  BY <1>2 DEF join_cpu, vars, cpuVars, busVars, RequestInv, OneRequest, ChoiceStands,
              LineIsKept, Chosen, InQueue
<1>3. ASSUME NEW c \in Core, cpu(c)
      PROVE  RequestInv'
  BY <1>3, CpuThreadRequests, SendRequests, WakeRequests DEF cpu
<1> QED
  BY <1>1, <1>2, <1>3 DEF Next

LEMMA RequestInvHolds == Spec => [](SleepOutlastsBus => RequestInv)
<1>1. Init => RequestInv
  <2> SUFFICES ASSUME Init PROVE RequestInv
    OBVIOUS
  <2>1. queue = <<>> /\ \A c \in Core : pc[c] = "ready"
    BY DEF Init
  <2>2. \A c \in Core : InQueue(c) = {}
    BY <2>1 DEF InQueue
  <2> QED
    BY <2>1, <2>2 DEF RequestInv, OneRequest
<1>2. TypeOK /\ (SleepOutlastsBus => RequestInv) /\ [Next]_vars => (SleepOutlastsBus => RequestInv)'
  BY RequestInvStep
<1> QED
  BY <1>1, <1>2, TypeCorrect, PTL DEF Spec

\* A core whose sleep outlasts the bus has at most one request in the queue.
THEOREM OneRequestPerCoreHolds == Spec => []OneRequestPerCore
<1>1. (SleepOutlastsBus => RequestInv) => OneRequestPerCore
  BY DEF RequestInv, OneRequest, OneRequestPerCore
<1> QED
  BY <1>1, RequestInvHolds, PTL

\* The line a core has chosen is still one to give up when the bus fills it.
THEOREM VictimStillJustifiedHolds == Spec => []VictimStillJustified
<1>1. (SleepOutlastsBus => RequestInv) => VictimStillJustified
  BY DEF RequestInv, ChoiceStands, VictimStillJustified
<1> QED
  BY <1>1, RequestInvHolds, PTL

\* What the bus has served is still there when the core wakes up.
THEOREM ServedLineIsKeptHolds == Spec => []ServedLineIsKept
<1>1. (SleepOutlastsBus => RequestInv) => ServedLineIsKept
  BY DEF RequestInv, LineIsKept, ServedLineIsKept
<1> QED
  BY <1>1, RequestInvHolds, PTL

(***************************************************************************)
(* Lines that hold the same address.                                       *)
(***************************************************************************)
\* A store has chosen a line that holds its address if there is one.
StoreChoice(c) ==
  /\ pc[c] = "sending" \/ InQueue(c) # {}
  /\ request[c].access \in Stores
  /\ \E i \in Block : caches[c][i].address = request[c].address
  => Chosen(c).address = request[c].address

StoreChoices == \A c \in Core : StoreChoice(c)

SameAddresses(c) == \A i \in Block : caches'[c][i].address = caches[c][i].address

\* A core whose request and addresses stay the same keeps its choice.
LEMMA ChoiceKept ==
  ASSUME TypeOK, NEW c \in Core, StoreChoice(c), SameAddresses(c), request'[c] = request[c],
         pc'[c] = "sending" \/ InQueue(c)' # {} => pc[c] = "sending" \/ InQueue(c) # {},
         pc[c] = "ready" => InQueue(c) = {}
  PROVE  StoreChoice(c)'
<1>1. pc[c] # "ready" => request[c].block_id \in Block
  BY DEF TypeOK, Message
<1> QED
  BY <1>1 DEF StoreChoice, SameAddresses, Chosen

\* What a store has chosen when it has just built its request.
LEMMA StoreMissChooses ==
  ASSUME TypeOK, NEW c \in Core, NEW op, NEW a \in Address, NEW d, StoreCacheBlock(c, op, a, d)
  PROVE  \/ pc'[c] = "ready"
         \/ StoreChoice(c)'
<1> DEFINE i == getCacheBlock_by_address(caches[c], a)
           v == getBlockIdWithWriteBackPolicy(caches[c])
<1>1. /\ i # NotFound <=> \E j \in Block : caches[c][j].address = a
      /\ i # NotFound => i \in Block /\ caches[c][i].address = a
  BY LookupFindsTheAddress
<1>2. \/ Complete(c, op)
      \/ i # NotFound /\ Miss(c, op, a, d, i) /\ UNCHANGED caches
      \/ i = NotFound /\ Miss(c, op, a, d, v) /\ UNCHANGED caches
  BY DEF StoreCacheBlock
<1> HIDE DEF i, v
<1>3. CASE Complete(c, op)
  BY <1>3, CompleteIsReady
<1>4. CASE i # NotFound /\ Miss(c, op, a, d, i) /\ UNCHANGED caches
  <2>1. request'[c].address = a /\ request'[c].block_id = i
    BY <1>4 DEF Miss, TypeOK
  <2> QED
    BY <1>1, <1>4, <2>1 DEF StoreChoice, Chosen
<1>5. CASE i = NotFound /\ Miss(c, op, a, d, v) /\ UNCHANGED caches
  <2>1. request'[c].address = a
    BY <1>5 DEF Miss, TypeOK
  <2> QED
    BY <1>1, <1>5, <2>1 DEF StoreChoice
<1> QED
  BY <1>2, <1>3, <1>4, <1>5

\* A store that hits leaves all addresses where they are.
LEMMA CpuThreadKeepsAddresses ==
  ASSUME TypeOK, NEW c \in Core, cpu_thread(c), NEW k \in Core
  PROVE  SameAddresses(k)
<1>1. PICK a \in Address, d \in Int : \/ readCacheBlock(c, a)
                                     \/ StoreCacheBlock(c, "WRITE", a, d)
                                     \/ StoreCacheBlock(c, "INCR", a, d)
  BY CpuThreadExecutes
<1> DEFINE i == getCacheBlock_by_address(caches[c], a)
<1>2. \/ UNCHANGED caches
      \/ /\ i # NotFound
         /\ caches' = [caches EXCEPT ![c][i] = [@ EXCEPT !.state = "MODIFIED", !.data = d]]
  BY <1>1 DEF readCacheBlock, StoreCacheBlock, busVars
<1>3. i # NotFound => i \in Block
  BY LookupFindsTheAddress
<1> HIDE DEF i
<1>4. caches[k] \in [Block -> CacheBlock] /\ caches[c] \in [Block -> CacheBlock]
  BY DEF TypeOK
<1>5. CASE UNCHANGED caches
  BY <1>5 DEF SameAddresses
<1>6. CASE /\ i # NotFound
           /\ caches' = [caches EXCEPT ![c][i] = [@ EXCEPT !.state = "MODIFIED", !.data = d]]
  <2>1. caches'[c][i].address = caches[c][i].address
    BY <1>3, <1>4, <1>6 DEF TypeOK, CacheBlock
  <2>2. \A j \in Block : k # c \/ j # i => caches'[k][j] = caches[k][j]
    BY <1>3, <1>6 DEF TypeOK
  <2> QED
    BY <2>1, <2>2 DEF SameAddresses
<1> QED
  BY <1>2, <1>5, <1>6

LEMMA CpuThreadChooses ==
  ASSUME TypeOK, RequestInv, StoreChoices, NEW c \in Core, cpu_thread(c)
  PROVE  StoreChoices'
<1>1. pc[c] = "ready" /\ queue' = queue /\ InQueue(c)' = {}
  BY DEF cpu_thread, RequestInv, OneRequest, InQueue
<1>2. PICK a \in Address, d \in Int : \/ readCacheBlock(c, a)
                                     \/ StoreCacheBlock(c, "WRITE", a, d)
                                     \/ StoreCacheBlock(c, "INCR", a, d)
  BY CpuThreadExecutes
<1>3. StoreChoice(c)'
  <2>1. CASE readCacheBlock(c, a)
    <3>1. pc'[c] = "ready" \/ request'[c].access = "READMISS"
      BY <2>1, CompleteIsReady DEF readCacheBlock, Miss, AccessOf, TypeOK
    <3> QED
      BY <1>1, <3>1 DEF StoreChoice, Stores
  <2>2. CASE StoreCacheBlock(c, "WRITE", a, d) \/ StoreCacheBlock(c, "INCR", a, d)
    <3>1. pc'[c] = "ready" \/ StoreChoice(c)'
      BY <2>2, StoreMissChooses
    <3> QED
      BY <1>1, <3>1 DEF StoreChoice
  <2> QED
    BY <1>2, <2>1, <2>2
<1>4. ASSUME NEW k \in Core \ {c}
      PROVE  StoreChoice(k)'
  <2>1. pc'[k] = pc[k] /\ request'[k] = request[k]
    BY <1>2, ReadStartsOrEnds, StoreStartsOrEnds DEF RequestOfOthersKept
  <2>2. InQueue(k)' = InQueue(k)
    BY <1>1 DEF InQueue
  <2>3. pc[k] = "ready" => InQueue(k) = {}
    BY DEF RequestInv, OneRequest
  <2> QED
    BY <2>1, <2>2, <2>3, CpuThreadKeepsAddresses, ChoiceKept DEF StoreChoices
<1> QED
  BY <1>3, <1>4 DEF StoreChoices

LEMMA SendChooses ==
  ASSUME TypeOK, RequestInv, StoreChoices, NEW c \in Core, send_message(c)
  PROVE  StoreChoices'
<1>1. PICK m \in Message : m = request[c] /\ m.id = c
  BY DEF TypeOK, send_message
<1>2. /\ queue' = Append(queue, m) /\ UNCHANGED <<request, caches>>
      /\ pc[c] = "sending" /\ pc'[c] = "sleeping"
      /\ \A k \in Core \ {c} : pc'[k] = pc[k]
  BY <1>1 DEF send_message, busVars, TypeOK
<1>3. ASSUME NEW k \in Core
      PROVE  StoreChoice(k)'
  <2>1. SameAddresses(k)
    BY <1>2 DEF SameAddresses
  <2>2. k # c => InQueue(k)' = InQueue(k)
    <3>1. InQueue(k)' = InQueue(k) \cup (IF m.id = k THEN {Len(queue) + 1} ELSE {})
      BY <1>2, AppendPositions
    <3> QED
      BY <1>1, <3>1
  <2>3. pc'[k] = "sending" \/ InQueue(k)' # {} => pc[k] = "sending" \/ InQueue(k) # {}
    BY <1>2, <2>2
  <2>4. pc[k] = "ready" => InQueue(k) = {}
    BY DEF RequestInv, OneRequest
  <2> QED
    BY <1>2, <2>1, <2>3, <2>4, ChoiceKept DEF StoreChoices
<1> QED
  BY <1>3 DEF StoreChoices

LEMMA WakeChooses ==
  ASSUME TypeOK, RequestInv, StoreChoices, SleepOutlastsBus, NEW c \in Core, wake_up(c)
  PROVE  StoreChoices'
<1> DEFINE v == getBlockIdWithWriteBackPolicy(caches[c])
<1>1. queue' = queue /\ InQueue(c) = {} /\ UNCHANGED caches
  BY DEF wake_up, busVars
<1>2. \/ Miss(c, "READ", request[c].address, 0, v)
      \/ Complete(c, OperationOf(request[c].access))
  BY DEF wake_up
<1> HIDE DEF v
<1>3. /\ pc'[c] = "ready" \/ request'[c].access = "READMISS"
      /\ \A k \in Core \ {c} : pc'[k] = pc[k] /\ request'[k] = request[k]
  BY <1>2, CompleteIsReady DEF Miss, AccessOf, TypeOK
<1>4. \A k \in Core : InQueue(k)' = InQueue(k)
  BY <1>1 DEF InQueue
<1>5. StoreChoice(c)'
  BY <1>1, <1>3, <1>4 DEF StoreChoice, Stores
<1>6. ASSUME NEW k \in Core \ {c}
      PROVE  StoreChoice(k)'
  <2>1. SameAddresses(k)
    BY <1>1 DEF SameAddresses
  <2>2. pc[k] = "ready" => InQueue(k) = {}
    BY DEF RequestInv, OneRequest
  <2> QED
    BY <1>3, <1>4, <2>1, <2>2, ChoiceKept DEF StoreChoices
<1> QED
  BY <1>5, <1>6 DEF StoreChoices

\* The bus gives the address of the request to one line of its core.
LEMMA BusChooses ==
  ASSUME TypeOK, RequestInv, StoreChoices, process_tasks
  PROVE  StoreChoices'
<1>1. PICK m \in Message : m = Head(queue)
  BY HeadTailProperties DEF TypeOK, process_tasks
<1>2. queue # <<>> /\ queue' = Tail(queue) /\ UNCHANGED <<pc, request>>
  BY DEF process_tasks, cpuVars
<1>3. HandlerServes(m)
  BY <1>1, TasksServe DEF process_tasks
<1>4. m.id \in Core
  BY DEF Message
<1>5. StoreChoice(m.id)'
  <2>1. /\ 1 \in InQueue(m.id) /\ queue[1] = m
        /\ \A n \in InQueue(m.id)' : n + 1 \in InQueue(m.id) /\ n \in 1 .. Len(queue')
    BY <1>1, <1>2, <1>4, TailPositions DEF InQueue
  <2>2. pc'[m.id] = "sleeping" /\ InQueue(m.id)' = {}
    BY <1>2, <1>4, <2>1 DEF RequestInv, OneRequest
  <2> QED
    BY <2>2 DEF StoreChoice
<1>6. ASSUME NEW k \in Core \ {m.id}
      PROVE  StoreChoice(k)'
  <2>1. SameAddresses(k)
    BY <1>3 DEF HandlerServes, SnoopedBut, SameAddresses
  <2>2. InQueue(k)' # {} => InQueue(k) # {}
    BY <1>2, TailPositions
  <2>3. pc[k] = "ready" => InQueue(k) = {}
    BY DEF RequestInv, OneRequest
  <2> QED
    BY <1>2, <2>1, <2>2, <2>3, ChoiceKept DEF StoreChoices
<1> QED
  BY <1>5, <1>6 DEF StoreChoices

LEMMA StoreChoicesStep ==
  ASSUME TypeOK, RequestInv, StoreChoices, SleepOutlastsBus, [Next]_vars
  PROVE  StoreChoices'
<1>1. CASE process_tasks
  BY <1>1, BusChooses
<1>2. CASE join_cpu \/ UNCHANGED vars
  BY <1>2 DEF join_cpu, vars, cpuVars, busVars, StoreChoices, StoreChoice, Chosen, InQueue
<1>3. ASSUME NEW c \in Core, cpu(c)
      PROVE  StoreChoices'
  BY <1>3, CpuThreadChooses, SendChooses, WakeChooses DEF cpu
<1> QED
  BY <1>1, <1>2, <1>3 DEF Next

LEMMA StoreChoicesHold == Spec => [](SleepOutlastsBus => StoreChoices)
<1>1. Init => StoreChoices
  <2> SUFFICES ASSUME Init PROVE StoreChoices
    OBVIOUS
  <2>1. \A c \in Core : pc[c] = "ready" /\ InQueue(c) = {}
    BY DEF Init, InQueue
  <2> QED
    BY <2>1 DEF StoreChoices, StoreChoice
<1>2. /\ TypeOK /\ (SleepOutlastsBus => RequestInv) /\ (SleepOutlastsBus => StoreChoices)
      /\ [Next]_vars
      => (SleepOutlastsBus => StoreChoices)'
  BY StoreChoicesStep
<1> QED
  BY <1>1, <1>2, TypeCorrect, RequestInvHolds, PTL DEF Spec

\* The step in which an address comes to a second line is the service of a READ.
LEMMA DuplicatedByARead ==
  ASSUME TypeOK, RequestInv, StoreChoices, SleepOutlastsBus, [Next]_vars,
         NEW c \in Core, NEW a \in Address, HoldsOnce(caches, c, a), ~HoldsOnce(caches', c, a)
  PROVE  \E m \in Served : m.id = c /\ m.address = a /\ m.access = "READMISS"
<1>1. ~SameAddresses(c)
  BY DEF HoldsOnce, SameAddresses
<1>2. process_tasks
  <2>1. ~(join_cpu \/ UNCHANGED vars)
    BY <1>1 DEF join_cpu, vars, busVars, SameAddresses
  <2>2. ASSUME NEW k \in Core, cpu(k) PROVE FALSE
    BY <1>1, <2>2, CpuThreadKeepsAddresses DEF cpu, send_message, wake_up, busVars, SameAddresses
  <2> QED
    BY <2>1, <2>2 DEF Next
<1>3. PICK m \in Message : m = Head(queue)
  BY <1>2, HeadTailProperties DEF TypeOK, process_tasks
<1>4. queue # <<>> /\ queue' = Tail(queue)
  BY <1>2 DEF process_tasks
<1>5. HandlerServes(m)
  BY <1>2, <1>3, TasksServe DEF process_tasks
<1>6. m.id \in Core /\ m.block_id \in Block
  BY DEF Message
<1>7. m.id = c
  BY <1>1, <1>5 DEF HandlerServes, SnoopedBut, SameAddresses
<1>8. /\ caches'[c][m.block_id].address = m.address
      /\ \A i \in Block \ {m.block_id} : caches'[c][i].address = caches[c][i].address
  BY <1>5, <1>6, <1>7 DEF HandlerServes, SnoopedBut, Lines!Serve, Lines!Served
<1>9. m.address = a
  BY <1>6, <1>8 DEF HoldsOnce
<1>10. m.access \notin Stores
  <2> SUFFICES ASSUME m.access \in Stores PROVE FALSE
    OBVIOUS
  <2>1. 1 \in InQueue(c) /\ queue[1] = m
    BY <1>3, <1>4, <1>7, TailPositions
  <2>2. request[c] = m
    BY <2>1 DEF RequestInv, OneRequest
  <2>3. (\E i \in Block : caches[c][i].address = a) => caches[c][m.block_id].address = a
    BY <1>9, <2>1, <2>2 DEF StoreChoices, StoreChoice, Chosen
  <2> QED
    BY <1>6, <1>8, <1>9, <2>3 DEF HoldsOnce
<1>11. m.access = "READMISS"
  BY <1>10 DEF Message, AccessType, Stores
<1>12. Served = {m}
  BY <1>3, <1>4 DEF Served
<1> QED
  BY <1>7, <1>9, <1>11, <1>12

\* A store never brings an address to a second line of its core, whatever the bus
\* has done since the store chose its line.
THEOREM DuplicatesComeFromReadsHolds == Spec => DuplicatesComeFromReads
<1>1. /\ TypeOK /\ (SleepOutlastsBus => RequestInv) /\ (SleepOutlastsBus => StoreChoices)
      /\ [Next]_vars
      => (SleepOutlastsBus =>
            \A c \in Core : \A a \in Address :
              HoldsOnce(caches, c, a) /\ ~HoldsOnce(caches', c, a) =>
                \E m \in Served : m.id = c /\ m.address = a /\ m.access = "READMISS")
  BY DuplicatedByARead
<1> QED
  BY <1>1, TypeCorrect, RequestInvHolds, StoreChoicesHold, PTL DEF Spec, DuplicatesComeFromReads
=============================================================================
