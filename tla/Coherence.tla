------------------------------ MODULE Coherence ------------------------------
(***************************************************************************)
(* What the simulator of module Simulator promises: its type invariant,    *)
(* the relations between requests in flight, cache lines and counters,     *)
(* what a step of the bus may do, progress, and the abstract               *)
(* specification it implements.  The last section  states what the         *)
(* documentation and the comments of the repository say and the code does  *)
(* not do.                                                                 *)
(***************************************************************************)
EXTENDS Simulator

(***************************************************************************)
(* Vocabulary.                                                             *)
(***************************************************************************)
Others(c) == Core \ {c}

\* Some line of core c holds a valid copy of a.
HasCopy(cs, c, a) == \E i \in Block : cs[c][i].address = a /\ Valid(cs[c][i])

\* An address may be in several lines of one core.  Every look-up, of the core
\* itself and of the bus, ends at the first one, which shows a valid copy, or an
\* invalid one.
ShowsCopy(cs, c, a)    == c \in Holders(cs, a, N_CPU) /\ Valid(LineFor(cs, c, a))
ShowsInvalid(cs, c, a) == c \in Holders(cs, a, N_CPU) /\ ~Valid(LineFor(cs, c, a))

HoldsOnce(cs, c, a) == \A i, j \in Block : cs[c][i].address = a /\ cs[c][j].address = a => i = j

Stores == {"WRITEMISS", "INCREMENT"}

StoresInQueue(c) == {n \in InQueue(c) : queue[n].access \in Stores}

\* The line a core has chosen for its request.
Chosen(c) == caches[c][request[c].block_id]

\* The request that the bus serves in this step, as a set of at most one.
Served == IF queue # <<>> /\ queue' = Tail(queue) THEN {Head(queue)} ELSE {}

\* The request brings its address into a line that held another one.
Brings(m) == Target(m).address # m.address

(***************************************************************************)
(* Invariants.                                                             *)
(***************************************************************************)
\* The types of the variables.  A core that is sending, or sleeping on a request,
\* has a well-formed request of its own.
TypeOK ==
  /\ caches \in [Core -> [Block -> CacheBlock]]
  /\ memory \in [MemAddress -> Int]
  /\ INV \in [Core -> Nat]
  /\ queue \in Seq(Message)
  /\ pc \in [Core -> {"ready", "sending", "sleeping"}]
  /\ request \in [Core -> Message \cup {NoRequest}]
  /\ \A c \in Core : pc[c] # "ready" => request[c] \in Message /\ request[c].id = c
  /\ again \in [Core -> BOOLEAN]
  /\ responses \in [Core -> [Operation -> Nat]]
  /\ main \in 0 .. N_CPU

\* A core that sleeps longer than the bus needs has at most one request in the
\* queue, and it is the one it sleeps on: a READ that sends two requests does
\* not send the second before the first is served.
OneRequestPerCore ==
  SleepOutlastsBus =>
    \A c \in Core :
      /\ \A n, j \in InQueue(c) : n = j
      /\ \A n \in InQueue(c) : pc[c] = "sleeping" /\ queue[n] = request[c]

\* A core chooses the line to fill before it sends its request, and the bus
\* serves requests of other cores in between.  The choice still stands when the
\* request is served: the line holds the address, is line 0, or is not a clean
\* copy, which the policy would not have evicted.
VictimStillJustified ==
  SleepOutlastsBus =>
    \A c \in Core :
      pc[c] = "sending" \/ InQueue(c) # {} =>
        \/ Chosen(c).address = request[c].address
        \/ request[c].block_id = 0
        \/ ~Clean(Chosen(c))

\* From the moment the bus has served a request until the core wakes up, the
\* line holds the address, whatever the bus does for other cores, and a store
\* is still there unless another core has invalidated the line.
ServedLineIsKept ==
  SleepOutlastsBus =>
    \A c \in Core :
      pc[c] = "sleeping" /\ InQueue(c) = {} =>
        /\ Chosen(c).address = request[c].address
        /\ request[c].access = "WRITEMISS" /\ Valid(Chosen(c)) =>
             Dirty(Chosen(c)) /\ Chosen(c).data = request[c].value

\* Every invalidation a core has counted is paid for by a store of that core:
\* one that has ended or the one it sleeps on, less those the bus has yet to
\* serve.
InvalidationsAccounted ==
  \A c \in Core :
    INV[c] + Cardinality(StoresInQueue(c))
      <= responses[c]["WRITE"] + responses[c]["INCR"]
         + (IF pc[c] = "sleeping" /\ request[c].access \in Stores THEN 1 ELSE 0)

(***************************************************************************)
(* What a step may do.                                                     *)
(***************************************************************************)
\* A READ that brings a line in leaves it coherent with the copies that the
\* look-ups of other cores show.  It is EXCLUSIVE only if there is none (the
\* MESI bus does not look for a modified one, and data of -1 looks like no
\* copy), and if it is SHARED another core is left with a copy of the same data,
\* in a state in which it has to ask the bus before it stores.
ReadFillIsCoherent ==
  [][\A m \in Served :
       Brings(m) /\ m.access = "READMISS" =>
         LET filled == caches'[m.id][m.block_id]
         IN  \/ /\ filled.state = "EXCLUSIVE"
                /\ \A k \in Others(m.id) :
                     ShowsCopy(caches, k, m.address) =>
                       \/ PROTOCOL = "MESI" /\ LineFor(caches, k, m.address).state = "MODIFIED"
                       \/ \E j \in Others(m.id) :
                            ShowsCopy(caches, j, m.address) /\ LineFor(caches, j, m.address).data = -1
             \/ /\ filled.state = "SHARED"
                /\ \E k \in Others(m.id) :
                     /\ ShowsCopy(caches', k, m.address)
                     /\ LineFor(caches', k, m.address).data = filled.data
                     /\ ~Writable(LineFor(caches', k, m.address))
    ]_vars

\* A store that brings a line in, or a WRITE of a held one, makes the line
\* MODIFIED and takes the address from every core that holds it once, provided
\* that no other core shows an invalid copy, at which the invalidation would
\* stop.
StoreTakesTheOnlyCopy ==
  [][\A m \in Served :
       /\ m.access = "WRITEMISS" \/ (m.access = "INCREMENT" /\ Brings(m))
       /\ \A k \in Others(m.id) : ~ShowsInvalid(caches, k, m.address)
       => /\ caches'[m.id][m.block_id].state = "MODIFIED"
          /\ \A k \in Others(m.id) :
               HoldsOnce(caches, k, m.address) => ~HasCopy(caches', k, m.address)
    ]_vars

\* An address comes to a second line of a core only when a READ of the core is
\* served, the second request of a READ that found its line invalid: a store
\* never duplicates a line, whatever the bus did to the line it had found.
DuplicatesComeFromReads ==
  [][SleepOutlastsBus =>
       \A c \in Core : \A a \in Address :
         HoldsOnce(caches, c, a) /\ ~HoldsOnce(caches', c, a) =>
           \E m \in Served : m.id = c /\ m.address = a /\ m.access = "READMISS"
    ]_vars

(***************************************************************************)
(* Progress.                                                               *)
(***************************************************************************)
\* The bus serves every request, those of cores that no longer wait for them
\* included, and then blocks on the empty queue for good.
QueueDrains == <>[](queue = <<>>)

(***************************************************************************)
(* The abstract specification that the simulator implements.               *)
(***************************************************************************)
Lines == INSTANCE MoesiLines
           WITH state   <- [c \in Core |-> [i \in Block |-> caches[c][i].state]],
                address <- [c \in Core |-> [i \in Block |-> caches[c][i].address]]

\* The states of the lines of all caches move along the table of moesi.c.
ImplementsMoesiLines == Lines!Spec

(***************************************************************************)
(* What the documentation and the comments say and the code does not do.   *)
(***************************************************************************)
\* README.MD:51: the protocols ensure that the cores "see a consistent view of
\* memory".  Two cores that would both hit read the same data of an address.
ConsistentView ==
  \A a \in Address : \A c, k \in Core :
    ShowsCopy(caches, c, a) /\ ShowsCopy(caches, k, a) =>
      LineFor(caches, c, a).data = LineFor(caches, k, a).data

\* bus.c:129: a read miss goes to the memory and fills the line EXCLUSIVE when
\* "no one have the value".
MemoryIsReadIfNoOneHasIt ==
  [][\A m \in Served :
       Brings(m) /\ m.access = "READMISS" /\ caches'[m.id][m.block_id].state = "EXCLUSIVE" =>
         \A k \in Others(m.id) : ~HasCopy(caches, k, m.address)
    ]_vars

\* bus.c:291: the bus will "search for this block in each core and invalidate
\* it".  No other core keeps a copy when a write miss is served.
EveryCopyIsInvalidated ==
  [][\A m \in Served :
       m.access = "WRITEMISS" => \A k \in Others(m.id) : ~HasCopy(caches', k, m.address)
    ]_vars

\* bus.h:46: the invalidation is to "invalidate the address in all caches".  A
\* core whose copy it has invalidated has no other line with a valid one.
InvalidationLeavesNoCopy ==
  [][\A m \in Served : \A k \in Others(m.id) :
       ShowsCopy(caches, k, m.address) /\ ShowsInvalid(caches', k, m.address) =>
         ~HasCopy(caches', k, m.address)
    ]_vars
=============================================================================
