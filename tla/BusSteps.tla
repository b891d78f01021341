------------------------------ MODULE BusSteps ------------------------------
(***************************************************************************)
(* The simulator with the steps of the bus and of the cores that its data  *)
(* races tell apart.  The bus searches a copy of the cache of another core *)
(* (bus.c:228, 263, 294) and then sets the state of the line in the cache  *)
(* itself, while that core may be between the test of a hit and the two    *)
(* assignments that follow it (cache_moesi.c:36, 55, 56).                  *)
(*                                                                         *)
(* What only one thread touches stays one step with its neighbour: the     *)
(* memory, the counters INV, and the line of the requester, which sleeps   *)
(* until it is served (SleepOutlastsBus).  A copied line is read in two    *)
(* steps, first the word that holds its state and then the one that holds  *)
(* its data.  A core looks up an address and chooses a victim in one step: *)
(* of the states it reads only one decides whether it hits.                *)
(***************************************************************************)
EXTENDS Simulator

ASSUME BusStepsAssumption == SleepOutlastsBus

VARIABLES task,  \* the request that the bus serves, and how far it has come
          before \* caches, memory and INV when it was received, as long as no
                 \* core stores in the meantime (a variable of the model only)

stepVars == <<vars, task, before>>

Search == {"seek_owned", "seek_shared", "seek_invalidate"}

\* at: receive, or the next step of the loop of the search: copying the state
\* and the data of the line of core, setting its state, returning.
Idle == [at |-> "receive", search |-> "seek_owned", m |-> NoRequest, core |-> 0,
         data |-> 0, counts |-> FALSE]

NoBefore == [caches |-> <<>>, memory |-> <<>>, INV |-> <<>>]

Serves(c) == task # Idle /\ task.m.id = c

(***************************************************************************)
(* The core threads.                                                       *)
(***************************************************************************)
\* The test of writeCacheBlock and write_INCR_CacheBlock succeeds.
StoreHits(c, instr) ==
  LET i == getCacheBlock_by_address(caches[c], instr.address)
  IN  instr.op # "READ" /\ i # NotFound /\ Writable(caches[c][i])

\* The operation goes on to the two assignments; request[c] stands for its
\* parameters, and nothing is sent.
BeginStore(c, instr) ==
  /\ request' = [request EXCEPT ![c] =
       [id |-> c, access |-> AccessOf(instr.op), address |-> instr.address, value |-> instr.data,
        block_id |-> getCacheBlock_by_address(caches[c], instr.address)]]
  /\ pc' = [pc EXCEPT ![c] = "hit"]
  /\ before' = NoBefore
  /\ UNCHANGED <<busVars, again, responses>>

cpu_step(c) ==
  /\ pc[c] = "ready"
  /\ Executed(c) < INSTRUCTIONS
  /\ \E instr \in get_random_instruction \cup set_instruction :
       \/ StoreHits(c, instr) /\ BeginStore(c, instr)
       \/ ~StoreHits(c, instr) /\ execute_instruction(c, instr) /\ UNCHANGED before
  /\ UNCHANGED <<queue, main, task>>

store_state(c) ==
  /\ pc[c] = "hit"
  /\ caches' = [caches EXCEPT ![c][request[c].block_id].state = "MODIFIED"]
  /\ pc' = [pc EXCEPT ![c] = "stored"]
  /\ UNCHANGED <<memory, INV, queue, request, again, responses, main, task, before>>

store_data(c) ==
  /\ pc[c] = "stored"
  /\ caches' = [caches EXCEPT ![c][request[c].block_id].data = request[c].value]
  /\ Complete(c, OperationOf(request[c].access))
  /\ UNCHANGED <<memory, INV, queue, again, main, task, before>>

send_step(c) == send_message(c) /\ UNCHANGED <<task, before>>

\* Variant: the core does not wait for the end of the handler.
WakesDuringService(c) == wake_up(c) /\ UNCHANGED <<task, before>>

\* The request that the bus has received is served before its core wakes up.
wake_step(c) == wake_up(c) /\ ~Serves(c) /\ UNCHANGED <<task, before>>

(***************************************************************************)
(* The bus thread.                                                         *)
(***************************************************************************)
\* The first core from k on that the search looks into, or N_CPU.
LookFrom(cs, m, k) == Min({N_CPU} \cup {j \in Holders(cs, m.address, m.id) : k <= j})

\* The task t goes on with search s, at its first core.
Begin(t, s, cs) ==
  LET first == LookFrom(cs, t.m, 0)
  IN  task' = [t EXCEPT !.search = s, !.core = first, !.data = -1,
                        !.at = IF first = N_CPU THEN "return" ELSE "state"]

\* Variant: the loop of the search does not advance.
SameCore == task' = [task EXCEPT !.at = "state"]

\* Variant: the loop of the search skips a core.
SkipsCore ==
  LET next == LookFrom(caches, task.m, task.core + 2)
  IN  task' = [task EXCEPT !.core = next, !.data = -1,
                           !.at = IF next = N_CPU THEN "return" ELSE "state"]

\* The loop of the search goes on with the next core.
NextCore ==
  LET next == LookFrom(caches, task.m, task.core + 1)
  IN  task' = [task EXCEPT !.core = next, !.data = -1,
                           !.at = IF next = N_CPU THEN "return" ELSE "state"]

Return(d) == task' = [task EXCEPT !.at = "return", !.data = d]

\* The handler returns, and has counted an invalidation or not.
Done(counts) ==
  /\ task' = Idle
  /\ before' = NoBefore
  /\ INV' = IF counts THEN [INV EXCEPT ![task.m.id] = @ + 1] ELSE INV

\* Receives a request and runs its handler up to the first search.
receive ==
  /\ task = Idle
  /\ queue # <<>>
  /\ queue' = Tail(queue)
  /\ LET m == Head(queue)
         t == [Idle EXCEPT !.m = m, !.counts = m.access = "WRITEMISS"]
     IN  /\ memory' = WriteBackFirst(m)
         /\ \/ /\ m.access = "WRITEMISS"
               /\ caches' = Fill(caches, m, "MODIFIED", m.value)
               /\ Begin(t, "seek_invalidate", caches)
            \/ /\ m.access # "WRITEMISS"
               /\ UNCHANGED caches
               /\ \/ PROTOCOL = "MOESI" /\ Begin(t, "seek_owned", caches)
                  \/ PROTOCOL = "MESI"
                     /\ task' = [t EXCEPT !.at = "return", !.search = "seek_owned", !.data = -1]
  /\ before' = IF \E c \in Core : pc[c] \in {"hit", "stored"} THEN NoBefore
               ELSE [caches |-> caches, memory |-> memory, INV |-> INV]
  /\ UNCHANGED <<INV, cpuVars, main>>

\* Variant: a core that holds the address answers in whatever state its line is.
FitsByAddressOnly(search, line) == search = "seek_invalidate" => Valid(line)

\* Variant: a modified copy answers the search for a sharer.
FitsSharedIfValid(search, line) == IF search = "seek_owned" THEN Dirty(line) ELSE Valid(line)

\* The test that the search makes on the copied line.
Fits(search, line) ==
  CASE search = "seek_owned"      -> Dirty(line)
    [] search = "seek_shared"     -> Clean(line)
    [] search = "seek_invalidate" -> Valid(line)

\* Copies the state of the line, and the search stays with this core, goes on to
\* the next one, or (seek_invalidate at an invalid copy) returns.  The data of a
\* line that does not fit is copied too, but nothing reads it.
copy_state ==
  /\ task.at = "state"
  /\ LET line == LineFor(caches, task.core, task.m.address)
     IN  \/ /\ Fits(task.search, line)
            /\ task' = [task EXCEPT !.at = IF task.search = "seek_invalidate" THEN "set" ELSE "data"]
         \/ /\ ~Fits(task.search, line)
            /\ task.search # "seek_invalidate"
            /\ NextCore
         \/ /\ ~Fits(task.search, line)
            /\ task.search = "seek_invalidate"
            /\ Return(-1)
  /\ UNCHANGED <<vars, before>>

copy_data ==
  /\ task.at = "data"
  /\ task' = [task EXCEPT !.at = "set", !.data = LineFor(caches, task.core, task.m.address).data]
  /\ UNCHANGED <<vars, before>>

\* What a search sets the line to that it has found.
SetTo == [seek_owned |-> "OWNED", seek_shared |-> "SHARED", seek_invalidate |-> "INVALID"]

set_state ==
  /\ task.at = "set"
  /\ caches' = set_core_cache_block_state(caches, {task.core}, task.m.address, SetTo[task.search])
  /\ IF task.search = "seek_invalidate" THEN NextCore ELSE Return(task.data)
  /\ UNCHANGED <<memory, INV, queue, cpuVars, main, before>>

\* The line of the requester is filled and an INCR goes on to invalidate.
FillAndGoOn(s, d, counts) ==
  LET m == task.m
  IN  \/ /\ m.access = "READMISS"
         /\ caches' = Fill(caches, m, s, d)
         /\ Done(FALSE)
      \/ /\ m.access = "INCREMENT"
         /\ caches' = Fill(caches, m, "MODIFIED", d + 1)
         /\ Begin([task EXCEPT !.counts = counts], "seek_invalidate", caches)
         /\ UNCHANGED <<INV, before>>

after_seek_owned ==
  LET m    == task.m
      here == Target(m).address = m.address
  IN  /\ task.at = "return" /\ task.search = "seek_owned"
      /\ \/ /\ here /\ ~Valid(Target(m))
            /\ caches' = Fill(caches, m, "EXCLUSIVE", get_data_from_memory(memory, m.address)
                                                      + (IF m.access = "INCREMENT" THEN 1 ELSE 0))
            /\ Done(FALSE)
         \/ /\ here /\ Valid(Target(m))
            /\ UNCHANGED caches
            /\ Done(FALSE)
         \/ ~here /\ task.data # -1 /\ FillAndGoOn("SHARED", task.data, FALSE)
         \/ /\ ~here /\ task.data = -1
            /\ Begin(task, "seek_shared", caches)
            /\ UNCHANGED <<caches, INV, before>>
      /\ UNCHANGED <<memory, queue, cpuVars, main>>

after_seek_shared ==
  /\ task.at = "return" /\ task.search = "seek_shared"
  /\ \/ task.data # -1 /\ FillAndGoOn("SHARED", task.data, FALSE)
     \/ task.data = -1
        /\ FillAndGoOn("EXCLUSIVE", get_data_from_memory(memory, task.m.address), TRUE)
  /\ UNCHANGED <<memory, queue, cpuVars, main>>

after_seek_invalidate ==
  /\ task.at = "return" /\ task.search = "seek_invalidate"
  /\ Done(task.counts)
  /\ UNCHANGED <<caches, memory, queue, cpuVars, main>>

join_step == join_cpu /\ UNCHANGED <<task, before>>

StepsInit == Init /\ task = Idle /\ before = NoBefore

core_thread(c) ==
  cpu_step(c) \/ store_state(c) \/ store_data(c) \/ send_step(c) \/ wake_step(c)

bus_thread ==
  \/ receive \/ copy_state \/ copy_data \/ set_state
  \/ after_seek_owned \/ after_seek_shared \/ after_seek_invalidate

StepsNext == bus_thread \/ join_step \/ \E c \in Core : core_thread(c)

StepsSpec == StepsInit /\ [][StepsNext]_stepVars

\* Every thread that can run eventually runs: the scheduler of the system gives
\* each thread of the process time, and a sleep ends.
FairStepsSpec ==
  /\ StepsSpec
  /\ WF_stepVars(bus_thread)
  /\ WF_stepVars(join_step)
  /\ \A c \in Core : WF_stepVars(core_thread(c))

(***************************************************************************)
(* Properties.                                                             *)
(***************************************************************************)
\* The types of the variables that this module adds, and of the program
\* counters it extends.
StepsTypeOK ==
  /\ caches \in [Core -> [Block -> CacheBlock]]
  /\ memory \in [MemAddress -> Int]
  /\ INV \in [Core -> Nat]
  /\ queue \in Seq(Message) /\ Len(queue) <= MAX_MESSAGES
  /\ pc \in [Core -> {"ready", "hit", "stored", "sending", "sleeping"}]
  /\ \A c \in Core : pc[c] # "ready" => request[c] \in Message /\ request[c].id = c
  /\ task = Idle \/ /\ task.at \in {"state", "data", "set", "return"}
                    /\ task.search \in Search
                    /\ task.m \in Message
                    /\ task.at = "return" \/ task.core \in Holders(caches, task.m.address, task.m.id)
                    /\ task.data \in Int

\* A core that waits for the bus waits for one request: it is in the queue or
\* the bus works on it, never both, and it is the one that the core sent.
OneRequestInFlight ==
  \A c \in Core :
    LET waiting == InQueue(c) \cup (IF Serves(c) THEN {0} ELSE {})
    IN  /\ \A n, j \in waiting : n = j
        /\ \A n \in waiting :
             pc[c] = "sleeping" /\ request[c] = IF n = 0 THEN task.m ELSE queue[n]

\* From the end of a handler until its core wakes up the line holds the address,
\* and the value of a WRITE is still there unless the line was invalidated,
\* although the bus takes the line through states that it read earlier.
AnsweredLineIsKept ==
  \A c \in Core :
    LET line == caches[c][request[c].block_id]
    IN  pc[c] = "sleeping" /\ InQueue(c) = {} /\ ~Serves(c) =>
          /\ line.address = request[c].address
          /\ request[c].access = "WRITEMISS" /\ Valid(line) =>
               Dirty(line) /\ line.data = request[c].value

\* The module Bus, with the caches, the memory and the counters as they were
\* when the request was received until its handler returns.
Kept == IF task # Idle /\ before # NoBefore THEN before
        ELSE [caches |-> caches, memory |-> memory, INV |-> INV]

Atomic == INSTANCE Bus WITH caches <- Kept.caches, memory <- Kept.memory, INV <- Kept.INV

\* A handler that no store overlaps has the effect of the handler taken as one
\* step, whatever the other cores read, send and wake up from in the meantime.
HandlersAreAtomic ==
  [][task # Idle /\ task' = Idle /\ before # NoBefore =>
       LET m == task.m
       IN  \/ m.access = "WRITEMISS" /\ Atomic!process_writemiss(m)
           \/ m.access = "READMISS"  /\ Atomic!process_readmiss(m)
           \/ m.access = "INCREMENT" /\ Atomic!process_increment(m)
    ]_stepVars

\* The state that a search sets is a step of the table from the state the line
\* is in by then, not only from the one that was copied.  The exception is a
\* line copied as clean that its core has stored into since: it becomes SHARED.
\* In particular no search makes an invalid line valid.
SearchFollowsTable ==
  [][task.at = "set" /\ task'.at # "set" =>
       LET now == LineFor(caches, task.core, task.m.address)
       IN  CASE task.search = "seek_owned"      -> Dirty(now)
             [] task.search = "seek_shared"     -> Clean(now) \/ now.state = "MODIFIED"
             [] task.search = "seek_invalidate" -> Valid(now)
    ]_stepVars

\* A line that was invalidated becomes valid only by a handler for its own core
\* or by a store of that core whose test came before the invalidation.
RevivedByItsCoreOnly ==
  [][\A c \in Core : \A i \in Block :
       ~Valid(caches[c][i]) /\ Valid(caches'[c][i]) =>
         \/ Serves(c) \/ Serves(c)'
         \/ pc[c] = "hit" /\ request[c].block_id = i
    ]_stepVars

\* main joins every core thread: a queue of one place and stores that race with
\* the bus keep no core from ending its instructions.
CoresFinish == <>(main = N_CPU)

\* Every search ends, although the lines it looks at change under it: the bus
\* serves the last request to its end and blocks on the empty queue for good.
BusComesToRest == <>[](queue = <<>> /\ task = Idle)

\* bus.h:46: a write miss is to invalidate the address in all caches ("Invalidad
\* address a todas las caches").  A line the bus has invalidated stays invalid
\* until a handler fills it for its own core.
InvalidationTakesEffect ==
  [][\A c \in Core : \A i \in Block :
       ~Valid(caches[c][i]) /\ Valid(caches'[c][i]) => Serves(c) \/ Serves(c)'
    ]_stepVars
=============================================================================
