# TLA+ model of the cache coherence simulator

This directory holds TLA+ specifications of the simulator in `src/`: N_CPU core
threads with private caches, a bus thread that keeps the caches coherent with
the MESI or the MOESI protocol, and a message queue between them. TLC checks
the specifications on small instances, and TLAPS proves what matters most for
every number of cores, lines, addresses and instructions.

## 1. The system

| Part | Source | State | Operations | Hard behaviours |
|---|---|---|---|---|
| Private cache | `include/cache.h`, `src_C/cache_moesi.c` | `blocks[i]`: state, address, data | look-up, replacement policy, `readCacheBlock`, `writeCacheBlock`, `write_INCR_CacheBlock` | the line is chosen before the request is sent; the core sleeps a fixed time instead of waiting for the answer; a READ of an invalid line sends two requests |
| Bus | `include/bus.h`, `src_C/bus.c` | `channel`, the global `message` | `process_tasks` and its three handlers, `seek_owned`, `seek_shared`, `seek_invalidate`, `perform_wb` | writes the caches of other cores while they run; serves requests that other requests have made stale |
| Main memory | `include/memory.h`, `src_C/memory.c` | 16 entries | init, get, set | -1 for an unknown address |
| Message queue | `include/messages.h`, `src_C/messages.c` | POSIX queue of `MAX_MESSAGES` | create, `send_message`, `mq_receive` | senders block on a full queue, the bus on an empty one; the queue outlives the program |
| Cores and main | `include/cpu.h`, `src_C/cpu.c`, `src_C/simulator.c` | `Stats`, thread positions | `cpu_thread`, `execute_instruction`, joins | cores interleave; main waits for a bus thread that never ends |
| Instruction generator | `src_C/random_instruction.c` | none | `get_random_instruction` | none |
| Transition table | `src_C/moesi.c` | none | `transition` | the stand-alone statement of the protocol for one line |
| User interface | `mainUI.c` | `stop_thread`, thread handles, the entered instruction | buttons, boxes, labels | each click creates another bus thread, and all of them share `message` and `channel` |
| Others | `src_C/controller.c`, `src_C/message_handling/`, `backup.c`, `graph_results.py` | | demonstrations and plots | |

A core that needs the bus (its line is absent, invalid, or not writable for a
store) puts a request in the queue: its id, the kind of access, the address, the
value of a store, and the index of the line to fill. It then sleeps for
`MEM_READ_DELAY`, `MEM_WRITE_DELAY` or `MEM_INCR_DELAY` seconds and takes the
instruction for done. The bus takes one request at a time, searches the caches
of the other cores, moves their lines and fills the line of the requester.
Nothing tells the core that this has happened.

What makes each part correct:

* **caches**: the victim is still one to give up when the bus fills it; what has
  been served is still there when the core wakes up; an address is in one line;
* **bus**: a read fill is coherent with the other copies; a store takes the
  address from the other cores; lines move along the table of `moesi.c`; dirty
  data reaches the memory; a handler acts as if at once, and a store that overlaps
  it neither undoes an invalidation nor makes an answer stale;
* **queue**: what a killed program leaves in it does not block or confuse the
  next;
* **cores, main**: cores finish, the queue drains, counters match what happened;
* **user interface**: each received request is served as it was sent, with one
  bus thread every request is served; stop ends the loops.

Several of these the code keeps only under conditions, and some it does not keep;
sections 3 and 4 say which.

## 2. Modules

| Module | What it is | Source |
|---|---|---|
| `Cache` | lines, look-up and replacement policy, as operators on one cache | `cache.h`, `cache_moesi.c` |
| `Memory` | the memory as a function from addresses to data | `memory.c` |
| `Bus` | searches, write-back and the three handlers as actions on `caches`, `memory`, `INV` | `bus.c` |
| `Simulator` | cores, queue, bus thread and main: the program of `simulator.c` | `simulator.c`, `cpu.c`, `cache_moesi.c`, `messages.c`, `random_instruction.c` |
| `Coherence` | the properties of `Simulator` | |
| `Transition` | the table of `moesi.c` | `moesi.c` |
| `MoesiLines` | abstract specification: every line moves along the table, by the events its request raises | built on `Transition` |
| `BusSteps` | the same program with the handlers of the bus and the hits of the cores split into the steps that race, with its properties | `bus.c:16-318`, `cache_moesi.c:22-81, 135-191` |
| `Restart` | the same program killed at any point and started again on the queue it left, with its properties | `messages.c:5-24`, `simulator.c:61-123` |
| `MainUI` | the threads that the buttons of `mainUI.c` create, the shared message, stop and the joins, with its properties | `mainUI.c`, `bus.c:16-61` |
| `MCCoherence` | instance of `Coherence` for TLC (symmetry of addresses) | |
| `CoherenceProofs`, `MoesiProofs`, `RequestProofs`, `ServiceProofs` | theorems and proofs about `Coherence`: types, the table, requests, what the bus does for a request | |
| `RestartProofs`, `BusStepsProofs`, `MainUIProofs` | theorems and proofs about `Restart` (and the counters of `Coherence`), `BusSteps`, `MainUI` | |
| `AtomicityProofs` | the proof that a handler in steps has the effect of the handler as one action | |

`Bus` extends `Cache` and `Memory`; `Simulator` extends `Bus`; `Coherence`
extends `Simulator` and instantiates `MoesiLines` (through `Transition`) with a
refinement mapping. `Restart` extends `Coherence`.
`BusSteps` extends `Simulator`: it keeps its variables and the actions that do
not race (`send_message`, `wake_up`, `join_cpu`, misses and read hits), replaces
`process_tasks` and store hits by their steps, and instantiates `Bus` once more
to compare a handler in steps with the handler as one action.

### State and actions of `Simulator`

| Model | Code |
|---|---|
| `caches[c][i]` | `bus->cpus[c].cache.blocks[i]`; the tag always equals the index |
| `memory`, `INV[c]`, `responses[c][op]` | `bus->main_memory`, `stats.INV`, `stats.*_REQ_RESP` (counted from the start: `simulator.c` leaves `INCR_REQ_RESP` uninitialised, and nothing reads it) |
| `pc[c]`, `request[c]`, `again[c]` | where core c is in its cache operation, its local `message`, and whether the second request of a READ is to come |
| `queue`, `main` | the POSIX queue; the thread that `main` joins |
| `cpu_thread(c)` | one turn of the loop: pick an instruction, run the cache operation up to its end (a hit) or to `send_message` |
| `send_message(c)` | `mq_send`, blocking |
| `wake_up(c)` | the end of `sleep`: the fall-through of a READ to its second request, or the end of the instruction and its counter |
| `process_tasks` | one turn of the bus: receive, and one handler as a whole |
| `join_cpu` | `pthread_join` of the next core |

The sleep. In the code a request is served in microseconds and a sleep takes 2
to 5 seconds, so a core practically always wakes up after its request was
served; nothing guarantees it. The constant `SleepOutlastsBus` selects which is
modelled: TRUE makes `wake_up` wait until the core has no request in the queue,
FALSE lets it happen at any time. Properties that rely on the sleep name the
constant as their hypothesis, the others are checked and proved without it.

### The steps of `BusSteps`

| Model | Code |
|---|---|
| `task` | the request in `channel`, the search the bus is in, the core it looks at (`core_id`), the data it has found, and whether the handler will count an invalidation |
| `receive` | `mq_receive`, the write-back, and for a write miss the fill of the requester's line (`bus.c:26-62, 86-92, 139-149`) |
| `copy_state`, `copy_data` | `get_core_cache` copies the structure of another cache: the word of the state and the address, then that of the data; the test on the copy decides whether the search stays |
| `set_state` | `set_core_cache_block_state` on the cache itself |
| `after_seek_owned`, `after_seek_shared`, `after_seek_invalidate` | what a handler does when a search has returned, up to the next one |
| `cpu_step`, `store_state`, `store_data` | an instruction up to the test of a hit (`cache_moesi.c:36`), and its two assignments (55, 56) |

The program is built without optimisation (`Makefile`) and synchronises nothing
but the queue; the steps are the loads and stores of shared words in the order
of the source. A handler touches the requester's line only while that core
sleeps, which is why the module assumes `SleepOutlastsBus`; the memory and the
counters belong to the bus alone. The variable `before` records the state at
`receive` until a store overlaps the handler; it only serves `HandlersAreAtomic`.

### Which line of an address

A READ of an invalid line leaves the `for` loop after its request and falls
through to another one (`cache_moesi.c:113`), so that a cache can hold an address
in two lines. Every look-up, of the core and of the bus, ends at the first line
with the address. The properties keep the two things apart: `HasCopy` counts
every valid line of an address, `ShowsCopy` and `ShowsInvalid` are about the line
at which a look-up ends, and `HoldsOnce` says that there is only one.
`ReadFillIsCoherent` and `ConsistentView` use `ShowsCopy`, since no load or search
sees another line as long as the first is there; a stale second line that later
becomes the first is outside both. `StoreTakesTheOnlyCopy` uses `HasCopy`, and so
holds only for cores with `HoldsOnce`; the run `moesi_second_line` shows what
happens to the others, and `DuplicatesComeFromReads` that stores never cause it.

### Restart

`kill_and_start` stands for a signal, or for the `exit` after an error of
`mq_open` or `mq_send`, at any point, and for the start of the program after it. `main`
initialises the memory, the caches and the counters before it creates the bus
thread; `mq_open` returns the queue that exists, with its requests.
`inherited[c]` counts the stores of core c among them, for the property.

### The threads of `MainUI`

| Model | Code |
|---|---|
| `button_clicked`, `button_step_clicked`, `button_run_clicked`, `button_stop_clicked` | the four buttons; the first three create a thread per core and a bus thread |
| `cpu_thread`, `cpu_thread_once`, `send_message`, `wake_up` | the core threads, an instruction being the requests it sends; those of step and run (`cpu_thread_step`, `cpu_thread_run`) differ only in where the instruction comes from |
| `receive`, `set_channel` | `mq_receive` into the global `message`, and its copy to `bus->channel` |
| `read_message` | the three loads of the global `message`, one after the other: the access (`bus.c:35`), the id (38), the line (43) |
| `read_channel`, `end_handler` | a handler: one or more loads of the channel, and its return; `served` keeps the set of requests it has taken anything from |
| `gtk_main_quit`, `join_cpu` | the window is closed at any time, and main joins the core threads of the last click |
| `join_unset_handle` | main joins handles that no click has set: undefined, taken as a return with an error or as the end of the program |

### Data and addresses

`MemAddress` are the addresses that the memory has, `Address` those that an
instruction may hold: the entry of the user interface may leave the address
empty, for which the memory answers -1 and stores nothing. `EnteredData` is what
the user may enter, any integer; a generated WRITE has data from `WriteData`.
-1 is also what the searches of the bus return when they find nothing, so that a
copy with data of -1 looks like no copy. `set_instruction` combines any
operation, address and data, as the boxes of `mainUI.c` do, and so covers the
mixture that a run thread gets if it copies the instruction (`mainUI.c:280`)
while a click on add overwrites it.

Abstractions. In `Simulator` a handler of the bus is one action, and so is a hit
of a core; `BusSteps` splits both. A core looks up an address and chooses a
victim in one step everywhere. Addresses are model values; data are small
numbers; the string copies of addresses, the execution time and all output are
left out. `MainUI` leaves the caches out: a request is its serial number, and an
instruction sends none, one or two of them.

## 3. Runs

Passing:

| Run | Instance | What it shows |
|---|---|---|
| `moesi_two_cores` | MOESI, 2 cores, 2 lines, 2 addresses, 3 instructions each, queue of 2 | types; one request per core in flight; the chosen line and the served line are as the core left them; the invalidation counter is paid for by stores; coherent read fills; only a READ brings an address to a second line; lines follow the table |
| `moesi_three_cores` | MOESI, 3 cores, 2 lines, 1 address, 2 instructions each, queue of 1, stores of 0 and, as entered, of -1 | a store takes the address from every core that holds it once, when no other core shows an invalid copy; reads among several holders are coherent although -1 looks like no copy; lines follow the table; senders block |
| `restart` | MESI, 2 cores, 1 line, 1 address, 2 instructions each (READ, INCR), queue of 2, 1 restart, sleeps end at any time, fair | after a restart the counter of invalidations is paid for by stores of the new program and inherited ones; reads are coherent; the cores finish, main joins them and the queue drains for good, although it may have been full at the start |
| `racing_two_cores` | `BusSteps`, MESI, 2 cores, 1 line, 2 addresses, 2 instructions each, queue of 1, fair | types; what the bus answered is kept until the core wakes up; a handler that no store overlaps has the effect of the one action of `Bus`; cores finish and every search ends |
| `racing_three_cores` | `BusSteps`, MOESI, 3 cores, 1 line, 1 address, 2 instructions each (READ, INCR), queue of 1 | the same atomicity for searches in several caches; one request per core in the queue or in the bus; the state that a search sets follows the table from the state that the line then has, except for a line stored to since it was copied; an invalid line becomes valid only for its own core, or by a store that was under way |
| `ui_threads` | 2 cores, 2 clicks, 2 requests, queue of 1, fair | types; stop ends the loops of all core threads, those blocked on the full queue included; when the window is closed after a stop, and a click has created threads, main joins the core threads of the last click; as long as there is one bus thread, it serves each request with its own line and address and in order, and serves every request that an instruction needs |

Runs that TLC must refute: each checks one statement of a comment or of the
README of the repository that the code does not keep.

| Run | Statement | What the code does |
|---|---|---|
| `mesi_stale_exclusive` | `bus.c:129` memory is read when "no one have the value" | under MESI nobody looks for a MODIFIED copy (`bus.c:99-101`): the line is filled EXCLUSIVE from stale memory |
| `moesi_view` | `README.MD:51` cores "see a consistent view of memory" | an invalid line is refilled from memory although another core owns the data (`bus.c:103-111`) |
| `moesi_partial_invalidation` | `bus.c:291` "search for this block in each core and invalidate it" | the loop returns at the first invalid copy (`bus.c:303`) |
| `moesi_second_line` | `bus.h:46` "Invalidad address a todas las caches" (a write miss invalidates the address in all caches) | `seek_invalidate` sets the first line of a cache that holds the address INVALID (`bus.c:295`) and leaves a second one valid |
| `race_lost_invalidation` | `bus.h:46`, the same | a store that has passed its test sets the line MODIFIED after the bus has set it INVALID (`cache_moesi.c:36, 55`): two cores own the address |
| `ui_two_bus_threads` | `bus.c:31` "Process the received message" | two bus threads overwrite each other's message and channel |

Bounds. Two cores and two addresses are the least with which two requests
conflict and a line is replaced by another address; two lines let a cache hold
the same address twice (the fall-through of a READ) and make the policy choose.
Three instructions let a line be filled, taken by the other core and asked for
again while requests of the other core are in flight. `seek_invalidate` and
`StoreTakesTheOnlyCopy` need a third core, with which two lines, one address and
two instructions are what TLC can afford: enough for a cache that holds the
address twice next to one that holds it once. One value of a WRITE, one initial
value of the memory and the increments give data that differ wherever a property
compares data. A queue of one place makes senders block. In `BusSteps` two instructions let a
core hit a line that its first one brought in while a request of another core is
served; with three cores a search goes past a first cache, and an invalidation
can stop at one; INCR stands for all stores there, and WRITE is in the run with
two. In `restart` a queue of two lets the program inherit two requests and block
on them. In `MainUI`, two clicks are the least that give two bus threads, and two
requests the least that they can mix up, and that make a sender wait for the
other's request to leave the queue of one place.

Deadlock is not checked: after the last instruction the bus waits on the empty
queue and main waits for the bus (`simulator.c:120`), by design; nothing is
promised of that wait.

Fairness. Weak fairness of each thread: the scheduler of the system runs every
thread that stays runnable, a blocked `mq_send` or `mq_receive` returns when the
queue allows it, and a `sleep` ends; the joins of main (`main_joins` in `MainUI`)
return when their thread has ended. Nothing is assumed of the user.

Symmetry. The addresses are interchangeable model values in `moesi_two_cores`. No
run of a liveness property uses symmetry.

## 4. Theorems

All proofs are for arbitrary constants that satisfy the named assumptions
(`CacheAssumption`, `BusAssumption`, `SimulatorAssumption`, `MainUIAssumption`):
at least one core, one line, one place in the queue, data that are integers, and
`NoAddress` not an address. The memory need not have every address.
`BusStepsAssumption` adds that the sleep outlasts the bus.

| Theorem | Module | Statement |
|---|---|---|
| `TypeCorrect` | `CoherenceProofs` | `Spec => []TypeOK` |
| `MoesiLinesImplemented` | `MoesiProofs` | `Spec => ImplementsMoesiLines` |
| `OneRequestPerCoreHolds` | `RequestProofs` | `Spec => []OneRequestPerCore` |
| `VictimStillJustifiedHolds` | `RequestProofs` | `Spec => []VictimStillJustified` |
| `ServedLineIsKeptHolds` | `RequestProofs` | `Spec => []ServedLineIsKept` |
| `DuplicatesComeFromReadsHolds` | `RequestProofs` | `Spec => DuplicatesComeFromReads` |
| `ReadFillIsCoherentHolds` | `ServiceProofs` | `Spec => ReadFillIsCoherent` |
| `StoreTakesTheOnlyCopyHolds` | `ServiceProofs` | `Spec => StoreTakesTheOnlyCopy` |
| `InvalidationsAccountedHolds` | `RestartProofs` | `Spec => []InvalidationsAccounted` |
| `InheritedStoresAccountedHolds` | `RestartProofs` | `RestartSpec => []InheritedStoresAccounted` |
| `RestartFillIsCoherent` | `RestartProofs` | `RestartSpec => ReadFillIsCoherent` |
| `StepsTypeCorrect` | `BusStepsProofs` | `StepsSpec => []StepsTypeOK` |
| `OneRequestInFlightHolds` | `BusStepsProofs` | `StepsSpec => []OneRequestInFlight` |
| `AnsweredLineIsKeptHolds` | `BusStepsProofs` | `StepsSpec => []AnsweredLineIsKept` |
| `SearchFollowsTableHolds` | `BusStepsProofs` | `StepsSpec => SearchFollowsTable` |
| `RevivedByItsCoreOnlyHolds` | `BusStepsProofs` | `StepsSpec => RevivedByItsCoreOnly` |
| `HandlersAreAtomicHolds` | `AtomicityProofs` | `StepsSpec => HandlersAreAtomic` |
| `MainUITypeCorrect` | `MainUIProofs` | `Spec => []TypeOK` (of `MainUI`) |
| `OneBusServesAsReceivedHolds` | `MainUIProofs` | `Spec => []OneBusServesAsReceived` |

These are all the invariants and action properties that the passing runs check.

**Types and the table.** `TypeOK` is inductive because it also says that a core
that is sending or sleeping has a well-formed request of its own: that is what
makes the messages of the queue, and so the lines the bus writes, well-formed.
The look-up and the policy get lemmas of their own (`LookupFindsTheAddress`,
`VictimIsALine`). For the refinement of `MoesiLines` the effect of each search
is summarised by `Snooped` (only copies of the address in other cores move, by
one snooped event), that of a handler by `SnoopedBut` and `HandlerServes` (the
line of the requester is served, all others are snooped). No invariant but
`TypeOK` is needed: the step is right from every well-typed state, in both
protocols, and also when sleeps end early.

**Requests.** The three invariants hold together: `RequestInv` says for each
core that it has at most one request in the queue (the one it sleeps on), that
until it is served the chosen line fits it (`ChoiceStands`), and from then on
the line is kept (`LineIsKept`). A core's own steps only make a choice; sends
move it to the queue; the bus serves it and establishes `LineIsKept`; service of
other cores' requests preserves both because a snooped event never turns a line
into a clean copy that was not one and never changes address or data. The proofs
assume `SleepOutlastsBus`, the hypothesis of the properties.
`DuplicatesComeFromReads` needs one more invariant, `StoreChoice`: until a
store is served, the line it has chosen is the one with its address if the cache
holds the address at all. The bus fills no other line of that core meanwhile, so
the service of the store cannot add a second one.

**Service.** `Answers` says what a search returns: nothing, with the caches as
they were, or the data of a core among those it looked for, whose line it leaves
in the state it sets. A read fill follows by cases on the two searches. One case
needs an invariant: the MESI bus does not look for an owner, so a read filled
EXCLUSIVE would be wrong next to an OWNED line. `NoOwnerInMesi` says that there
is none: in MESI no search sets that state. `StoreTakesTheOnlyCopy` needs no
invariant: when no other core shows an invalid copy, the loop of
`seek_invalidate` reaches every core and sets the line it looks up there INVALID,
which is the only one with the address where the core holds it once. Nothing is
said of the other lines of a core that holds it twice.

**Counters.** `Spent(c)` is what core c has counted plus its stores in the
queue, `Earned(c)` its ended stores and the one it sleeps on. Every step keeps
the difference (`EveryStepPays`): a send moves a store into the queue when the
core starts to sleep on it, the service of a store takes it out and counts at
most one. It would fail for a READ whose second request is still to come, were
it a store that goes to sleep twice: `OnlyReadsGoAgain` excludes that. Nothing
is assumed of the sleep. After a restart both amounts are zero but for the
inherited requests, which is the variable `inherited`.

**Steps of the bus.** `StepsInv` joins the invariants of the runs with three of
its own. `StillFits`: between the copy of a line and the state that is set, the
line still fits the search, or it was stored into. `FilledFirst`: while a
handler invalidates, the line of its core is filled. `NoStoreByAnswered`: a
core that has been answered and still sleeps cannot have stored into the line
that a search has copied as clean; without it the search could turn the line
that was MODIFIED for its own answer into SHARED, and `AnsweredLineIsKept` would
not be inductive. A step of a core is summarised by `LocalStep` (it touches its
own cache only, as `StoredInto` says, and only when the bus is not serving it).

**Atomicity.** `AsIfAtomic` says how far a handler that no store has overlapped
has come from `before`, the state in which its request was received. For the
searches for a copy (`Searches`): the caches are those the search started from,
and no core passed so far fits, so that the first that fits is the one that
`Lowest` takes in `Bus`. For the invalidation (`Invalidates`): the caches are
those with the line of the requester filled, and the copies of the cores passed
invalidated. `Stage` chains them: `Asked` and `Shared` are the answers of the
first two searches, `Fillings` the ways in which a handler can reach the third.
`LookFromFinds`, `CoresPassed` and `InvalidateOneMore` are the facts about one
turn of a loop, `SearchStops`, `SearchEnds`, `InvalidateStops` and
`InvalidateEnds` those about its end. When the handler returns, the stage names
the alternative of the handler of `Bus` that has happened
(`HandlersFromTheStart`). The loops look at any number of cores, so this theorem
is the reason why `Simulator` may take a handler as one action.

**User interface.** `SentOrOwed` counts the requests: each one asked for is sent
or owed by exactly one thread (`Owed`), which keeps `asked` and `sent` in range.
With one click, `InOrder` says that what is served, what is in the hands of the
bus and what is in the queue follow each other in the order of the sends, and
that what the bus has copied from the global message, step by step, is the
request in its hands. It is stated only for `clicks <= 1`: the second bus thread
breaks it, as the run `ui_two_bus_threads` shows.

Only model-checked: the liveness properties (`CoresFinish`,
`CoresFinishForGood`, `BusComesToRest`, `QueueDrains`, `EveryRequestIsAnswered`,
`StopEndsTheLoops`, `CoresAreJoined`), since fairness and ENABLED are beyond the
provers. The six statements that TLC refutes are of course not theorems.

Other things the repository says and the code does not do need no run, since they
are plain to see. A dirty line that is replaced is written back with its data but
with the address of the request (`bus.c:88, 143, 158`): the memory never gets the
data at its own address, although a line in M or O "must do WB" (`bus.c:141`). An INCR that hits a writable line stores the data of the
instruction, which is 0 (`cache_moesi.c:167`), and one of a line held SHARED or
OWNED is sent to the bus, which leaves the line alone (`bus.c:172`); `cpu.c:35`
says read, add 1, write. `INV`, "the number of invalidations" (`README.MD:53`),
counts write misses and the increments that read the memory, whether or not a
copy is invalidated (`bus.c:150, 210`).

Stores that overlap a search. `HandlersAreAtomic` and `SearchFollowsTable` make an
exception for a line that its core stores into after the search has copied it
(`bus.c:228-247, 263-280`), because the code does nothing against it: the search
then answers with the data from before the store and leaves the line OWNED or
SHARED with the new data, so that two valid copies differ, and a line that the
store had made MODIFIED may end SHARED. The steps of `BusSteps` contain these
behaviours; the properties say what holds apart from them. The store that comes
between its own test and an invalidation, which `RevivedByItsCoreOnly` excepts, is
the run `race_lost_invalidation`.

## 5. Not modelled

* In `mainUI.c`: the protocol box (it sets `protocolo`, which `main` has already
  copied for the bus threads at 506, so a selection has no effect), the labels
  and their timers, which only read, the report, the layout; the caches below
  several clicks, where two threads of one core use the same cache.
* The scan of the states by the policy while the bus changes them: the choice is
  made in one step.
* The branch of `bus.c:26-29`: when `mq_receive` fails, the bus thread leaves its
  loop, main (`simulator.c:120-123`) returns from its last join, unlinks the queue
  and ends. The model has no failing `mq_receive`, hence neither
  `cleanup_message_queue`; in `MainUI` the same branch would end a bus thread.
* What `pthread_join` does with a handle that was never set (`mainUI.c:1465-1468`
  when no click came before): undefined, see `join_unset_handle`.
* `controller.c`, `message_handling/`, `backup.c`, `graph_results.py`, the
  commented-out and demonstration `main` functions: not part of the program.
* Probabilities of the instructions, execution times, all output.

## 6. Plan

Done: `Cache`, `Memory`, `Bus`, `Simulator`, `Coherence`, the abstract
specification with its refinement, the races (`BusSteps`), the restart
(`Restart`), `MainUI` for the threads, and the theorems above, one for each
safety property of the passing runs. Next, in this order:

1. The abstract specification for `BusSteps`: the lines move along the table
   except for the two races that `BusSteps` names.
2. The safety part of progress, without ENABLED: in every reachable state some
   thread has a step that its guard allows, unless all cores are done, the queue
   is empty and the bus idle; and each step of a search comes closer to its end.
3. The order of service with several bus threads of `MainUI`: what still holds
   after the second click (no request is received twice).
