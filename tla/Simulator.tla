------------------------------ MODULE Simulator ------------------------------
(***************************************************************************)
(* The program of simulator.c: N_CPU core threads that execute random      *)
(* instructions on their own caches and send a request to the bus thread   *)
(* through a message queue when a line is missing or not writable, and the *)
(* main thread that joins them.  A core that has sent a request sleeps for *)
(* a fixed time; nothing tells it that the bus has answered.               *)
(***************************************************************************)
EXTENDS Bus, Sequences, FiniteSets

CONSTANTS MAX_MESSAGES,     \* capacity of the queue
          INSTRUCTIONS,     \* instructions a core thread executes, 10 in the code
          WriteData,        \* data of a generated WRITE, 0 .. 126 in the code
          EnteredData,      \* data that the user enters, {} in simulator.c
          MemoryData,       \* initial data of the memory, 0 .. 126 in the code
          SleepOutlastsBus  \* TRUE: a core wakes up after the bus has handled
                            \* its request; FALSE: it may wake up before

ASSUME SimulatorAssumption ==
  /\ MAX_MESSAGES \in Nat \ {0}
  /\ INSTRUCTIONS \in Nat
  /\ WriteData \subseteq Nat
  /\ EnteredData \subseteq Int
  /\ MemoryData \subseteq Nat
  /\ SleepOutlastsBus \in BOOLEAN

VARIABLES queue,     \* the message queue
          pc,        \* pc[c]: where the thread of core c is
          request,   \* request[c]: the message it is sending or has sent
          again,     \* again[c]: it will send the request of a READ once more
          responses, \* responses[c][op]: READ_REQ_RESP, WRITE_REQ_RESP, INCR_REQ_RESP
          main       \* the thread of main that main is joining

busVars == <<caches, memory, INV>>
cpuVars == <<pc, request, again, responses>>
vars    == <<caches, memory, INV, queue, pc, request, again, responses, main>>

Operation == {"READ", "WRITE", "INCR"}

Message == [id : Core, access : AccessType, address : Address, value : Int, block_id : Block]

AccessOf(op) == CASE op = "READ"  -> "READMISS"
                  [] op = "WRITE" -> "WRITEMISS"
                  [] op = "INCR"  -> "INCREMENT"

OperationOf(access) == CASE access = "READMISS"  -> "READ"
                         [] access = "WRITEMISS" -> "WRITE"
                         [] access = "INCREMENT" -> "INCR"

\* The value of a core that is not sending anything: the message of the code
\* is a local variable of the cache operation.
NoRequest == [id |-> 0, access |-> "READMISS", address |-> NoAddress, value |-> 0, block_id |-> 0]

Executed(c) == responses[c]["READ"] + responses[c]["WRITE"] + responses[c]["INCR"]

Finished(c) == pc[c] = "ready" /\ Executed(c) = INSTRUCTIONS

(***************************************************************************)
(* The core threads.  A cache operation ends in Complete when it hits, and *)
(* in Miss when it has to ask the bus.                                     *)
(***************************************************************************)
Complete(c, op) ==
  /\ responses' = [responses EXCEPT ![c][op] = @ + 1]
  /\ pc' = [pc EXCEPT ![c] = "ready"]
  /\ request' = [request EXCEPT ![c] = NoRequest]

\* The message is built here and sent in send_message.  The value of a READ
\* is left uninitialized by the code and read by nobody: 0 stands for it.
Miss(c, op, a, d, i) ==
  /\ request' = [request EXCEPT ![c] =
       [id |-> c, access |-> AccessOf(op), address |-> a, value |-> d, block_id |-> i]]
  /\ pc' = [pc EXCEPT ![c] = "sending"]

\* A READ of a line that is held but invalid sends a request for that line,
\* sleeps, and then falls through to the request of an absent line as well.
readCacheBlock(c, a) ==
  LET i == getCacheBlock_by_address(caches[c], a)
  IN  /\ UNCHANGED busVars
      /\ \/ /\ i # NotFound /\ Valid(caches[c][i])
            /\ Complete(c, "READ")
            /\ UNCHANGED again
         \/ /\ i # NotFound /\ ~Valid(caches[c][i])
            /\ Miss(c, "READ", a, 0, i)
            /\ again' = [again EXCEPT ![c] = TRUE]
            /\ UNCHANGED responses
         \/ /\ i = NotFound
            /\ Miss(c, "READ", a, 0, getBlockIdWithWriteBackPolicy(caches[c]))
            /\ UNCHANGED <<again, responses>>

\* Variant: a store of a line that it may not write takes a line of its own.
StoreTakesAnotherLine(c, op, a, d) ==
  LET i == getCacheBlock_by_address(caches[c], a)
  IN  /\ UNCHANGED <<memory, INV, again>>
      /\ \/ /\ i # NotFound /\ Writable(caches[c][i])
            /\ caches' = [caches EXCEPT ![c][i] = [@ EXCEPT !.state = "MODIFIED", !.data = d]]
            /\ Complete(c, op)
         \/ /\ ~(i # NotFound /\ Writable(caches[c][i]))
            /\ Miss(c, op, a, d, getBlockIdWithWriteBackPolicy(caches[c]))
            /\ UNCHANGED <<caches, responses>>

\* writeCacheBlock and write_INCR_CacheBlock are the same code but for the
\* access they send: a hit stores the data of the instruction.
StoreCacheBlock(c, op, a, d) ==
  LET i == getCacheBlock_by_address(caches[c], a)
  IN  /\ UNCHANGED <<memory, INV, again>>
      /\ \/ /\ i # NotFound /\ Writable(caches[c][i])
            /\ caches' = [caches EXCEPT ![c][i] = [@ EXCEPT !.state = "MODIFIED", !.data = d]]
            /\ Complete(c, op)
         \/ /\ i # NotFound /\ ~Writable(caches[c][i])
            /\ Miss(c, op, a, d, i)
            /\ UNCHANGED <<caches, responses>>
         \/ /\ i = NotFound
            /\ Miss(c, op, a, d, getBlockIdWithWriteBackPolicy(caches[c]))
            /\ UNCHANGED <<caches, responses>>

writeCacheBlock(c, a, d) == StoreCacheBlock(c, "WRITE", a, d)

write_INCR_CacheBlock(c, a, d) == StoreCacheBlock(c, "INCR", a, d)

\* The instructions that the generator can return: only a WRITE has data.
get_random_instruction ==
  [op : {"READ", "INCR"}, address : MemAddress, data : {0}]
    \cup [op : {"WRITE"}, address : MemAddress, data : WriteData]

\* The instructions that the user of the graphical program can add for a core:
\* any data, and the address "" of no memory entry when none was selected.  An
\* instruction without an operation does nothing.
set_instruction == [op : Operation, address : Address, data : EnteredData]

execute_instruction(c, instr) ==
  \/ instr.op = "READ"  /\ readCacheBlock(c, instr.address)
  \/ instr.op = "WRITE" /\ writeCacheBlock(c, instr.address, instr.data)
  \/ instr.op = "INCR"  /\ write_INCR_CacheBlock(c, instr.address, instr.data)

\* One turn of the loop of cpu_thread, up to the request if it needs one.
cpu_thread(c) ==
  /\ pc[c] = "ready"
  /\ Executed(c) < INSTRUCTIONS
  /\ \E instr \in get_random_instruction \cup set_instruction : execute_instruction(c, instr)
  /\ UNCHANGED <<queue, main>>

\* Variant: one place of the queue is never used.
SendLeavesOneFree(c) ==
  /\ pc[c] = "sending"
  /\ Len(queue) < MAX_MESSAGES - 1
  /\ queue' = Append(queue, request[c])
  /\ pc' = [pc EXCEPT ![c] = "sleeping"]
  /\ UNCHANGED <<busVars, request, again, responses, main>>

\* Blocks while the queue is full.
send_message(c) ==
  /\ pc[c] = "sending"
  /\ Len(queue) < MAX_MESSAGES
  /\ queue' = Append(queue, request[c])
  /\ pc' = [pc EXCEPT ![c] = "sleeping"]
  /\ UNCHANGED <<busVars, request, again, responses, main>>

InQueue(c) == {n \in 1 .. Len(queue) : queue[n].id = c}

\* Variant: a READ sends its second request without sleeping after the first.
WakeBetweenRequests(c) ==
  /\ pc[c] = "sleeping"
  /\ SleepOutlastsBus => again[c] \/ InQueue(c) = {}
  /\ \/ /\ again[c]
        /\ Miss(c, "READ", request[c].address, 0, getBlockIdWithWriteBackPolicy(caches[c]))
        /\ again' = [again EXCEPT ![c] = FALSE]
        /\ UNCHANGED responses
     \/ /\ ~again[c]
        /\ Complete(c, OperationOf(request[c].access))
        /\ UNCHANGED again
  /\ UNCHANGED <<busVars, queue, main>>

\* The sleep ends: the second request of a READ, or the end of the instruction.
wake_up(c) ==
  /\ pc[c] = "sleeping"
  /\ SleepOutlastsBus => InQueue(c) = {}
  /\ \/ /\ again[c]
        /\ Miss(c, "READ", request[c].address, 0, getBlockIdWithWriteBackPolicy(caches[c]))
        /\ again' = [again EXCEPT ![c] = FALSE]
        /\ UNCHANGED responses
     \/ /\ ~again[c]
        /\ Complete(c, OperationOf(request[c].access))
        /\ UNCHANGED again
  /\ UNCHANGED <<busVars, queue, main>>

(***************************************************************************)
(* The bus thread and main.                                                *)
(***************************************************************************)
\* Variant: the bus serves only a core that waits for it.
ServesWaitingCoreOnly ==
  /\ queue # <<>>
  /\ pc[Head(queue).id] = "sleeping"
  /\ queue' = Tail(queue)
  /\ LET m == Head(queue)
     IN  \/ m.access = "WRITEMISS" /\ process_writemiss(m)
         \/ m.access = "READMISS"  /\ process_readmiss(m)
         \/ m.access = "INCREMENT" /\ process_increment(m)
  /\ UNCHANGED <<cpuVars, main>>

process_tasks ==
  /\ queue # <<>>
  /\ queue' = Tail(queue)
  /\ LET m == Head(queue)
     IN  \/ m.access = "WRITEMISS" /\ process_writemiss(m)
         \/ m.access = "READMISS"  /\ process_readmiss(m)
         \/ m.access = "INCREMENT" /\ process_increment(m)
  /\ UNCHANGED <<cpuVars, main>>

\* main joins the core threads in order and then waits for the bus thread,
\* which leaves its loop only when mq_receive fails.
join_cpu ==
  /\ main \in Core
  /\ Finished(main)
  /\ main' = main + 1
  /\ UNCHANGED <<busVars, cpuVars, queue>>

Init ==
  /\ BusInit(MemoryData)
  /\ queue = <<>>
  /\ pc = [c \in Core |-> "ready"]
  /\ request = [c \in Core |-> NoRequest]
  /\ again = [c \in Core |-> FALSE]
  /\ responses = [c \in Core |-> [op \in Operation |-> 0]]
  /\ main = 0

cpu(c) == cpu_thread(c) \/ send_message(c) \/ wake_up(c)

Next == process_tasks \/ join_cpu \/ \E c \in Core : cpu(c)

Spec == Init /\ [][Next]_vars
=============================================================================
