------------------------------ MODULE Restart ------------------------------
(***************************************************************************)
(* The simulator killed and started again.  Nothing ends the program but   *)
(* an error or a signal: main joins a bus thread that does not return, so  *)
(* cleanup_message_queue (simulator.c:123) is never reached.  The message  *)
(* queue has a name and is not unlinked: create_message_queue opens the    *)
(* one that the killed program left, with the requests that were in it.    *)
(* Caches, memory and counters are variables of main and start afresh.     *)
(***************************************************************************)
EXTENDS Coherence

CONSTANT RESTARTS \* bound: how often the program is killed

ASSUME RestartAssumption == RESTARTS \in Nat

VARIABLES restarts,  \* how often it has been killed
          inherited  \* inherited[c]: stores of core c that were in the queue at
                     \* the last start (a variable of the model only)

restartVars == <<vars, restarts, inherited>>

\* Variant: the counter of invalidations is not reset.
KeepsCounters ==
  /\ memory' \in memory_init(MemoryData)
  /\ caches' = [c \in Core |-> initializeCache]
  /\ UNCHANGED INV

\* The memory, the caches and the counters of a new program.
NewBus ==
  /\ memory' \in memory_init(MemoryData)
  /\ caches' = [c \in Core |-> initializeCache]
  /\ INV' = [c \in Core |-> 0]

\* The program is killed at any point and started again.  The queue that mq_open
\* with O_CREAT returns is the one that exists, with what is in it.
kill_and_start ==
  /\ restarts < RESTARTS
  /\ restarts' = restarts + 1
  /\ UNCHANGED queue
  /\ inherited' = [c \in Core |-> Cardinality(StoresInQueue(c))]
  /\ NewBus
  /\ pc' = [c \in Core |-> "ready"]
  /\ request' = [c \in Core |-> NoRequest]
  /\ again' = [c \in Core |-> FALSE]
  /\ responses' = [c \in Core |-> [op \in Operation |-> 0]]
  /\ main' = 0

RestartInit ==
  /\ Init
  /\ restarts = 0
  /\ inherited = [c \in Core |-> 0]

RestartNext == (Next /\ UNCHANGED <<restarts, inherited>>) \/ kill_and_start

RestartSpec == RestartInit /\ [][RestartNext]_restartVars

\* Every thread that can run eventually runs: the scheduler of the system gives
\* each thread of the process time, and a sleep ends.  Nobody need kill them.
FairRestartSpec ==
  /\ RestartSpec
  /\ WF_restartVars(process_tasks /\ UNCHANGED <<restarts, inherited>>)
  /\ WF_restartVars(join_cpu /\ UNCHANGED <<restarts, inherited>>)
  /\ \A c \in Core : WF_restartVars(cpu(c) /\ UNCHANGED <<restarts, inherited>>)

(***************************************************************************)
(* Properties.                                                             *)
(***************************************************************************)
\* InvalidationsAccounted of module Coherence for a program that finds requests
\* in the queue: each invalidation a core has counted, and each store of it that
\* the bus has yet to serve, is a store of this program or an inherited one.
InheritedStoresAccounted ==
  \A c \in Core :
    INV[c] + Cardinality(StoresInQueue(c))
      <= responses[c]["WRITE"] + responses[c]["INCR"] + inherited[c]
         + (IF pc[c] = "sleeping" /\ request[c].access \in Stores THEN 1 ELSE 0)

\* The new program finds a queue that may be full of requests nobody waits for.
\* Its cores finish all the same, and main has joined them for good.
CoresFinishForGood == <>[](main = N_CPU)
=============================================================================
