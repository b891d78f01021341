------------------------------- MODULE MainUI -------------------------------
(***************************************************************************)
(* The threads of the graphical program mainUI.c.  Each click on start,    *)
(* step or run creates one thread per core and one more bus thread; bus    *)
(* threads never end, and all of them receive into the one global message  *)
(* of bus.h and copy it to the one channel of the bus.  The caches are     *)
(* left to module Simulator: a request is its number in the order of the   *)
(* sends, and an instruction may send none (a hit), one or two of them.    *)
(***************************************************************************)
EXTENDS Naturals, Sequences

CONSTANTS N_CPU,        \* number of cores
          MAX_MESSAGES, \* capacity of the queue
          CLICKS,       \* bound: clicks that create threads
          REQUESTS      \* bound: requests of all instructions together

ASSUME MainUIAssumption ==
  /\ N_CPU \in Nat \ {0}
  /\ MAX_MESSAGES \in Nat \ {0}
  /\ CLICKS \in Nat
  /\ REQUESTS \in Nat

VARIABLES stop_thread, \* the flag that ends the loops of the core threads
          window,      \* "open", then "closed"; "ended": the program has ended
          joined,      \* threads that main has joined
          clicks,      \* clicks that have created threads
          kind,        \* kind[n]: the threads of click n loop, or run one instruction
          cpu,         \* cpu[n][c]: where the thread of core c of click n is
          left,        \* left[n][c]: requests its instruction has yet to send
          asked, sent, \* requests that instructions needed, and that were sent
          queue,       \* the message queue
          bus,         \* bus[n]: where the bus thread of click n is in its loop
          message,     \* the global message
          channel,     \* the channel of the bus
          local,       \* local[n]: the requests that the bus thread of click n
                       \* has taken something from in this turn of its loop
          served       \* the requests each run of a handler has taken from

cpuVars == <<cpu, left, asked, sent>>
busVars == <<bus, message, channel, local, served>>
uiVars  == <<stop_thread, window, joined, clicks, kind>>
vars    == <<uiVars, cpuVars, queue, busVars>>

Core   == 0 .. N_CPU - 1
Click  == 1 .. CLICKS
Number == 0 .. REQUESTS \* 0: no request

(***************************************************************************)
(* The buttons.  A handler runs to its end in the thread of the window.    *)
(***************************************************************************)
CreateThreads(k) ==
  /\ window = "open"
  /\ clicks < CLICKS
  /\ clicks' = clicks + 1
  /\ kind' = [kind EXCEPT ![clicks'] = k]
  /\ cpu' = [cpu EXCEPT ![clicks'] = [c \in Core |-> "ready"]]
  /\ bus' = [bus EXCEPT ![clicks'] = "receive"]
  /\ UNCHANGED <<window, joined, left, asked, sent, queue, message, channel, local, served>>

button_clicked == CreateThreads("loop") /\ stop_thread' = FALSE

button_step_clicked == CreateThreads("once") /\ UNCHANGED stop_thread

button_run_clicked == CreateThreads("once") /\ UNCHANGED stop_thread

button_stop_clicked ==
  /\ window = "open"
  /\ stop_thread' = TRUE
  /\ UNCHANGED <<window, joined, clicks, kind, cpuVars, queue, busVars>>

(***************************************************************************)
(* The core threads.                                                       *)
(***************************************************************************)
Goto(n, c, place) == cpu' = [cpu EXCEPT ![n][c] = place]

\* Where a thread goes when its instruction has ended.
AfterInstruction(n) == IF kind[n] = "loop" THEN "ready" ELSE "ended"

execute_instruction(n, c) ==
  \E r \in 0 .. 2 :
    /\ asked + r <= REQUESTS
    /\ asked' = asked + r
    /\ left' = [left EXCEPT ![n][c] = r]
    /\ Goto(n, c, IF r = 0 THEN AfterInstruction(n) ELSE "sending")

cpu_thread(n, c) ==
  /\ kind[n] = "loop"
  /\ cpu[n][c] = "ready"
  /\ \/ stop_thread /\ Goto(n, c, "ended") /\ UNCHANGED <<left, asked>>
     \/ ~stop_thread /\ execute_instruction(n, c)
  /\ UNCHANGED <<uiVars, sent, queue, busVars>>

\* cpu_thread_step and cpu_thread_run: a single instruction, a random one or the
\* one entered for the core.  When none was entered its operation is empty, and it
\* ends like a hit.
cpu_thread_once(n, c) ==
  /\ kind[n] = "once"
  /\ cpu[n][c] = "ready"
  /\ execute_instruction(n, c)
  /\ UNCHANGED <<uiVars, sent, queue, busVars>>

\* Variant: the sender does not wait for room in the queue.
SendUnbounded(n, c) ==
  /\ cpu[n][c] = "sending"
  /\ sent' = sent + 1
  /\ queue' = Append(queue, sent')
  /\ left' = [left EXCEPT ![n][c] = @ - 1]
  /\ Goto(n, c, "sleeping")
  /\ UNCHANGED <<uiVars, asked, busVars>>

send_message(n, c) ==
  /\ cpu[n][c] = "sending"
  /\ Len(queue) < MAX_MESSAGES
  /\ sent' = sent + 1
  /\ queue' = Append(queue, sent')
  /\ left' = [left EXCEPT ![n][c] = @ - 1]
  /\ Goto(n, c, "sleeping")
  /\ UNCHANGED <<uiVars, asked, busVars>>

\* The sleep after a request ends, whether or not the bus has served it.
wake_up(n, c) ==
  /\ cpu[n][c] = "sleeping"
  /\ Goto(n, c, IF left[n][c] > 0 THEN "sending" ELSE AfterInstruction(n))
  /\ UNCHANGED <<uiVars, left, asked, sent, queue, busVars>>

(***************************************************************************)
(* The loop of process_tasks in each bus thread.                           *)
(***************************************************************************)
\* Variant: the loop of the bus tests the flag of the core threads.
ReceiveUnlessStopped(n) ==
  /\ bus[n] = "receive"
  /\ ~stop_thread
  /\ queue # <<>>
  /\ message' = Head(queue)
  /\ queue' = Tail(queue)
  /\ bus' = [bus EXCEPT ![n] = "copy"]
  /\ UNCHANGED <<uiVars, cpuVars, channel, local, served>>

receive(n) ==
  /\ bus[n] = "receive"
  /\ queue # <<>>
  /\ message' = Head(queue)
  /\ queue' = Tail(queue)
  /\ bus' = [bus EXCEPT ![n] = "copy"]
  /\ UNCHANGED <<uiVars, cpuVars, channel, local, served>>

\* Variant: the message is not copied to the channel.
ForgetsChannel(n) ==
  /\ bus[n] = "copy"
  /\ bus' = [bus EXCEPT ![n] = "access"]
  /\ UNCHANGED <<uiVars, cpuVars, queue, message, channel, local, served>>

set_channel(n) ==
  /\ bus[n] = "copy"
  /\ channel' = message
  /\ bus' = [bus EXCEPT ![n] = "access"]
  /\ UNCHANGED <<uiVars, cpuVars, queue, message, local, served>>

Takes(n, r) == local' = [local EXCEPT ![n] = @ \cup {r}]

\* The access, the core and the line are read from the global message, one after
\* the other.
AfterRead == [access |-> "id", id |-> "block_id", block_id |-> "handle"]

read_message(n) ==
  /\ bus[n] \in DOMAIN AfterRead
  /\ Takes(n, message)
  /\ bus' = [bus EXCEPT ![n] = AfterRead[@]]
  /\ UNCHANGED <<uiVars, cpuVars, queue, message, channel, served>>

\* The handlers take the address and the value from the channel: the address
\* again and again, and at least once.
read_channel(n) ==
  /\ bus[n] \in {"handle", "handling"}
  /\ Takes(n, channel)
  /\ bus' = [bus EXCEPT ![n] = "handling"]
  /\ UNCHANGED <<uiVars, cpuVars, queue, message, channel, served>>

end_handler(n) ==
  /\ bus[n] = "handling"
  /\ served' = Append(served, local[n])
  /\ local' = [local EXCEPT ![n] = {}]
  /\ bus' = [bus EXCEPT ![n] = "receive"]
  /\ UNCHANGED <<uiVars, cpuVars, queue, message, channel>>

process_tasks(n) ==
  receive(n) \/ set_channel(n) \/ read_message(n) \/ read_channel(n) \/ end_handler(n)

(***************************************************************************)
(* The end of main: the window is destroyed, and the threads of the last   *)
(* click are joined, the cores in order and then the bus, which never ends. *)
(***************************************************************************)
gtk_main_quit ==
  /\ window = "open"
  /\ window' = "closed"
  /\ UNCHANGED <<stop_thread, joined, clicks, kind, cpuVars, queue, busVars>>

join_cpu ==
  /\ window = "closed"
  /\ clicks > 0
  /\ joined \in Core
  /\ cpu[clicks][joined] = "ended"
  /\ joined' = joined + 1
  /\ UNCHANGED <<stop_thread, window, clicks, kind, cpuVars, queue, busVars>>

\* Without any click the handles were never set, and joining them is undefined:
\* it returns with an error, or the program ends there, as it does after the last.
join_unset_handle ==
  /\ window = "closed"
  /\ clicks = 0
  /\ \/ joined \in Core /\ joined' = joined + 1 /\ UNCHANGED window
     \/ window' = "ended" /\ UNCHANGED joined
  /\ UNCHANGED <<stop_thread, clicks, kind, cpuVars, queue, busVars>>

main_joins == join_cpu \/ join_unset_handle

Init ==
  /\ stop_thread = FALSE
  /\ window = "open"
  /\ joined = 0
  /\ clicks = 0
  /\ kind = [n \in Click |-> "none"]
  /\ cpu = [n \in Click |-> [c \in Core |-> "none"]]
  /\ left = [n \in Click |-> [c \in Core |-> 0]]
  /\ asked = 0 /\ sent = 0
  /\ queue = <<>>
  /\ bus = [n \in Click |-> "none"]
  /\ message = 0 /\ channel = 0
  /\ local = [n \in Click |-> {}]
  /\ served = <<>>

CoreThread(n, c) ==
  \/ cpu_thread(n, c) \/ cpu_thread_once(n, c)
  \/ send_message(n, c) \/ wake_up(n, c)

User == \/ button_clicked \/ button_step_clicked \/ button_run_clicked
        \/ button_stop_clicked \/ gtk_main_quit

Next ==
  \/ User
  \/ main_joins
  \/ \E n \in Click : process_tasks(n) \/ \E c \in Core : CoreThread(n, c)

Spec == Init /\ [][Next]_vars

\* The scheduler runs every thread that can run, and sleeps end.  The user need
\* not do anything.
FairSpec ==
  /\ Spec
  /\ WF_vars(main_joins)
  /\ \A n \in Click : WF_vars(process_tasks(n))
  /\ \A n \in Click, c \in Core : WF_vars(CoreThread(n, c))

(***************************************************************************)
(* Properties.                                                             *)
(***************************************************************************)
\* The types of the variables.
TypeOK ==
  /\ stop_thread \in BOOLEAN /\ window \in {"open", "closed", "ended"}
  /\ joined \in 0 .. N_CPU /\ clicks \in 0 .. CLICKS
  /\ kind \in [Click -> {"none", "loop", "once"}]
  /\ cpu \in [Click -> [Core -> {"none", "ready", "sending", "sleeping", "ended"}]]
  /\ left \in [Click -> [Core -> 0 .. 2]]
  /\ asked \in Number /\ sent \in Number
  /\ queue \in Seq(Number) /\ Len(queue) <= MAX_MESSAGES
  /\ bus \in [Click -> {"none", "receive", "copy", "access", "id", "block_id",
                        "handle", "handling"}]
  /\ message \in Number /\ channel \in Number
  /\ local \in [Click -> SUBSET Number]
  /\ served \in Seq(SUBSET Number)

\* bus.c:31: the bus will "process the received message".  A run of a handler
\* takes everything from one request, never the line of one and the address of
\* another, and no two runs work on the same request.
ServedAsReceived ==
  \A i, j \in 1 .. Len(served) :
    /\ \E r \in Number : served[i] = {r}
    /\ served[i] = served[j] => i = j

\* While a single click has created threads, the one bus thread serves the
\* requests of all cores as they were sent and in that order, in spite of the
\* full queue and of cores that send again without an answer.
OneBusServesAsReceived ==
  clicks <= 1 => \A i \in 1 .. Len(served) : served[i] = {i}

\* Each request that an instruction needs is sent and served by a run of a
\* handler of its own, also when the user stops the cores or closes the window
\* meanwhile, unless a second click creates another bus thread.
EveryRequestIsAnswered ==
  \A r \in 1 .. REQUESTS :
    asked >= r ~> \/ clicks > 1
                  \/ \E i \in 1 .. Len(served) : served[i] = {r}

\* After a click on stop the loops of all core threads end, those that wait for
\* room in the queue included, unless the user clicks on start again.
StopEndsTheLoops ==
  stop_thread ~> \/ ~stop_thread
                 \/ \A n \in Click, c \in Core : kind[n] = "loop" => cpu[n][c] = "ended"

\* When the window is closed after a click on stop, main joins the core threads
\* of the last click that created any.
CoresAreJoined == (window = "closed" /\ stop_thread /\ clicks > 0) ~> (joined = N_CPU)
=============================================================================
