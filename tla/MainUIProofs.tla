---------------------------- MODULE MainUIProofs ----------------------------
(***************************************************************************)
(* Proofs about the threads of the graphical program, for every number of  *)
(* cores, clicks and requests and every length of the queue.               *)
(***************************************************************************)
EXTENDS MainUI, TLAPS, FiniteSetTheorems, SequenceTheorems

(***************************************************************************)
(* The inductive invariant.                                                *)
(***************************************************************************)
\* A click that has not been made has no threads.
NoThreadsYet ==
  \A n \in Click :
    n > clicks => bus[n] = "none" /\ \A c \in Core : cpu[n][c] = "none"

\* A thread owes requests only in the middle of an instruction.
OwesInTheMiddle ==
  \A n \in Click, c \in Core :
    /\ cpu[n][c] = "sending" => left[n][c] > 0
    /\ cpu[n][c] \notin {"sending", "sleeping"} => left[n][c] = 0

\* The requests that instructions need and that have not been sent.
Owed == {o \in (Click \X Core) \X (1 .. 2) : o[2] <= left[o[1][1]][o[1][2]]}

\* Every request is sent or owed: so their numbers stay within the bound.
SentOrOwed == asked = sent + Cardinality(Owed)

UIInv == TypeOK /\ NoThreadsYet /\ OwesInTheMiddle /\ SentOrOwed

LEMMA OwedIsFinite ==
  IsFiniteSet(Owed) /\ Cardinality(Owed) \in Nat
<1>1. IsFiniteSet(Click)
  BY MainUIAssumption, FS_Interval DEF Click
<1>2. IsFiniteSet(Core)
  <2>1. 0 \in Int /\ N_CPU - 1 \in Int
    BY MainUIAssumption
  <2> QED
    BY <2>1, FS_Interval DEF Core
<1>3. IsFiniteSet(1 .. 2)
  <2>1. 1 \in Int /\ 2 \in Int
    OBVIOUS
  <2> QED
    BY <2>1, FS_Interval
<1>4. IsFiniteSet((Click \X Core) \X (1 .. 2))
  BY <1>1, <1>2, <1>3, FS_Product
<1>5. Owed \in SUBSET ((Click \X Core) \X (1 .. 2))
  BY DEF Owed
<1> QED
  BY <1>4, <1>5, FS_Subset, FS_CardinalityType

LEMMA SameTriples ==
  ASSUME NEW S \in SUBSET ((Click \X Core) \X (1 .. 2)),
         NEW T \in SUBSET ((Click \X Core) \X (1 .. 2)),
         \A k \in Click, j \in Core, i \in 1 .. 2 :
           <<<<k, j>>, i>> \in S <=> <<<<k, j>>, i>> \in T
  PROVE  S = T
<1> SUFFICES ASSUME NEW o \in (Click \X Core) \X (1 .. 2)
             PROVE  o \in S <=> o \in T
  OBVIOUS
<1>1. PICK p \in Click \X Core, i \in 1 .. 2 : o = <<p, i>>
  OBVIOUS
<1>2. PICK k \in Click, j \in Core : p = <<k, j>>
  OBVIOUS
<1> QED
  BY <1>1, <1>2

\* An instruction that needs r requests owes them.
LEMMA OwedOnExecute ==
  ASSUME TypeOK, NEW n \in Click, NEW c \in Core, left[n][c] = 0, NEW r \in 0 .. 2,
         left' = [left EXCEPT ![n][c] = r]
  PROVE  Cardinality(Owed)' = Cardinality(Owed) + r
<1> DEFINE one == <<<<n, c>>, 1>>
           two == <<<<n, c>>, 2>>
<1>1. \A k \in Click, j \in Core :
        left'[k][j] = IF k = n /\ j = c THEN r ELSE left[k][j]
  BY DEF TypeOK
<1>2. \A k \in Click, j \in Core, i \in 1 .. 2 :
        <<<<k, j>>, i>> \in Owed' <=> <<<<k, j>>, i>> \in Owed \/ (k = n /\ j = c /\ i <= r)
  BY <1>1 DEF Owed
<1>3. /\ Owed \in SUBSET ((Click \X Core) \X (1 .. 2)) /\ Owed' \in SUBSET ((Click \X Core) \X (1 .. 2))
      /\ one \in (Click \X Core) \X (1 .. 2) /\ two \in (Click \X Core) \X (1 .. 2)
  BY DEF Owed
<1>4. one \notin Owed /\ two \notin Owed /\ one # two
  BY DEF Owed
<1>5. IsFiniteSet(Owed) /\ Cardinality(Owed) \in Nat
  BY OwedIsFinite
<1>6. /\ IsFiniteSet(Owed \cup {one})
      /\ Cardinality(Owed \cup {one}) = Cardinality(Owed) + 1
  BY <1>4, <1>5, FS_AddElement
<1>7. CASE r = 0
  <2> DEFINE T == Owed
  <2>1. T \in SUBSET ((Click \X Core) \X (1 .. 2))
    BY <1>3
  <2>2. ASSUME NEW k \in Click, NEW j \in Core, NEW i \in 1 .. 2
        PROVE  <<<<k, j>>, i>> \in Owed' <=> <<<<k, j>>, i>> \in T
    <3>1. <<<<k, j>>, i>> \in Owed' <=> <<<<k, j>>, i>> \in Owed \/ (k = n /\ j = c /\ i <= 0)
      BY <1>2, <1>7
    <3> QED
      BY <3>1
  <2> HIDE DEF T
  <2>3. Owed' = T
    BY <1>3, <2>1, <2>2, SameTriples
  <2> QED
    BY <1>5, <1>7, <2>3 DEF T
<1>8. CASE r = 1
  <2> DEFINE T == Owed \cup {one}
  <2>1. T \in SUBSET ((Click \X Core) \X (1 .. 2))
    BY <1>3
  <2>2. ASSUME NEW k \in Click, NEW j \in Core, NEW i \in 1 .. 2
        PROVE  <<<<k, j>>, i>> \in Owed' <=> <<<<k, j>>, i>> \in T
    <3>1. <<<<k, j>>, i>> \in Owed' <=> <<<<k, j>>, i>> \in Owed \/ (k = n /\ j = c /\ i <= 1)
      BY <1>2, <1>8
    <3> QED
      BY <3>1
  <2> HIDE DEF T
  <2>3. Owed' = T
    BY <1>3, <2>1, <2>2, SameTriples
  <2> QED
    BY <1>6, <1>8, <2>3 DEF T
<1>9. CASE r = 2
  <2> DEFINE T == (Owed \cup {one}) \cup {two}
  <2>1. T \in SUBSET ((Click \X Core) \X (1 .. 2))
    BY <1>3
  <2>2. ASSUME NEW k \in Click, NEW j \in Core, NEW i \in 1 .. 2
        PROVE  <<<<k, j>>, i>> \in Owed' <=> <<<<k, j>>, i>> \in T
    <3>1. <<<<k, j>>, i>> \in Owed' <=> <<<<k, j>>, i>> \in Owed \/ (k = n /\ j = c /\ i <= 2)
      BY <1>2, <1>9
    <3> QED
      BY <3>1
  <2> HIDE DEF T
  <2>3. Owed' = T
    BY <1>3, <2>1, <2>2, SameTriples
  <2>4. two \notin Owed \cup {one}
    BY <1>4
  <2>5. Cardinality((Owed \cup {one}) \cup {two}) = Cardinality(Owed \cup {one}) + 1
    BY <1>6, <2>4, FS_AddElement
  <2> QED
    BY <1>5, <1>6, <1>9, <2>3, <2>5 DEF T
<1> QED
  BY <1>7, <1>8, <1>9

\* A request that is sent is owed no longer.
LEMMA OwedOnSend ==
  ASSUME TypeOK, NEW n \in Click, NEW c \in Core, left[n][c] > 0,
         left' = [left EXCEPT ![n][c] = @ - 1]
  PROVE  Cardinality(Owed)' = Cardinality(Owed) - 1 /\ Cardinality(Owed) > 0
<1> DEFINE o == <<<<n, c>>, left[n][c]>>
<1>1. left[n][c] \in 1 .. 2
  BY DEF TypeOK
<1>2. \A k \in Click, j \in Core :
        left'[k][j] = IF k = n /\ j = c THEN left[n][c] - 1 ELSE left[k][j]
  BY DEF TypeOK
<1>3. Owed' = Owed \ {o}
  <2>1. \A k \in Click, j \in Core, i \in 1 .. 2 :
          <<<<k, j>>, i>> \in Owed' <=> <<<<k, j>>, i>> \in Owed /\ <<<<k, j>>, i>> # o
    BY <1>1, <1>2 DEF Owed
  <2> DEFINE T == Owed \ {o}
  <2>2. Owed' \in SUBSET ((Click \X Core) \X (1 .. 2)) /\ T \in SUBSET ((Click \X Core) \X (1 .. 2))
    BY DEF Owed
  <2>3. \A k \in Click, j \in Core, i \in 1 .. 2 :
          <<<<k, j>>, i>> \in Owed' <=> <<<<k, j>>, i>> \in T
    BY <2>1
  <2> HIDE DEF T
  <2>4. Owed' = T
    BY <2>2, <2>3, SameTriples
  <2> QED
    BY <2>4 DEF T
<1>4. o \in Owed
  BY <1>1 DEF Owed
<1>5. IsFiniteSet(Owed) /\ Cardinality(Owed) \in Nat
  BY OwedIsFinite
<1>6. Cardinality(Owed \ {o}) = Cardinality(Owed) - 1
  BY <1>4, <1>5, FS_RemoveElement
<1>7. Cardinality(Owed) # 0
  BY <1>4, <1>5, FS_EmptySet
<1> QED
  BY <1>3, <1>5, <1>6, <1>7

(***************************************************************************)
(* The steps of the window and of main.                                    *)
(***************************************************************************)
\* A step that changes neither the core threads nor what they owe.
LEMMA OwedUnchanged ==
  ASSUME UNCHANGED left
  PROVE  Cardinality(Owed)' = Cardinality(Owed)
BY DEF Owed

LEMMA CreateThreadsKeeps ==
  ASSUME UIInv, NEW k \in {"loop", "once"}, CreateThreads(k),
         stop_thread' \in BOOLEAN
  PROVE  UIInv'
<1>1. clicks' = clicks + 1 /\ clicks' \in Click /\ clicks \in Nat
  BY MainUIAssumption DEF CreateThreads, UIInv, TypeOK, Click
<1>2. /\ kind' = [kind EXCEPT ![clicks'] = k]
      /\ cpu' = [cpu EXCEPT ![clicks'] = [c \in Core |-> "ready"]]
      /\ bus' = [bus EXCEPT ![clicks'] = "receive"]
      /\ UNCHANGED <<window, joined, left, asked, sent, queue, message, channel, local, served>>
  BY DEF CreateThreads
<1>3. /\ kind' \in [Click -> {"none", "loop", "once"}]
      /\ cpu' \in [Click -> [Core -> {"none", "ready", "sending", "sleeping", "ended"}]]
      /\ bus' \in [Click -> {"none", "receive", "copy", "access", "id", "block_id",
                            "handle", "handling"}]
      /\ clicks' \in 0 .. CLICKS
  BY <1>1, <1>2, MainUIAssumption DEF UIInv, TypeOK, Click
<1>4. TypeOK'
  BY <1>2, <1>3 DEF UIInv, TypeOK
<1>5. \A n \in Click : n # clicks' => cpu'[n] = cpu[n] /\ bus'[n] = bus[n]
  BY <1>1, <1>2 DEF UIInv, TypeOK
<1>6. NoThreadsYet'
  <2>1. ASSUME NEW n \in Click, n > clicks'
        PROVE  n # clicks' /\ n > clicks
    BY <1>1, <2>1 DEF Click
  <2> QED
    BY <1>5, <2>1 DEF UIInv, NoThreadsYet
<1>7. OwesInTheMiddle'
  <2>1. \A c \in Core : cpu[clicks'][c] = "none"
    BY <1>1 DEF UIInv, NoThreadsYet
  <2>2. \A c \in Core : left[clicks'][c] = 0 /\ cpu'[clicks'][c] = "ready"
    BY <1>1, <1>2, <2>1 DEF UIInv, OwesInTheMiddle, TypeOK
  <2> QED
    BY <1>2, <1>5, <2>2 DEF UIInv, OwesInTheMiddle
<1>8. SentOrOwed'
  BY <1>2, OwedUnchanged DEF UIInv, SentOrOwed
<1> QED
  BY <1>4, <1>6, <1>7, <1>8 DEF UIInv

LEMMA UserKeeps ==
  ASSUME UIInv, User \/ main_joins
  PROVE  UIInv'
<1>1. CASE button_clicked
  BY <1>1, CreateThreadsKeeps DEF button_clicked
<1>2. CASE button_step_clicked
  BY <1>2, CreateThreadsKeeps DEF button_step_clicked, UIInv, TypeOK
<1>3. CASE button_run_clicked
  BY <1>3, CreateThreadsKeeps DEF button_run_clicked, UIInv, TypeOK
<1>4. CASE button_stop_clicked \/ gtk_main_quit \/ main_joins
  <2>1. UNCHANGED <<clicks, kind, cpuVars, queue, busVars>>
    BY <1>4 DEF button_stop_clicked, gtk_main_quit, main_joins, join_cpu, join_unset_handle
  <2>2. stop_thread' \in BOOLEAN /\ window' \in {"open", "closed", "ended"}
    BY <1>4 DEF button_stop_clicked, gtk_main_quit, main_joins, join_cpu, join_unset_handle, UIInv, TypeOK
  <2>3. joined' \in 0 .. N_CPU
    <3>1. joined' = joined \/ (joined \in Core /\ joined' = joined + 1)
      BY <1>4 DEF button_stop_clicked, gtk_main_quit, main_joins, join_cpu, join_unset_handle
    <3> QED
      BY <3>1, MainUIAssumption DEF UIInv, TypeOK, Core
  <2>4. TypeOK'
    BY <2>1, <2>2, <2>3 DEF UIInv, TypeOK, cpuVars, busVars
  <2> QED
    BY <2>1, <2>4, OwedUnchanged
       DEF UIInv, NoThreadsYet, OwesInTheMiddle, SentOrOwed, cpuVars, busVars
<1> QED
  BY <1>1, <1>2, <1>3, <1>4 DEF User

(***************************************************************************)
(* The steps of the core threads.                                          *)
(***************************************************************************)
LEMMA ExecuteKeeps ==
  ASSUME UIInv, NEW n \in Click, NEW c \in Core, cpu[n][c] = "ready", execute_instruction(n, c),
         UNCHANGED <<uiVars, sent, queue, busVars>>
  PROVE  UIInv'
<1>1. PICK r \in 0 .. 2 :
        /\ asked + r <= REQUESTS
        /\ asked' = asked + r
        /\ left' = [left EXCEPT ![n][c] = r]
        /\ Goto(n, c, IF r = 0 THEN AfterInstruction(n) ELSE "sending")
  BY DEF execute_instruction
<1> DEFINE place == IF r = 0 THEN AfterInstruction(n) ELSE "sending"
<1>2. place \in {"ready", "ended", "sending"} /\ (place = "sending" <=> r > 0)
  BY DEF AfterInstruction
<1>3. cpu' = [cpu EXCEPT ![n][c] = place]
  BY <1>1 DEF Goto
<1> HIDE DEF place
<1>4. TypeOK'
  BY <1>1, <1>2, <1>3, MainUIAssumption DEF UIInv, TypeOK, Number, uiVars, busVars
<1>5. NoThreadsYet'
  <2>1. ~(n > clicks)
    BY DEF UIInv, NoThreadsYet
  <2> QED
    BY <1>3, <2>1 DEF UIInv, NoThreadsYet, TypeOK, uiVars, busVars
<1>6. OwesInTheMiddle'
  <2>1. \A k \in Click, j \in Core :
          /\ cpu'[k][j] = IF k = n /\ j = c THEN place ELSE cpu[k][j]
          /\ left'[k][j] = IF k = n /\ j = c THEN r ELSE left[k][j]
    BY <1>1, <1>3 DEF UIInv, TypeOK
  <2> QED
    BY <1>2, <2>1 DEF UIInv, OwesInTheMiddle
<1>7. SentOrOwed'
  <2>1. left[n][c] = 0
    BY DEF UIInv, OwesInTheMiddle
  <2>2. Cardinality(Owed)' = Cardinality(Owed) + r
    BY <1>1, <2>1, OwedOnExecute DEF UIInv
  <2>3. sent \in Nat /\ Cardinality(Owed) \in Nat
    BY OwedIsFinite, MainUIAssumption DEF UIInv, TypeOK, Number
  <2> QED
    BY <1>1, <2>2, <2>3 DEF UIInv, SentOrOwed
<1> QED
  BY <1>4, <1>5, <1>6, <1>7 DEF UIInv

LEMMA SendKeeps ==
  ASSUME UIInv, NEW n \in Click, NEW c \in Core, send_message(n, c)
  PROVE  UIInv' /\ sent' = sent + 1 /\ queue' = Append(queue, sent + 1) /\ sent + 1 \in Number
<1>1. /\ cpu[n][c] = "sending" /\ Len(queue) < MAX_MESSAGES
      /\ sent' = sent + 1 /\ queue' = Append(queue, sent + 1)
      /\ left' = [left EXCEPT ![n][c] = @ - 1]
      /\ cpu' = [cpu EXCEPT ![n][c] = "sleeping"]
      /\ UNCHANGED <<uiVars, asked, busVars>>
  BY DEF send_message, Goto
<1>2. left[n][c] > 0 /\ left[n][c] \in 1 .. 2
  BY <1>1 DEF UIInv, OwesInTheMiddle, TypeOK
<1>3. Cardinality(Owed)' = Cardinality(Owed) - 1 /\ Cardinality(Owed) > 0
  BY <1>1, <1>2, OwedOnSend DEF UIInv
<1>4. sent \in Nat /\ asked \in Nat /\ asked <= REQUESTS /\ Cardinality(Owed) \in Nat
  BY OwedIsFinite, MainUIAssumption DEF UIInv, TypeOK, Number
<1>5. sent + 1 \in Number
  BY <1>3, <1>4, MainUIAssumption DEF UIInv, SentOrOwed, Number
<1>6. queue' \in Seq(Number) /\ Len(queue') <= MAX_MESSAGES
  <2>1. queue \in Seq(Number) /\ Len(queue) \in Nat
    BY LenProperties DEF UIInv, TypeOK
  <2>2. queue' \in Seq(Number) /\ Len(queue') = Len(queue) + 1
    BY <1>1, <1>5, <2>1, AppendProperties
  <2> QED
    BY <1>1, <2>1, <2>2, MainUIAssumption
<1>7. left' \in [Click -> [Core -> 0 .. 2]]
  BY <1>1, <1>2 DEF UIInv, TypeOK
<1>8. TypeOK'
  BY <1>1, <1>5, <1>6, <1>7 DEF UIInv, TypeOK, uiVars, busVars
<1>9. NoThreadsYet'
  <2>1. ~(n > clicks)
    BY <1>1 DEF UIInv, NoThreadsYet
  <2> QED
    BY <1>1, <2>1 DEF UIInv, NoThreadsYet, TypeOK, uiVars, busVars
<1>10. OwesInTheMiddle'
  <2>1. \A k \in Click, j \in Core :
          /\ cpu'[k][j] = IF k = n /\ j = c THEN "sleeping" ELSE cpu[k][j]
          /\ k # n \/ j # c => left'[k][j] = left[k][j]
    BY <1>1 DEF UIInv, TypeOK
  <2> QED
    BY <2>1 DEF UIInv, OwesInTheMiddle
<1>11. SentOrOwed'
  BY <1>1, <1>3, <1>4 DEF UIInv, SentOrOwed
<1> QED
  BY <1>1, <1>5, <1>8, <1>9, <1>10, <1>11 DEF UIInv

\* A thread that moves on without owing more or less.
LEMMA GotoKeeps ==
  ASSUME UIInv, NEW n \in Click, NEW c \in Core, cpu[n][c] # "none",
         NEW place \in {"ready", "sending", "ended"}, Goto(n, c, place),
         IF place = "sending" THEN left[n][c] > 0 ELSE left[n][c] = 0,
         UNCHANGED <<uiVars, left, asked, sent, queue, busVars>>
  PROVE  UIInv'
<1>1. cpu' = [cpu EXCEPT ![n][c] = place]
  BY DEF Goto
<1>2. TypeOK'
  BY <1>1 DEF UIInv, TypeOK, uiVars, busVars
<1>3. NoThreadsYet'
  <2>1. ~(n > clicks)
    BY DEF UIInv, NoThreadsYet
  <2> QED
    BY <1>1, <2>1 DEF UIInv, NoThreadsYet, TypeOK, uiVars, busVars
<1>4. OwesInTheMiddle'
  <2>1. \A k \in Click, j \in Core :
          cpu'[k][j] = IF k = n /\ j = c THEN place ELSE cpu[k][j]
    BY <1>1 DEF UIInv, TypeOK
  <2> QED
    BY <2>1 DEF UIInv, OwesInTheMiddle
<1>5. SentOrOwed'
  BY OwedUnchanged DEF UIInv, SentOrOwed
<1> QED
  BY <1>2, <1>3, <1>4, <1>5 DEF UIInv

LEMMA CoreThreadKeeps ==
  ASSUME UIInv, NEW n \in Click, NEW c \in Core, CoreThread(n, c)
  PROVE  UIInv'
<1>1. CASE /\ cpu_thread(n, c) \/ cpu_thread_once(n, c)
           /\ execute_instruction(n, c)
  BY <1>1, ExecuteKeeps DEF cpu_thread, cpu_thread_once
<1>2. CASE cpu_thread(n, c) /\ Goto(n, c, "ended") /\ UNCHANGED <<left, asked>>
  <2>1. cpu[n][c] = "ready" /\ left[n][c] = 0
    BY <1>2 DEF cpu_thread, UIInv, OwesInTheMiddle
  <2> QED
    BY <1>2, <2>1, GotoKeeps DEF cpu_thread
<1>3. CASE send_message(n, c)
  BY <1>3, SendKeeps
<1>4. CASE wake_up(n, c)
  <2> DEFINE place == IF left[n][c] > 0 THEN "sending" ELSE AfterInstruction(n)
  <2>1. place \in {"ready", "sending", "ended"} /\ (place = "sending" <=> left[n][c] > 0)
    BY DEF AfterInstruction
  <2>2. left[n][c] > 0 \/ left[n][c] = 0
    <3>1. left[n][c] \in 0 .. 2
      BY DEF UIInv, TypeOK
    <3> QED
      BY <3>1
  <2>3. /\ cpu[n][c] = "sleeping" /\ Goto(n, c, place)
        /\ UNCHANGED <<uiVars, left, asked, sent, queue, busVars>>
    BY <1>4 DEF wake_up
  <2> HIDE DEF place
  <2> QED
    BY <2>1, <2>2, <2>3, GotoKeeps
<1> QED
  BY <1>1, <1>2, <1>3, <1>4
     DEF CoreThread, cpu_thread, cpu_thread_once

(***************************************************************************)
(* The steps of the bus threads.                                           *)
(***************************************************************************)
Busy == {"copy", "access", "id", "block_id", "handle", "handling"}

\* The bus threads take no part in what the cores owe.
LEMMA BusThreadKeeps ==
  ASSUME UIInv, NEW n \in Click, process_tasks(n)
  PROVE  UIInv'
<1>1. /\ UNCHANGED <<uiVars, cpuVars>>
      /\ bus[n] # "none"
      /\ \E place \in {"receive"} \cup Busy : bus' = [bus EXCEPT ![n] = place]
  <2>1. CASE receive(n) \/ set_channel(n) \/ read_channel(n) \/ end_handler(n)
    BY <2>1 DEF receive, set_channel, read_channel, end_handler, Busy
  <2>2. CASE read_message(n)
    <3>1. bus[n] \in {"access", "id", "block_id"} /\ bus' = [bus EXCEPT ![n] = AfterRead[bus[n]]]
      BY <2>2 DEF read_message, AfterRead
    <3>2. AfterRead[bus[n]] \in Busy \ {"copy"}
      BY <3>1 DEF AfterRead, Busy
    <3> QED
      BY <2>2, <3>1, <3>2 DEF read_message, Busy
  <2> QED
    BY <2>1, <2>2 DEF process_tasks
<1>2. /\ bus' \in [Click -> {"none", "receive", "copy", "access", "id", "block_id",
                            "handle", "handling"}]
      /\ \A k \in Click : k # n => bus'[k] = bus[k]
  BY <1>1 DEF UIInv, TypeOK, Busy
<1>3. /\ queue' \in Seq(Number) /\ Len(queue') <= MAX_MESSAGES /\ message' \in Number
  <2>1. CASE receive(n)
    <3>1. queue \in Seq(Number) /\ queue # <<>> /\ message' = Head(queue) /\ queue' = Tail(queue)
      BY <2>1 DEF receive, UIInv, TypeOK
    <3>2. Head(queue) \in Number /\ Tail(queue) \in Seq(Number) /\ Len(Tail(queue)) = Len(queue) - 1
      BY <3>1, HeadTailProperties
    <3>3. Len(queue) \in Nat /\ Len(queue) <= MAX_MESSAGES
      BY <3>1, LenProperties DEF UIInv, TypeOK
    <3> QED
      BY <3>1, <3>2, <3>3, MainUIAssumption
  <2>2. CASE ~receive(n)
    BY <2>2 DEF process_tasks, set_channel, read_message, read_channel, end_handler, UIInv, TypeOK
  <2> QED
    BY <2>1, <2>2
<1>4. channel' \in Number /\ local' \in [Click -> SUBSET Number]
  BY DEF process_tasks, receive, set_channel, read_message, read_channel, end_handler, Takes,
         UIInv, TypeOK
<1>5. served' \in Seq(SUBSET Number)
  <2>1. CASE end_handler(n)
    <3>1. /\ local[n] \in SUBSET Number /\ served \in Seq(SUBSET Number)
          /\ served' = Append(served, local[n])
      BY <2>1 DEF end_handler, UIInv, TypeOK
    <3> QED
      BY <3>1, AppendProperties
  <2>2. CASE ~end_handler(n)
    BY <2>2 DEF process_tasks, receive, set_channel, read_message, read_channel, UIInv, TypeOK
  <2> QED
    BY <2>1, <2>2
<1>6. TypeOK'
  BY <1>1, <1>2, <1>3, <1>4, <1>5 DEF UIInv, TypeOK, uiVars, cpuVars
<1>7. NoThreadsYet'
  <2>1. ~(n > clicks)
    BY <1>1 DEF UIInv, NoThreadsYet
  <2> QED
    BY <1>1, <1>2, <2>1 DEF UIInv, NoThreadsYet, uiVars, cpuVars
<1>8. OwesInTheMiddle' /\ SentOrOwed'
  BY <1>1, OwedUnchanged DEF UIInv, OwesInTheMiddle, SentOrOwed, cpuVars
<1> QED
  BY <1>6, <1>7, <1>8 DEF UIInv

LEMMA UIInvInitially == Init => UIInv
<1> SUFFICES ASSUME Init
             PROVE  UIInv
  OBVIOUS
<1>1. TypeOK
  <2>1. /\ <<>> \in Seq(Number) /\ <<>> \in Seq(SUBSET Number)
        /\ Len(<<>>) = 0
    OBVIOUS
  <2>2. queue \in Seq(Number) /\ Len(queue) <= MAX_MESSAGES
        /\ served \in Seq(SUBSET Number)
    BY <2>1, MainUIAssumption DEF Init
  <2>3. 0 \in Number /\ 0 \in 0 .. N_CPU /\ 0 \in 0 .. CLICKS
    BY MainUIAssumption DEF Number
  <2>4. /\ cpu \in [Click -> [Core -> {"none", "ready", "sending", "sleeping", "ended"}]]
        /\ kind \in [Click -> {"none", "loop", "once"}]
        /\ bus \in [Click -> {"none", "receive", "copy", "access", "id", "block_id",
                              "handle", "handling"}]
    BY DEF Init
  <2>5. left \in [Click -> [Core -> 0 .. 2]] /\ local \in [Click -> SUBSET Number]
    BY <2>3 DEF Init
  <2>6. /\ stop_thread \in BOOLEAN /\ window \in {"open", "closed", "ended"}
        /\ joined = 0 /\ clicks = 0 /\ asked = 0 /\ sent = 0 /\ message = 0 /\ channel = 0
    BY DEF Init
  <2> QED
    BY <2>2, <2>3, <2>4, <2>5, <2>6 DEF TypeOK
<1>2. NoThreadsYet /\ OwesInTheMiddle
  BY DEF Init, NoThreadsYet, OwesInTheMiddle
<1>3. Owed = {}
  <2>1. \A k \in Click, j \in Core, i \in 1 .. 2 : <<<<k, j>>, i>> \notin Owed
    BY DEF Init, Owed
  <2> DEFINE T == {}
  <2>2. Owed \in SUBSET ((Click \X Core) \X (1 .. 2)) /\ T \in SUBSET ((Click \X Core) \X (1 .. 2))
    BY DEF Owed
  <2>3. \A k \in Click, j \in Core, i \in 1 .. 2 :
          <<<<k, j>>, i>> \in Owed <=> <<<<k, j>>, i>> \in T
    BY <2>1
  <2> HIDE DEF T
  <2>4. Owed = T
    BY <2>2, <2>3, SameTriples
  <2> QED
    BY <2>4 DEF T
<1>4. SentOrOwed
  BY <1>3, FS_EmptySet DEF Init, SentOrOwed
<1> QED
  BY <1>1, <1>2, <1>4 DEF UIInv

LEMMA UIInvOnStep == UIInv /\ [Next]_vars => UIInv'
<1> SUFFICES ASSUME UIInv, [Next]_vars
             PROVE  UIInv'
  OBVIOUS
<1>1. CASE User \/ main_joins
  BY <1>1, UserKeeps
<1>2. CASE \E n \in Click : process_tasks(n) \/ \E c \in Core : CoreThread(n, c)
  BY <1>2, BusThreadKeeps, CoreThreadKeeps
<1>3. CASE UNCHANGED vars
  BY <1>3, OwedUnchanged
     DEF UIInv, TypeOK, NoThreadsYet, OwesInTheMiddle, SentOrOwed, vars, uiVars, cpuVars, busVars
<1> QED
  BY <1>1, <1>2, <1>3 DEF Next

\* The types are correct, so that no more requests are sent than instructions
\* need, and the queue never holds more than it has room for
\* (the mq_maxmsg of messages.c:11), however many clicks create threads that send to it.
THEOREM MainUITypeCorrect == Spec => []TypeOK
<1>1. UIInv => TypeOK
  BY DEF UIInv
<1> QED
  BY <1>1, UIInvInitially, UIInvOnStep, PTL DEF Spec

(***************************************************************************)
(* The requests in the order of the sends.                                 *)
(***************************************************************************)
\* What bus threads have received and not served yet, with one bus thread.
InHand == IF \E n \in Click : bus[n] \in Busy THEN 1 ELSE 0

\* Served requests, the one in hand and the queue follow each other in the order
\* of the sends, and all that a bus thread reads is from the one in hand.
InOrder ==
  /\ sent = Len(served) + InHand + Len(queue)
  /\ \A i \in 1 .. Len(queue) : queue[i] = Len(served) + InHand + i
  /\ \A i \in 1 .. Len(served) : served[i] = {i}
  /\ \A n \in Click :
       /\ bus[n] \in Busy => message = Len(served) + 1
       /\ bus[n] \in Busy \ {"copy"} => channel = Len(served) + 1
       /\ local[n] \subseteq IF bus[n] \in Busy THEN {Len(served) + 1} ELSE {}
       /\ bus[n] = "handling" => local[n] # {}

InOrderInv == clicks <= 1 => InOrder

LEMMA Lengths ==
  ASSUME TypeOK
  PROVE  Len(queue) \in Nat /\ Len(served) \in Nat /\ sent \in Nat /\ InHand \in {0, 1}
<1>1. queue \in Seq(Number) /\ served \in Seq(SUBSET Number) /\ sent \in Number
  BY DEF TypeOK
<1>2. Len(queue) \in Nat /\ Len(served) \in Nat
  BY <1>1, LenProperties
<1> QED
  BY <1>1, <1>2, MainUIAssumption DEF InHand, Number

\* With one click, the bus thread that takes a step is the only one.
LEMMA OnlyBusThread ==
  ASSUME UIInv, clicks <= 1, NEW n \in Click, bus[n] # "none"
  PROVE  \A k \in Click : k # n => bus[k] = "none"
<1> SUFFICES ASSUME NEW k \in Click, k # n
             PROVE  bus[k] = "none"
  OBVIOUS
<1>1. clicks \in Nat /\ n \in Nat /\ k \in Nat /\ n >= 1 /\ k >= 1
  BY MainUIAssumption DEF UIInv, TypeOK, Click
<1>2. ~(n > clicks)
  BY DEF UIInv, NoThreadsYet
<1>3. k > clicks
  BY <1>1, <1>2
<1> QED
  BY <1>3 DEF UIInv, NoThreadsYet

\* A step that leaves the bus, the queue and the count of requests alone.
LEMMA InOrderUnchanged ==
  ASSUME InOrder, UNCHANGED <<sent, queue, busVars>>
  PROVE  InOrder'
BY DEF InOrder, InHand, busVars

LEMMA InOrderOnCreate ==
  ASSUME UIInv, InOrderInv, NEW button, CreateThreads(button)
  PROVE  InOrderInv'
<1> SUFFICES ASSUME clicks' <= 1
             PROVE  InOrder'
  BY DEF InOrderInv
<1>1. /\ clicks' = clicks + 1 /\ clicks < CLICKS
      /\ bus' = [bus EXCEPT ![clicks'] = "receive"]
      /\ UNCHANGED <<sent, queue, message, channel, local, served>>
  BY DEF CreateThreads
<1>2. clicks \in Nat /\ clicks <= 1
  BY <1>1, MainUIAssumption DEF UIInv, TypeOK
<1>3. \A n \in Click : bus'[n] = bus[n] \/ (bus'[n] \notin Busy /\ bus[n] \notin Busy)
  <2>1. ASSUME NEW n \in Click
        PROVE  bus'[n] = IF n = clicks' THEN "receive" ELSE bus[n]
    BY <1>1 DEF UIInv, TypeOK
  <2>2. ASSUME NEW n \in Click, n = clicks'
        PROVE  bus[n] = "none"
    BY <1>1, <1>2, <2>2 DEF UIInv, NoThreadsYet
  <2> QED
    BY <2>1, <2>2 DEF Busy
<1>4. InHand' = InHand
  BY <1>3 DEF InHand
<1> QED
  BY <1>1, <1>2, <1>3, <1>4 DEF InOrderInv, InOrder, Busy

LEMMA InOrderOnSend ==
  ASSUME UIInv, InOrder, NEW n \in Click, NEW c \in Core, send_message(n, c)
  PROVE  InOrder'
<1>1. sent' = sent + 1 /\ queue' = Append(queue, sent + 1) /\ sent + 1 \in Number
  BY SendKeeps
<1>2. UNCHANGED <<busVars>>
  BY DEF send_message
<1>3. InHand' = InHand
  BY <1>2 DEF InHand, busVars
<1>4. Len(queue) \in Nat /\ Len(served) \in Nat /\ InHand \in {0, 1}
  BY Lengths DEF UIInv
<1>5. /\ Len(queue') = Len(queue) + 1
      /\ \A i \in 1 .. Len(queue) : queue'[i] = queue[i]
      /\ queue'[Len(queue) + 1] = sent + 1
  <2>1. queue \in Seq(Number)
    BY DEF UIInv, TypeOK
  <2> QED
    BY <1>1, <2>1, AppendProperties
<1>6. sent' = Len(served) + InHand + Len(queue')
  <2>1. sent = Len(served) + InHand + Len(queue)
    BY DEF InOrder
  <2> QED
    BY <1>1, <1>4, <1>5, <2>1
<1>7. ASSUME NEW i \in 1 .. Len(queue')
      PROVE  queue'[i] = Len(served) + InHand + i
  <2>1. CASE i = Len(queue) + 1
    BY <1>1, <1>4, <1>5, <2>1 DEF InOrder
  <2>2. CASE i # Len(queue) + 1
    <3>1. i \in 1 .. Len(queue)
      BY <1>4, <1>5, <2>2
    <3> QED
      BY <1>5, <3>1 DEF InOrder
  <2> QED
    BY <2>1, <2>2
<1> QED
  BY <1>2, <1>3, <1>6, <1>7 DEF InOrder, busVars

LEMMA InOrderOnReceive ==
  ASSUME UIInv, clicks <= 1, InOrder, NEW n \in Click, receive(n)
  PROVE  InOrder'
<1>1. /\ bus[n] = "receive" /\ queue # <<>> /\ message' = Head(queue) /\ queue' = Tail(queue)
      /\ bus' = [bus EXCEPT ![n] = "copy"] /\ UNCHANGED <<sent, channel, local, served>>
  BY DEF receive, cpuVars
<1>2. \A k \in Click : bus[k] \notin Busy
  BY <1>1, OnlyBusThread DEF Busy
<1>3. bus'[n] = "copy" /\ \A k \in Click : k # n => bus'[k] = "none"
  BY <1>1, OnlyBusThread DEF UIInv, TypeOK
<1>4. InHand = 0 /\ InHand' = 1
  BY <1>2, <1>3 DEF InHand, Busy
<1>5. Len(queue) \in Nat /\ Len(served) \in Nat
  BY Lengths DEF UIInv
<1>6. /\ Len(queue) >= 1 /\ Head(queue) = queue[1]
      /\ Len(queue') = Len(queue) - 1
      /\ \A i \in 1 .. Len(queue') : queue'[i] = queue[i + 1]
  <2>1. queue \in Seq(Number)
    BY DEF UIInv, TypeOK
  <2>2. Len(Tail(queue)) = Len(queue) - 1 /\ Head(queue) = queue[1]
    BY <1>1, <2>1, HeadTailProperties
  <2>3. \A i \in 1 .. Len(Tail(queue)) : Tail(queue)[i] = queue[i + 1]
    BY <1>1, <2>1, HeadTailProperties
  <2>4. Len(queue) # 0
    BY <1>1, <2>1, EmptySeq
  <2> QED
    BY <1>1, <1>5, <2>2, <2>3, <2>4
<1>7. message' = Len(served) + 1
  BY <1>1, <1>4, <1>5, <1>6 DEF InOrder
<1>8. sent' = Len(served) + 1 + Len(queue')
  BY <1>1, <1>4, <1>5, <1>6 DEF InOrder
<1>9. ASSUME NEW i \in 1 .. Len(queue')
      PROVE  queue'[i] = Len(served) + 1 + i
  <2>1. i + 1 \in 1 .. Len(queue) /\ queue'[i] = queue[i + 1]
    BY <1>5, <1>6
  <2> QED
    BY <1>4, <1>5, <2>1 DEF InOrder
<1> QED
  BY <1>1, <1>3, <1>4, <1>7, <1>8, <1>9 DEF InOrder, Busy

LEMMA InOrderOnReads ==
  ASSUME UIInv, clicks <= 1, InOrder, NEW n \in Click,
         set_channel(n) \/ read_message(n) \/ read_channel(n)
  PROVE  InOrder'
<1> DEFINE one == Len(served) + 1
<1>1. /\ bus[n] \in Busy
      /\ \E place \in Busy \ {"copy"} : bus' = [bus EXCEPT ![n] = place]
  <2>1. CASE set_channel(n) \/ read_channel(n)
    BY <2>1 DEF set_channel, read_channel, Busy
  <2>2. CASE read_message(n)
    <3>1. bus[n] \in {"access", "id", "block_id"} /\ bus' = [bus EXCEPT ![n] = AfterRead[bus[n]]]
      BY <2>2 DEF read_message, AfterRead
    <3>2. AfterRead[bus[n]] \in Busy \ {"copy"}
      BY <3>1 DEF AfterRead, Busy
    <3> QED
      BY <2>2, <3>1, <3>2 DEF read_message, Busy
  <2> QED
    BY <2>1, <2>2
<1>2. bus'[n] \in Busy \ {"copy"} /\ \A k \in Click : k # n => bus'[k] = bus[k] /\ bus[k] = "none"
  BY <1>1, OnlyBusThread DEF Busy, UIInv, TypeOK
<1>3. InHand' = InHand
  BY <1>1, <1>2 DEF InHand
<1>4. UNCHANGED <<sent, queue, message, served>>
  BY DEF set_channel, read_message, read_channel, cpuVars
<1>5. message = one /\ local[n] \subseteq {one}
  BY <1>1 DEF InOrder
<1>6. channel' = one
  <2>1. CASE set_channel(n)
    BY <1>5, <2>1 DEF set_channel
  <2>2. CASE read_message(n) \/ read_channel(n)
    BY <2>2 DEF read_message, read_channel, AfterRead, InOrder, Busy
  <2> QED
    BY <2>1, <2>2
<1>7. /\ local'[n] \subseteq {one} /\ (bus'[n] = "handling" => local'[n] # {})
      /\ \A k \in Click : k # n => local'[k] = local[k]
  <2>1. CASE set_channel(n)
    BY <1>5, <2>1 DEF set_channel, UIInv, TypeOK
  <2>2. CASE read_message(n) \/ read_channel(n)
    <3>1. channel = one
      BY <2>2 DEF read_message, read_channel, AfterRead, InOrder, Busy
    <3>2. local' = [local EXCEPT ![n] = @ \cup {one}]
      BY <1>5, <2>2, <3>1 DEF read_message, read_channel, Takes
    <3> QED
      BY <1>5, <3>2 DEF UIInv, TypeOK
  <2> QED
    BY <2>1, <2>2
<1>8. ASSUME NEW k \in Click, k # n
      PROVE  bus'[k] \notin Busy /\ local'[k] = {}
  BY <1>2, <1>7, <1>8 DEF InOrder, Busy
<1> QED
  BY <1>2, <1>3, <1>4, <1>5, <1>6, <1>7, <1>8 DEF InOrder, Busy

LEMMA InOrderOnEnd ==
  ASSUME UIInv, clicks <= 1, InOrder, NEW n \in Click, end_handler(n)
  PROVE  InOrder'
<1>1. /\ bus[n] = "handling" /\ bus' = [bus EXCEPT ![n] = "receive"]
      /\ local' = [local EXCEPT ![n] = {}]
      /\ served' = Append(served, local[n])
      /\ UNCHANGED <<sent, queue, message, channel>>
  BY DEF end_handler, cpuVars
<1>2. bus[n] \in Busy /\ \A k \in Click : bus'[k] \notin Busy /\ (k # n => bus[k] \notin Busy)
  BY <1>1, OnlyBusThread DEF Busy, UIInv, TypeOK
<1>3. InHand = 1 /\ InHand' = 0
  BY <1>2 DEF InHand
<1>4. Len(queue) \in Nat /\ Len(served) \in Nat
  BY Lengths DEF UIInv
<1>5. local[n] = {Len(served) + 1}
  BY <1>1, <1>2 DEF InOrder
<1>6. /\ Len(served') = Len(served) + 1
      /\ \A i \in 1 .. Len(served) : served'[i] = served[i]
      /\ served'[Len(served) + 1] = {Len(served) + 1}
  <2>1. served \in Seq(SUBSET Number) /\ local[n] \in SUBSET Number
    BY DEF UIInv, TypeOK
  <2> QED
    BY <1>1, <1>5, <2>1, AppendProperties
<1>7. sent' = Len(served') + Len(queue)
  BY <1>1, <1>3, <1>4, <1>6 DEF InOrder
<1>8. ASSUME NEW i \in 1 .. Len(queue)
      PROVE  queue[i] = Len(served') + i
  BY <1>3, <1>4, <1>6 DEF InOrder
<1>9. ASSUME NEW i \in 1 .. Len(served')
      PROVE  served'[i] = {i}
  <2>1. CASE i = Len(served) + 1
    BY <1>6, <2>1
  <2>2. CASE i # Len(served) + 1
    <3>1. i \in 1 .. Len(served)
      BY <1>4, <1>6, <2>2
    <3> QED
      BY <1>6, <3>1 DEF InOrder
  <2> QED
    BY <2>1, <2>2
<1>10. \A k \in Click : local'[k] = {}
  BY <1>1, <1>2 DEF InOrder, UIInv, TypeOK
<1>11. Len(served') + 0 = Len(served')
  BY <1>4, <1>6
<1> QED
  BY <1>1, <1>2, <1>3, <1>7, <1>8, <1>9, <1>10, <1>11 DEF InOrder, Busy

LEMMA InOrderOnStep == UIInv /\ InOrderInv /\ [Next]_vars => InOrderInv'
<1> SUFFICES ASSUME UIInv, InOrderInv, [Next]_vars
             PROVE  InOrderInv'
  OBVIOUS
<1>1. CASE button_clicked \/ button_step_clicked \/ button_run_clicked
  BY <1>1, InOrderOnCreate DEF button_clicked, button_step_clicked, button_run_clicked
<1>2. CASE clicks' = clicks /\ clicks <= 1
  <2>1. InOrder
    BY <1>2 DEF InOrderInv
  <2>2. CASE UNCHANGED <<sent, queue, busVars>>
    BY <2>1, <2>2, InOrderUnchanged DEF InOrderInv
  <2>3. ASSUME NEW n \in Click, NEW c \in Core, send_message(n, c)
        PROVE  InOrder'
    BY <2>1, <2>3, InOrderOnSend
  <2>4. ASSUME NEW n \in Click, process_tasks(n)
        PROVE  InOrder'
    BY <1>2, <2>1, <2>4, InOrderOnReceive, InOrderOnReads, InOrderOnEnd DEF process_tasks
  <2>5. ASSUME NEW n \in Click, NEW c \in Core, CoreThread(n, c), ~send_message(n, c)
        PROVE  UNCHANGED <<sent, queue, busVars>>
    BY <2>5 DEF CoreThread, cpu_thread, cpu_thread_once, wake_up
  <2>6. ASSUME button_stop_clicked \/ gtk_main_quit \/ main_joins \/ UNCHANGED vars
        PROVE  UNCHANGED <<sent, queue, busVars>>
    BY <2>6 DEF button_stop_clicked, gtk_main_quit, main_joins, join_cpu, join_unset_handle,
                 vars, cpuVars
  <2>7. CASE button_clicked \/ button_step_clicked \/ button_run_clicked
    BY <1>1, <2>7
  <2> QED
    BY <2>2, <2>3, <2>4, <2>5, <2>6, <2>7 DEF Next, User, InOrderInv
<1>3. CASE clicks' = clicks /\ ~(clicks <= 1)
  BY <1>3 DEF InOrderInv
<1>4. \/ button_clicked \/ button_step_clicked \/ button_run_clicked
      \/ clicks' = clicks
  BY DEF Next, User, button_stop_clicked, gtk_main_quit, main_joins, join_cpu, join_unset_handle,
         process_tasks, receive, set_channel, read_message, read_channel, end_handler,
         CoreThread, cpu_thread, cpu_thread_once, send_message, wake_up,
         vars, uiVars
<1> QED
  BY <1>1, <1>2, <1>3, <1>4

LEMMA InOrderInitially == Init => InOrderInv
<1> SUFFICES ASSUME Init
             PROVE  InOrder
  BY DEF InOrderInv
<1>1. /\ queue = <<>> /\ served = <<>> /\ sent = 0
      /\ \A n \in Click : bus[n] = "none" /\ local[n] = {}
  BY DEF Init
<1>2. InHand = 0
  BY <1>1 DEF InHand, Busy
<1> QED
  BY <1>1, <1>2 DEF InOrder, Busy

\* bus.c:31: while one click has created threads, its bus thread serves the
\* requests of all cores as they were sent and in that order: none is lost,
\* served twice or mixed with another.
THEOREM OneBusServesAsReceivedHolds == Spec => []OneBusServesAsReceived
<1>1. InOrderInv => OneBusServesAsReceived
  BY DEF InOrderInv, InOrder, OneBusServesAsReceived
<1> QED
  BY <1>1, UIInvInitially, UIInvOnStep, InOrderInitially, InOrderOnStep, PTL DEF Spec
=============================================================================
