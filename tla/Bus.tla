-------------------------------- MODULE Bus --------------------------------
(***************************************************************************)
(* The bus of bus.c: the searches it makes in the caches of the cores that *)
(* did not send the request, and the three handlers of process_tasks.      *)
(* Each handler is one action: the bus is the only thread that reads or    *)
(* writes the caches of other cores, and this module takes a request as    *)
(* handled before a core thread runs again.                                *)
(***************************************************************************)
EXTENDS Cache, Memory, FiniteSets

CONSTANTS N_CPU,   \* number of cores
          PROTOCOL \* "MESI" or "MOESI"

ASSUME BusAssumption ==
  /\ N_CPU \in Nat \ {0}
  /\ PROTOCOL \in {"MESI", "MOESI"}
  /\ MemAddress \subseteq Address

VARIABLES caches, \* caches[c][i]: line i of the cache of core c
          memory, \* main_memory
          INV     \* INV[c]: the invalidation counter in the stats of core c

Core == 0 .. N_CPU - 1

AccessType == {"READMISS", "WRITEMISS", "INCREMENT"}

(***************************************************************************)
(* Searches in the other caches.                                           *)
(***************************************************************************)
LineFor(cs, k, a) == cs[k][getCacheBlock_by_address(cs[k], a)]

Holders(cs, a, c) ==
  {k \in Core \ {c} : getCacheBlock_by_address(cs[k], a) # NotFound}

\* The lowest numbered core of a set of cores, as a set of at most one core.
Lowest(cores) == {k \in cores : \A j \in cores : k <= j}

set_core_cache_block_state(cs, cores, a, s) ==
  [k \in Core |->
     IF k \in cores
     THEN [cs[k] EXCEPT ![getCacheBlock_by_address(cs[k], a)].state = s]
     ELSE cs[k]]

\* What a search returns: the data of the core it stopped at, or -1, and the
\* caches with that core's line set to state s.
Seek(cs, a, found, s) ==
  [data   |-> IF found = {} THEN -1 ELSE LineFor(cs, Min(found), a).data,
   caches |-> set_core_cache_block_state(cs, found, a, s)]

\* Variant: the owner is left in state MODIFIED instead of becoming OWNED.
SeekOwnedKeepsModified(cs, a, c) ==
  LET owner == Lowest({k \in Holders(cs, a, c) : Dirty(LineFor(cs, k, a))})
  IN  [Seek(cs, a, owner, "OWNED") EXCEPT !.caches = cs]

\* Variant: the owner becomes SHARED, as in a protocol without the state OWNED.
SeekOwnedShares(cs, a, c) ==
  Seek(cs, a, Lowest({k \in Holders(cs, a, c) : Dirty(LineFor(cs, k, a))}), "SHARED")

seek_owned(cs, a, c) ==
  Seek(cs, a, Lowest({k \in Holders(cs, a, c) : Dirty(LineFor(cs, k, a))}), "OWNED")

\* Variant: any valid copy answers the search, a modified one included.
SeekSharedTakesDirty(cs, a, c) ==
  Seek(cs, a, Lowest({k \in Holders(cs, a, c) : Valid(LineFor(cs, k, a))}), "SHARED")

\* Variant: the core that answers keeps its state.
SeekSharedKeepsExclusive(cs, a, c) ==
  LET sharer == Lowest({k \in Holders(cs, a, c) : Clean(LineFor(cs, k, a))})
  IN  [Seek(cs, a, sharer, "SHARED") EXCEPT !.caches = cs]

seek_shared(cs, a, c) ==
  Seek(cs, a, Lowest({k \in Holders(cs, a, c) : Clean(LineFor(cs, k, a))}), "SHARED")

\* Variant: the loop returns after the first copy it invalidates.
InvalidateOneCopy(cs, a, c) ==
  LET valid == {k \in Holders(cs, a, c) : Valid(LineFor(cs, k, a))}
  IN  set_core_cache_block_state(cs, Lowest(valid), a, "INVALID")

\* The loop returns at the first core whose copy is already invalid: copies in
\* cores with a higher number than that one are not invalidated.
seek_invalidate(cs, a, c) ==
  LET reached == {k \in Holders(cs, a, c) :
                    \A j \in Holders(cs, a, c) : j <= k => Valid(LineFor(cs, j, a))}
  IN  set_core_cache_block_state(cs, reached, a, "INVALID")

(***************************************************************************)
(* The handlers.  A request m has the fields id, access, address, value    *)
(* and block_id.                                                           *)
(***************************************************************************)
Fill(cs, m, s, d) ==
  [cs EXCEPT ![m.id][m.block_id] = [state |-> s, address |-> m.address, data |-> d]]

Target(m) == caches[m.id][m.block_id]

perform_wb(dirty_address, dirty_data) ==
  set_data_in_memory(memory, dirty_address, dirty_data)

\* The write-back each handler starts with.  A dirty target line is written
\* to the address of the request, whatever address the line holds.
WriteBackFirst(m) ==
  IF Dirty(Target(m)) THEN perform_wb(m.address, Target(m).data) ELSE memory

\* In MESI the bus does not look for a modified copy at all.
AskOwner(m) ==
  IF PROTOCOL = "MOESI" THEN seek_owned(caches, m.address, m.id)
                        ELSE [data |-> -1, caches |-> caches]

process_readmiss(m) ==
  LET a      == m.address
      mem    == WriteBackFirst(m)
      owned  == AskOwner(m)
      shared == seek_shared(owned.caches, a, m.id)
      here   == Target(m).address = a
  IN  /\ memory' = mem
      /\ UNCHANGED INV
      /\ \/ /\ here /\ ~Valid(Target(m))
            /\ caches' = Fill(owned.caches, m, "EXCLUSIVE", get_data_from_memory(mem, a))
         \/ /\ here /\ Valid(Target(m))
            /\ caches' = owned.caches
         \/ /\ ~here /\ owned.data # -1
            /\ caches' = Fill(owned.caches, m, "SHARED", owned.data)
         \/ /\ ~here /\ owned.data = -1 /\ shared.data # -1
            /\ caches' = Fill(shared.caches, m, "SHARED", shared.data)
         \/ /\ ~here /\ owned.data = -1 /\ shared.data = -1
            /\ caches' = Fill(shared.caches, m, "EXCLUSIVE", get_data_from_memory(mem, a))

\* Variant: the search counts the copies it finds, and the handler the request.
WriteMissCountsTwice(m) ==
  /\ memory' = WriteBackFirst(m)
  /\ caches' = seek_invalidate(Fill(caches, m, "MODIFIED", m.value), m.address, m.id)
  /\ INV' = [INV EXCEPT ![m.id] = @ + 1 + Cardinality(Holders(caches, m.address, m.id))]

process_writemiss(m) ==
  /\ memory' = WriteBackFirst(m)
  /\ caches' = seek_invalidate(Fill(caches, m, "MODIFIED", m.value), m.address, m.id)
  /\ INV' = [INV EXCEPT ![m.id] = @ + 1]

\* A line already invalid here is filled EXCLUSIVE with data memory does not
\* hold, and no other copy is invalidated.
process_increment(m) ==
  LET a        == m.address
      mem      == WriteBackFirst(m)
      owned    == AskOwner(m)
      shared   == seek_shared(owned.caches, a, m.id)
      here     == Target(m).address = a
      Modify(cs, d) == seek_invalidate(Fill(cs, m, "MODIFIED", d + 1), a, m.id)
  IN  /\ memory' = mem
      /\ \/ /\ here /\ ~Valid(Target(m))
            /\ caches' = Fill(owned.caches, m, "EXCLUSIVE", get_data_from_memory(mem, a) + 1)
            /\ UNCHANGED INV
         \/ /\ here /\ Valid(Target(m))
            /\ caches' = owned.caches
            /\ UNCHANGED INV
         \/ /\ ~here /\ owned.data # -1
            /\ caches' = Modify(owned.caches, owned.data)
            /\ UNCHANGED INV
         \/ /\ ~here /\ owned.data = -1 /\ shared.data # -1
            /\ caches' = Modify(shared.caches, shared.data)
            /\ UNCHANGED INV
         \/ /\ ~here /\ owned.data = -1 /\ shared.data = -1
            /\ caches' = Modify(shared.caches, get_data_from_memory(mem, a))
            /\ INV' = [INV EXCEPT ![m.id] = @ + 1]

BusInit(initialData) ==
  /\ memory \in memory_init(initialData)
  /\ caches = [c \in Core |-> initializeCache]
  /\ INV = [c \in Core |-> 0]
=============================================================================
