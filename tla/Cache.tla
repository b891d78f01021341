------------------------------- MODULE Cache -------------------------------
(***************************************************************************)
(* The private cache of one core: cache.h and the helpers of               *)
(* cache_moesi.c that look a line up or choose a victim.  The tag of a     *)
(* line is its index from initializeCache on and no code assigns it again, *)
(* so an index stands for both.                                            *)
(***************************************************************************)
EXTENDS Integers, FiniteSetsExt

CONSTANTS CACHE_SIZE, \* number of lines of a cache
          Address,    \* the addresses that an instruction may hold
          NoAddress   \* "-1", the address of a line that was never filled

ASSUME CacheAssumption ==
  /\ CACHE_SIZE \in Nat \ {0}
  /\ NoAddress \notin Address

Block == 0 .. CACHE_SIZE - 1

CacheState == {"INVALID", "EXCLUSIVE", "SHARED", "MODIFIED", "OWNED"}

CacheBlock == [state : CacheState, address : Address \cup {NoAddress}, data : Int]

Valid(line) == line.state # "INVALID"
Dirty(line) == line.state \in {"MODIFIED", "OWNED"}
Clean(line) == line.state \in {"EXCLUSIVE", "SHARED"}

\* The states in which a core stores into a line without asking the bus.
Writable(line) == line.state \in {"MODIFIED", "EXCLUSIVE"}

initializeCache ==
  [i \in Block |-> [state |-> "INVALID", address |-> NoAddress, data |-> 0]]

\* The -1 that the searches of the code return when they find nothing.
NotFound == -1

\* The first line that holds address a, or NotFound.  It finds invalid lines
\* too: the code compares addresses and leaves the state to the caller.
getCacheBlock_by_address(cache, a) ==
  LET found == {i \in Block : cache[i].address = a}
  IN  IF found = {} THEN NotFound ELSE Min(found)

\* Variant: once no line is invalid, a shared line is preferred to a modified one.
VictimSkipsDirty(cache) ==
  LET In(s) == {i \in Block : cache[i].state = s}
  IN  IF In("INVALID") # {} THEN Min(In("INVALID"))
      ELSE IF In("SHARED") # {} THEN Min(In("SHARED"))
      ELSE 0

\* Variant: a cache without invalid or modified lines has no line to offer.
VictimMayBeNone(cache) ==
  LET In(s) == {i \in Block : cache[i].state = s}
  IN  IF In("INVALID") # {} THEN Min(In("INVALID"))
      ELSE IF In("MODIFIED") # {} THEN Min(In("MODIFIED"))
      ELSE NotFound

\* The line a miss will fill: an invalid one, else a modified one, else line 0.
getBlockIdWithWriteBackPolicy(cache) ==
  LET In(s) == {i \in Block : cache[i].state = s}
  IN  IF In("INVALID") # {} THEN Min(In("INVALID"))
      ELSE IF In("MODIFIED") # {} THEN Min(In("MODIFIED"))
      ELSE 0
=============================================================================
