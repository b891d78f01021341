------------------------------ MODULE Memory -------------------------------
(***************************************************************************)
(* The main memory of memory.c: an array of (address, data) entries that   *)
(* both operations search from the start.  The addresses of the entries    *)
(* are distinct, so the array is a function from addresses to data.        *)
(***************************************************************************)
EXTENDS Integers

CONSTANT MemAddress \* the addresses of its entries, "0x0" .. "0xF"

\* memory_init: entry i gets the address "0x" and i in hexadecimal, and some data.
memory_init(data) == [MemAddress -> data]

\* The data of an address, or -1 when no entry has that address.
get_data_from_memory(memory, a) ==
  IF a \in DOMAIN memory THEN memory[a] ELSE -1

\* Leaves the memory alone when no entry has the address.
set_data_in_memory(memory, a, d) ==
  IF a \in DOMAIN memory THEN [memory EXCEPT ![a] = d] ELSE memory
=============================================================================
