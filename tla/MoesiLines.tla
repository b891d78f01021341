----------------------------- MODULE MoesiLines -----------------------------
(***************************************************************************)
(* What the protocol promises of every cache line: its state moves only    *)
(* along the table of moesi.c, by the events that the request being served *)
(* raises in the core that sent it and in the others, until the line is    *)
(* filled with another address.  Module Simulator implements this module.  *)
(***************************************************************************)
EXTENDS Transition

CONSTANTS Core, Block, Address

VARIABLES state,  \* state[c][i]: state of line i of core c
          address \* address[c][i]: the address it holds

\* Local event of the requester's own line, when it already holds the address.
OwnEvent(access) == IF access = "WRITEMISS" THEN "WRITE" ELSE "READ"

\* Events that the other cores snoop: an increment reads and then writes.
SnoopedEvents(access) ==
  CASE access = "READMISS"  -> {"BUSREAD"}
    [] access = "WRITEMISS" -> {"BUSWRITE"}
    [] access = "INCREMENT" -> {"BUSREAD", "BUSWRITE"}

\* States in which a line that held another address is filled.
FillStates(access) ==
  IF access = "READMISS" THEN {"EXCLUSIVE", "SHARED"} ELSE {"MODIFIED"}

\* A core stores into a line of its own without asking the bus.
SilentStore(c, i) ==
  /\ state[c][i] \in {"MODIFIED", "EXCLUSIVE"}
  /\ state' = [state EXCEPT ![c][i] = transition(@, "WRITE")]
  /\ UNCHANGED address

\* A line of a core that did not send the request: only a copy of the
\* requested address may move, by a snooped event.
Snoops(k, i, access, a) ==
  /\ address'[k][i] = address[k][i]
  /\ \/ state'[k][i] = state[k][i]
     \/ /\ address[k][i] = a
        /\ \E e \in SnoopedEvents(access) : state'[k][i] = transition(state[k][i], e)

\* The line of the requester that the bus serves.
Served(c, i, access, a) ==
  /\ address'[c][i] = a
  /\ IF address[c][i] = a
     THEN state'[c][i] = transition(state[c][i], OwnEvent(access))
     ELSE state'[c][i] \in FillStates(access)

Serve(c, i, access, a) ==
  /\ Served(c, i, access, a)
  /\ \A j \in Block \ {i} : /\ state'[c][j] = state[c][j]
                            /\ address'[c][j] = address[c][j]
  /\ \A k \in Core \ {c}, j \in Block : Snoops(k, j, access, a)

Init ==
  /\ state = [c \in Core |-> [i \in Block |-> "INVALID"]]
  /\ \A c \in Core, i \in Block : address[c][i] \notin Address

Next ==
  \E c \in Core, i \in Block :
    \/ SilentStore(c, i)
    \/ \E access \in {"READMISS", "WRITEMISS", "INCREMENT"}, a \in Address :
         Serve(c, i, access, a)

Spec == Init /\ [][Next]_<<state, address>>
=============================================================================
