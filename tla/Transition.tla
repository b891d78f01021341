----------------------------- MODULE Transition -----------------------------
(***************************************************************************)
(* The transition table of moesi.c, the repository's own statement of the  *)
(* protocol for one line: what its state becomes on a local event (READ,   *)
(* WRITE) or on a snooped one (BUSREAD, BUSREADX, BUSWRITE).               *)
(***************************************************************************)

MOESIState == {"MODIFIED", "OWNED", "EXCLUSIVE", "SHARED", "INVALID"}
MOESIEvent == {"READ", "WRITE", "BUSREAD", "BUSREADX", "BUSWRITE"}

\* BUSREADX changes no state: every branch for it is commented out.
transition(current_state, event) ==
  CASE event = "WRITE"                                     -> "MODIFIED"
    [] event = "BUSWRITE"                                  -> "INVALID"
    [] event = "READ" /\ current_state = "INVALID"         -> "EXCLUSIVE"
    [] event = "BUSREAD" /\ current_state = "MODIFIED"     -> "OWNED"
    [] event = "BUSREAD" /\ current_state = "EXCLUSIVE"    -> "SHARED"
    [] OTHER                                               -> current_state
=============================================================================
