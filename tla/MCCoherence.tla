---------------------------- MODULE MCCoherence ----------------------------
(***************************************************************************)
(* Instances of module Coherence for TLC.                                  *)
(***************************************************************************)
EXTENDS Coherence, TLC

\* The addresses are model values and no definition tells two of them apart.
Symmetry == Permutations(Address)

\* Data that the user may enter and that the searches take for nothing found.
MinusOne == {-1}
=============================================================================
