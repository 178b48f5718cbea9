------------------------- MODULE MCProofingRequest -------------------------
(***************************************************************************)
(* ProofingRequest on small instances, for TLC.                            *)
(***************************************************************************)
EXTENDS ProofingRequest, TLC

(* Handlers are interchangeable, and so are engine sessions.               *)
Symmetry == Permutations(Handlers) \cup Permutations(Sessions)
=============================================================================
