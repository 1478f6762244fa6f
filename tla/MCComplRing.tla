----------------------------- MODULE MCComplRing -----------------------------
(***************************************************************************)
(* The TLC instance of UbbdComplRing: the values are in MCComplRing.cfg.   *)
(***************************************************************************)
EXTENDS UbbdComplRing, TLC

(* The threads that write to the kring device are interchangeable. *)
ComplSymmetry == Permutations(Completers)

=============================================================================
