----------------------------- MODULE MCDataPages -----------------------------
(***************************************************************************)
(* TLC instances of UbbdDataPages: the values are in MCDataPages*.cfg.     *)
(***************************************************************************)
EXTENDS UbbdDataPages, TLC

(* Requests are interchangeable. *)
PagesSymmetry == Permutations(Reqs)

=============================================================================
