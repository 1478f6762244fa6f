------------------------------- MODULE MCQueue -------------------------------
(***************************************************************************)
(* TLC instances of UbbdQueue: the values are in MCQueue*.cfg.             *)
(***************************************************************************)
EXTENDS UbbdQueue, TLC

(* Requests are interchangeable, and so are completers. *)
QueueSymmetry == Permutations(Reqs) \cup Permutations(Completers)

=============================================================================
