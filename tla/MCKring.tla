------------------------------- MODULE MCKring -------------------------------
(***************************************************************************)
(* TLC instance of UbbdKring: the values are in MCKring.cfg.               *)
(***************************************************************************)
EXTENDS UbbdKring

=============================================================================
