------------------------------- MODULE MCSetup -------------------------------
(***************************************************************************)
(* The TLC instance of UbbdSetup: the values are in MCSetup.cfg.           *)
(***************************************************************************)
EXTENDS UbbdSetup, TLC

(* Objects in memory are interchangeable. *)
SetupSymmetry == Permutations(Devs)

(* No race, an unload that meets an ADD_DEV, and all the others. *)
MCEnvs == {{}, {"exit_window"}, Races \ {"exit_window"}}

=============================================================================
