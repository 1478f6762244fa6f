-------------------------------- MODULE MCDev --------------------------------
(***************************************************************************)
(* TLC instance of UbbdDev: the values are in MCDev.cfg.                   *)
(***************************************************************************)
EXTENDS UbbdDev

(* Every combination of the races. *)
AllEnvs == SUBSET Races

=============================================================================
