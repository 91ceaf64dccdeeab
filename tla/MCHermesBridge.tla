---------------------------- MODULE MCHermesBridge ----------------------------
(* Small instances of HermesBridge for TLC: Turns and InitLoop are model       *)
(* values given by the configurations.                                         *)
EXTENDS HermesBridge
=============================================================================
