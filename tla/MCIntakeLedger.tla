---------------------------- MODULE MCIntakeLedger ----------------------------
(* Small instances of IntakeLedger for TLC: Writers and NoOne are model values *)
(* given by the configurations.                                                *)
EXTENDS IntakeLedger
=============================================================================
