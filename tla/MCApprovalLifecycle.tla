------------------------- MODULE MCApprovalLifecycle -------------------------
(* Small instances of ApprovalLifecycle for TLC. *)
EXTENDS ApprovalLifecycle, TLC

\* The calls are interchangeable in Init, Next and the invariants, and so are
\* the processes.
Symmetry == Permutations(Calls) \cup Permutations(Processes)
CallSymmetry == Permutations(Calls)
=============================================================================
