---------------------------- MODULE MCDashboard ----------------------------
(* The pages are interchangeable. *)
EXTENDS Dashboard, TLC

Symmetry == Permutations(Pages)
=============================================================================
