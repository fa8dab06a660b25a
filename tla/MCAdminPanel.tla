---------------------------- MODULE MCAdminPanel ----------------------------
(* Instances of AdminPanel for TLC. *)
EXTENDS AdminPanel, TLC

Interchangeable == Permutations(Tabs) \cup Permutations(Students) \cup Permutations(Slots)

=============================================================================
