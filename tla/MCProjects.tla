----------------------------- MODULE MCProjects -----------------------------
(* Instances of Projects for TLC. *)
EXTENDS Projects, TLC

CONSTANTS p1, p2, r1, r2

OneReplica == p1 :> r1 @@ p2 :> r1

=============================================================================
