--------------------------- MODULE MCStudentAuth ---------------------------
(* Instances of StudentAuth for TLC. *)
EXTENDS StudentAuth, TLC

\* Slots, and random strings, are interchangeable.
SlotsAndTokens == Permutations(Procs) \cup Permutations(Tokens)

AccountRequests == {"register", "login", "create", "update", "delete"}
SessionRequests == {"register", "login", "refresh", "logout", "delete"}
AllRequests == AccountRequests \cup SessionRequests

=============================================================================
