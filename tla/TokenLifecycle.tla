--------------------------- MODULE TokenLifecycle ---------------------------
(***************************************************************************)
(* What the service promises about one refresh token, seen from outside:   *)
(* it becomes usable at most once, stops being usable at most once, and    *)
(* an acknowledged logout or exchange is only given for a token that has   *)
(* stopped being usable by then.                                           *)
(***************************************************************************)
CONSTANT Tokens

VARIABLES phase,  \* of each token: it can be exchanged while it is "live"
          spent   \* tokens whose logout or exchange was acknowledged

vars == <<phase, spent>>

In(ph) == {t \in Tokens : phase[t] = ph}

Init == phase = [t \in Tokens |-> "unborn"] /\ spent = {}

\* A token is stored, and the tokens given for it become spent.
Issue(t, paid) ==
  /\ t \in In("unborn")
  /\ paid \subseteq In("dead")
  /\ phase' = [phase EXCEPT ![t] = "live"]
  /\ spent' = spent \cup paid

\* Tokens end: by logout, by a later session, by expiry, or before they are
\* ever stored.
Retire(ended, paid) ==
  /\ ended \cap In("dead") = {}
  /\ paid \subseteq ended \cup In("dead")
  /\ phase' = [t \in Tokens |-> IF t \in ended THEN "dead" ELSE phase[t]]
  /\ spent' = spent \cup paid

Next == \/ \E t \in Tokens, paid \in SUBSET Tokens : Issue(t, paid)
        \/ \E ended, paid \in SUBSET Tokens : Retire(ended, paid)

Spec == Init /\ [][Next]_vars

TypeOK == phase \in [Tokens -> {"unborn", "live", "dead"}] /\ spent \subseteq Tokens

\* The promise to whoever logged out or exchanged a token.
SpentIsDead == spent \subseteq In("dead")

\* A token that ended never becomes usable again.
DeadStaysDead == [][\A t \in In("dead") : phase'[t] = "dead"]_vars

=============================================================================
