------------------------------ MODULE Delivery ------------------------------
(***************************************************************************)
(* What messaging promises: each replica that stores messages stores, of   *)
(* those accepted by one sender, some in the order they were accepted, and *)
(* each at most once.  It promises nothing about which ones.               *)
(***************************************************************************)
EXTENDS Naturals, Sequences, Functions

CONSTANTS Producers, Consumers, Events

VARIABLES order,  \* order[p]: the messages that p accepted
          stored  \* the messages that have been stored, and by whom

vars == <<order, stored>>

Init == /\ order = [p \in Producers |-> <<>>]
        /\ stored = <<>>

\* A message is accepted once.
Accept(p, e) ==
  /\ \A q \in Producers : e \notin Range(order[q])
  /\ order' = [order EXCEPT ![p] = Append(@, e)] /\ stored' = stored

\* c stores the i-th message of p, after others of p only if those were accepted
\* before it.
Store(c, p, i) ==
  /\ \A row \in Range(stored), j \in DOMAIN order[p] :
       row.by = c /\ row.event = order[p][j] => j < i
  /\ stored' = Append(stored, [event |-> order[p][i], by |-> c])
  /\ order' = order

Next == \E p \in Producers :
          \/ \E e \in Events : Accept(p, e)
          \/ \E c \in Consumers : \E i \in DOMAIN order[p] : Store(c, p, i)

Spec == Init /\ [][Next]_vars

=============================================================================
