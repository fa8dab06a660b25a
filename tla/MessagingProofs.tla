-------------------------- MODULE MessagingProofs ---------------------------
(***************************************************************************)
(* Theorems about Messaging for any replicas, events, buffers and faults,  *)
(* and the refinement of Delivery.                                         *)
(***************************************************************************)
EXTENDS Messaging, SequenceTheorems, TLAPS

-----------------------------------------------------------------------------
(* Sequences in the order of another one *)

\* s has its elements in the order of o.
Sorted(o, s) == \A i, j \in DOMAIN s : i < j => Earlier(o, s[i], s[j])
\* All of s is before all of t in the order of o.
Before(o, s, t) == \A i \in DOMAIN s, j \in DOMAIN t : Earlier(o, s[i], t[j])

\* Concatenation of sorted sequences.
LEMMA SortedConcat ==
  ASSUME NEW o, NEW S, NEW s \in Seq(S), NEW t \in Seq(S)
  PROVE  /\ Sorted(o, s) /\ Sorted(o, t) /\ Before(o, s, t) => Sorted(o, s \o t)
         /\ \A u : Before(o, s, u) /\ Before(o, t, u) => Before(o, s \o t, u)
<1>1. /\ DOMAIN s = 1..Len(s) /\ DOMAIN t = 1..Len(t) /\ DOMAIN (s \o t) = 1..(Len(s) + Len(t))
      /\ Len(s) \in Nat /\ Len(t) \in Nat
      /\ \A i \in 1..(Len(s) + Len(t)) : (s \o t)[i] = IF i <= Len(s) THEN s[i] ELSE t[i - Len(s)]
  BY ConcatProperties, LenProperties
<1> DEFINE st == s \o t
<1>2. \A i \in DOMAIN st : \/ i \in DOMAIN s /\ st[i] = s[i]
                           \/ i - Len(s) \in DOMAIN t /\ i > Len(s) /\ st[i] = t[i - Len(s)]
  BY <1>1
<1>3. DOMAIN st \subseteq Int /\ DOMAIN s \subseteq Int /\ \A i \in DOMAIN s : i <= Len(s)
  BY <1>1
<1> HIDE DEF st
<1>4. ASSUME Sorted(o, s), Sorted(o, t), Before(o, s, t)
      PROVE  Sorted(o, st)
  <2> SUFFICES ASSUME NEW i \in DOMAIN st, NEW j \in DOMAIN st, i < j
               PROVE  Earlier(o, st[i], st[j])
    BY DEF Sorted
  <2>1. CASE i \in DOMAIN s /\ st[i] = s[i]
    BY <1>2, <1>3, <1>4, <2>1 DEF Sorted, Before
  <2>2. CASE i - Len(s) \in DOMAIN t /\ i > Len(s) /\ st[i] = t[i - Len(s)]
    <3>1. j - Len(s) \in DOMAIN t /\ st[j] = t[j - Len(s)]
      BY <1>1, <1>2, <1>3, <2>2
    <3> QED BY <1>1, <1>3, <1>4, <2>2, <3>1 DEF Sorted
  <2> QED BY <1>2, <2>1, <2>2
<1>5. ASSUME NEW u, Before(o, s, u), Before(o, t, u)
      PROVE  Before(o, st, u)
  BY <1>2, <1>5 DEF Before
<1> QED BY <1>4, <1>5 DEF st

\* The parts of a sequence that a broken connection leaves.
LEMMA SortedPart ==
  ASSUME NEW o, NEW S, NEW s \in Seq(S), NEW k \in 1..Len(s) + 1, NEW n \in 0..Len(s), NEW t
  PROVE  LET part == SubSeq(s, k, n) IN
         /\ part \in Seq(S) /\ Range(part) \subseteq Range(s)
         /\ Sorted(o, s) => Sorted(o, part)
         /\ Before(o, s, t) => Before(o, part, t)
         /\ Before(o, t, s) => Before(o, t, part)
<1> DEFINE part == SubSeq(s, k, n)
<1>1. /\ DOMAIN s = 1..Len(s) /\ Len(s) \in Nat /\ \A i \in 1..Len(s) : s[i] \in S
  BY LenProperties
<1>2. /\ part \in Seq(S)
      /\ Len(part) = IF k <= n THEN n - k + 1 ELSE 0
      /\ \A i \in 1..(n - k + 1) : part[i] = s[k + i - 1]
  BY <1>1, SubSeqProperties
<1>3. DOMAIN part = 1..Len(part)
  BY <1>2, LenProperties
<1>4. \A i \in DOMAIN part : i \in Int /\ k + i - 1 \in DOMAIN s /\ part[i] = s[k + i - 1]
  <2> TAKE i \in DOMAIN part
  <2>1. i \in 1..(n - k + 1)
    BY <1>2, <1>3
  <2>2. k + i - 1 \in 1..Len(s)
    BY <1>1, <2>1
  <2> QED BY <1>1, <1>2, <2>1, <2>2
<1> HIDE DEF part
<1>5. Range(part) \subseteq Range(s)
  BY <1>4 DEF Range
<1>6. Sorted(o, s) => Sorted(o, part)
  BY <1>4 DEF Sorted
<1>7. (Before(o, s, t) => Before(o, part, t)) /\ (Before(o, t, s) => Before(o, t, part))
  BY <1>4 DEF Before
<1> QED BY <1>2, <1>5, <1>6, <1>7 DEF part

\* One element more.
LEMMA SortedAppend ==
  ASSUME NEW o, NEW S, NEW s \in Seq(S), NEW e \in S, NEW t
  PROVE  /\ Append(s, e) \in Seq(S) /\ Range(Append(s, e)) = Range(s) \cup {e}
         /\ Sorted(o, s) /\ (\A i \in DOMAIN s : Earlier(o, s[i], e)) => Sorted(o, Append(s, e))
         /\ Before(o, s, t) /\ (\A j \in DOMAIN t : Earlier(o, e, t[j])) => Before(o, Append(s, e), t)
         /\ Before(o, t, s) /\ (\A j \in DOMAIN t : Earlier(o, t[j], e)) => Before(o, t, Append(s, e))
<1> DEFINE se == Append(s, e)
<1>1. /\ DOMAIN s = 1..Len(s) /\ Len(s) \in Nat
      /\ se \in Seq(S) /\ Len(se) = Len(s) + 1
      /\ \A i \in 1..Len(s) : se[i] = s[i]
      /\ se[Len(s) + 1] = e
  BY LenProperties, AppendProperties
<1>2. DOMAIN se = 1..(Len(s) + 1)
  BY <1>1, LenProperties
<1> HIDE DEF se
<1>3. \A i \in DOMAIN se : \/ i \in DOMAIN s /\ se[i] = s[i]
                           \/ i = Len(s) + 1 /\ se[i] = e
  BY <1>1, <1>2
<1>4. Range(se) = Range(s) \cup {e}
  BY <1>1, <1>2 DEF Range
<1>5. Sorted(o, s) /\ (\A i \in DOMAIN s : Earlier(o, s[i], e)) => Sorted(o, se)
  BY <1>1, <1>2, <1>3 DEF Sorted
<1>6. Before(o, s, t) /\ (\A j \in DOMAIN t : Earlier(o, e, t[j])) => Before(o, se, t)
  BY <1>3 DEF Before
<1>7. Before(o, t, s) /\ (\A j \in DOMAIN t : Earlier(o, t[j], e)) => Before(o, t, se)
  BY <1>3 DEF Before
<1> QED BY <1>1, <1>4, <1>5, <1>6, <1>7 DEF se

\* The first element of t leaves; whatever was before t is before it.
LEMMA SortedTail ==
  ASSUME NEW o, NEW S, NEW t \in Seq(S), t # <<>>, NEW u
  PROVE  /\ Tail(t) \in Seq(S) /\ Head(t) \in Range(t) /\ Range(Tail(t)) \subseteq Range(t)
         /\ Sorted(o, t) => Sorted(o, Tail(t)) /\ \A j \in DOMAIN Tail(t) : Earlier(o, Head(t), Tail(t)[j])
         /\ Before(o, t, u) => Before(o, Tail(t), u) /\ \A j \in DOMAIN u : Earlier(o, Head(t), u[j])
         /\ Before(o, u, t) => Before(o, u, Tail(t)) /\ \A j \in DOMAIN u : Earlier(o, u[j], Head(t))
<1> DEFINE tt == Tail(t)
<1>1. /\ DOMAIN t = 1..Len(t) /\ Len(t) \in Nat \ {0}
      /\ tt \in Seq(S) /\ Len(tt) = Len(t) - 1
      /\ \A i \in 1..Len(tt) : tt[i] = t[i + 1]
      /\ Head(t) = t[1]
  BY LenProperties, EmptySeq, HeadTailProperties 
<1>2. DOMAIN tt = 1..Len(tt)
  BY <1>1, LenProperties
<1> HIDE DEF tt
<1>3. \A i \in DOMAIN tt : i \in Int /\ i > 0 /\ i + 1 \in DOMAIN t /\ tt[i] = t[i + 1]
  BY <1>1, <1>2
<1>4. 1 \in DOMAIN t
  BY <1>1
<1>5. Head(t) \in Range(t) /\ Range(tt) \subseteq Range(t)
  BY <1>1, <1>3, <1>4 DEF Range
<1>6. Sorted(o, t) => Sorted(o, tt) /\ \A j \in DOMAIN tt : Earlier(o, Head(t), tt[j])
  BY <1>1, <1>3, <1>4 DEF Sorted
<1>7. Before(o, t, u) => Before(o, tt, u) /\ \A j \in DOMAIN u : Earlier(o, Head(t), u[j])
  BY <1>1, <1>3, <1>4 DEF Before
<1>8. Before(o, u, t) => Before(o, u, tt) /\ \A j \in DOMAIN u : Earlier(o, u[j], Head(t))
  BY <1>1, <1>3, <1>4 DEF Before
<1> QED BY <1>1, <1>5, <1>6, <1>7, <1>8 DEF tt

\* What the parts of a sequence consist of.
LEMMA RangeOfParts ==
  ASSUME NEW S, NEW s \in Seq(S)
  PROVE  /\ \A e \in S : Range(Append(s, e)) = Range(s) \cup {e}
         /\ s # <<>> => /\ Head(s) \in Range(s) /\ Head(s) \in S
                       /\ Range(Tail(s)) \subseteq Range(s) /\ Tail(s) \in Seq(S)
         /\ \A k \in 1..Len(s) + 1 : Range(SubSeq(s, k, Len(s))) \subseteq Range(s)
         /\ \A n \in 0..Len(s) : Range(SubSeq(s, 1, n)) \subseteq Range(s)
<1>1. Len(s) \in Nat
  BY LenProperties
<1>2. \A k \in 1..Len(s) + 1, n \in 0..Len(s) : Range(SubSeq(s, k, n)) \subseteq Range(s)
  BY SortedPart
<1>3. \A e \in S : Range(Append(s, e)) = Range(s) \cup {e}
  BY SortedAppend
<1>4. s # <<>> => /\ Head(s) \in Range(s) /\ Head(s) \in S
                 /\ Range(Tail(s)) \subseteq Range(s) /\ Tail(s) \in Seq(S)
  BY SortedTail, HeadTailProperties
<1> QED BY <1>1, <1>2, <1>3, <1>4

\* An element that o does not have is in order with any other.
LEMMA Foreign ==
  ASSUME NEW o, NEW e, e \notin Range(o), NEW f
  PROVE  Earlier(o, e, f) /\ Earlier(o, f, e)
BY DEF Earlier, Range

\* An event that is accepted last comes after all the others, and changes the order of
\* none of them.
LEMMA NewLast ==
  ASSUME NEW S, NEW o \in Seq(S), NEW e \in S, e \notin Range(o),
         NEW s, e \notin Range(s), NEW t, e \notin Range(t)
  PROVE  /\ Sorted(o, s) => Sorted(Append(o, e), s)
         /\ Before(o, s, t) => Before(Append(o, e), s, t)
         /\ \A i \in DOMAIN s : Earlier(Append(o, e), s[i], e)
<1> DEFINE oe == Append(o, e)
<1>1. /\ DOMAIN o = 1..Len(o) /\ Len(o) \in Nat /\ DOMAIN oe = 1..(Len(o) + 1)
      /\ \A i \in 1..Len(o) : oe[i] = o[i]
      /\ oe[Len(o) + 1] = e
  BY LenProperties, AppendProperties
<1> HIDE DEF oe
<1>2. \A i \in DOMAIN oe : \/ i \in DOMAIN o /\ oe[i] = o[i] /\ i <= Len(o)
                           \/ i = Len(o) + 1 /\ oe[i] = e
  <2> TAKE i \in DOMAIN oe
  <2>1. CASE i <= Len(o)
    BY <1>1, <2>1
  <2>2. CASE i = Len(o) + 1
    BY <1>1, <2>2
  <2> QED BY <1>1, <2>1, <2>2
<1>3. ASSUME NEW f, NEW g, f # e, g # e
      PROVE  /\ Earlier(o, f, g) => Earlier(oe, f, g)
             /\ Earlier(oe, f, e)
  <2>1. ASSUME NEW i \in DOMAIN oe, NEW j \in DOMAIN oe, oe[i] = f, oe[j] = g, Earlier(o, f, g)
        PROVE  i < j
    BY <1>2, <1>3, <2>1 DEF Earlier
  <2>2. ASSUME NEW i \in DOMAIN oe, NEW j \in DOMAIN oe, oe[i] = f, oe[j] = e
        PROVE  i < j
    <3>1. i \in DOMAIN o /\ i <= Len(o)
      BY <1>2, <1>3, <2>2
    <3>2. j = Len(o) + 1
      BY <1>2, <2>2 DEF Range
    <3> QED BY <1>1, <3>1, <3>2
  <2> QED BY <2>1, <2>2 DEF Earlier
<1>4. (\A i \in DOMAIN s : s[i] # e) /\ (\A i \in DOMAIN t : t[i] # e)
  BY DEF Range
<1> QED BY <1>3, <1>4 DEF oe, Sorted, Before

-----------------------------------------------------------------------------
(* Types *)

\* Every action keeps the types.
LEMMA TypeInductive ==
  ASSUME TypeOK, [Next]_vars
  PROVE  TypeOK'
<1> USE DEF TypeOK, history, consumer
<1>1. ASSUME NEW p \in Producers, StartProducer(p)
      PROVE  TypeOK'
  BY <1>1 DEF StartProducer, Replicas
<1>2. ASSUME NEW p \in Producers, NEW e \in Events, SendMessage(p, e)
      PROVE  TypeOK'
  <2>1. Append(out[p], e) \in Seq(Events) /\ Append(order[p], e) \in Seq(Events)
    BY AppendProperties
  <2> QED BY <1>2, <2>1 DEF SendMessage
<1>3. ASSUME NEW p \in Producers, StopProducer(p)
      PROVE  TypeOK'
  <2>1. <<>> \in Seq(Events)
    BY EmptySeq
  <2> QED BY <1>3, <2>1 DEF StopProducer
<1>4. ASSUME NEW p \in Producers, Flush(p)
      PROVE  TypeOK'
  <2>1. out[p] \in Seq(Events) /\ out[p] # <<>>
    BY <1>4 DEF Flush
  <2>2. Tail(out[p]) \in Seq(Events) /\ Head(out[p]) \in Events
    BY <2>1, HeadTailProperties
  <2>3. \A c \in Consumers : Append(inbox[c], Head(out[p])) \in Seq(Events)
    BY <2>2, AppendProperties
  <2>4. inbox' \in [Consumers -> Seq(Events)]
    BY <1>4, <2>3 DEF Flush
  <2>5. out' \in [Producers -> Seq(Events)]
    BY <1>4, <2>2 DEF Flush
  <2> QED BY <1>4, <2>4, <2>5 DEF Flush
<1>5. ASSUME NEW p \in Producers, BreakProducer(p)
      PROVE  TypeOK'
  <2>1. PICK k \in 1..Len(out[p]) + 1 : out' = [out EXCEPT ![p] = SubSeq(@, k, Len(@))]
    BY <1>5 DEF BreakProducer
  <2>2. SubSeq(out[p], k, Len(out[p])) \in Seq(Events)
    <3>1. out[p] \in Seq(Events) /\ Len(out[p]) \in 0..Len(out[p])
      BY LenProperties
    <3> QED BY <3>1, SortedPart
  <2>3. out' \in [Producers -> Seq(Events)]
    BY <2>1, <2>2
  <2> QED BY <1>5, <2>3 DEF BreakProducer
<1>6. ASSUME NEW c \in Consumers, BreakConsumer(c)
      PROVE  TypeOK'
  <2>1. PICK k \in 0..Len(inbox[c]) : inbox' = [inbox EXCEPT ![c] = SubSeq(@, 1, k)]
    BY <1>6 DEF BreakConsumer
  <2>2. SubSeq(inbox[c], 1, k) \in Seq(Events)
    <3>1. inbox[c] \in Seq(Events) /\ 1 \in 1..Len(inbox[c]) + 1
      BY LenProperties
    <3> QED BY <3>1, SortedPart
  <2>3. inbox' \in [Consumers -> Seq(Events)]
    BY <2>1, <2>2
  <2> QED BY <1>6, <2>3 DEF BreakConsumer
<1>7. ASSUME NEW r \in Replicas, Reconnect(r) \/ GiveUp(r)
      PROVE  TypeOK'
  <2>1. <<>> \in Seq(Events)
    BY EmptySeq
  <2> QED BY <1>7, <2>1 DEF Reconnect, GiveUp
<1>8. ASSUME NEW c \in Consumers, StartConsumer(c) \/ Subscribe(c)
      PROVE  TypeOK'
  BY <1>8 DEF StartConsumer, Subscribe
<1>9. ASSUME NEW c \in Consumers, CloseConsumer(c) \/ StopConsumer(c)
      PROVE  TypeOK'
  <2>1. <<>> \in Seq(Events)
    BY EmptySeq
  <2>2. CASE CloseConsumer(c)
    BY <2>1, <2>2 DEF CloseConsumer
  <2>3. CASE StopConsumer(c)
    BY <2>1, <2>3 DEF StopConsumer
  <2> QED BY <1>9, <2>2, <2>3
<1>10. ASSUME NEW c \in Consumers, SaveMessage(c)
       PROVE  TypeOK'
  <2>1. inbox[c] \in Seq(Events) /\ inbox[c] # <<>>
    BY <1>10 DEF SaveMessage, CanStore
  <2>2. Tail(inbox[c]) \in Seq(Events) /\ NextMessage(c) \in Events
    BY <2>1, HeadTailProperties DEF NextMessage
  <2>3. [event |-> NextMessage(c), by |-> c] \in Row
    BY <2>2 DEF Row
  <2>4. Append(rows, [event |-> NextMessage(c), by |-> c]) \in Seq(Row)
    BY <2>3, AppendProperties
  <2>5. rows' \in Seq(Row)
    BY <1>10, <2>4 DEF SaveMessage
  <2>6. /\ inbox' \in [Consumers -> Seq(Events)] /\ work' \in [Consumers -> Events \cup {NoEvent}]
        /\ failed' \subseteq Row
    BY <1>10, <2>2, <2>3 DEF SaveMessage, LogFailure
  <2> QED BY <1>10, <2>5, <2>6 DEF SaveMessage
<1>11. ASSUME NEW c \in Consumers, ReloadMessage(c)
       PROVE  TypeOK'
  <2>1. [event |-> work[c], by |-> c] \in Row
    BY <1>11 DEF ReloadMessage, Busy, Row
  <2> QED BY <1>11, <2>1 DEF ReloadMessage, LogFailure
<1>12. CASE UNCHANGED vars
  BY <1>12 DEF vars
<1> QED BY <1>1, <1>2, <1>3, <1>4, <1>5, <1>6, <1>7, <1>8, <1>9, <1>10, <1>11, <1>12
        DEF Next, ProducerStep, ConsumerStep

-----------------------------------------------------------------------------
(* Nothing comes from nowhere *)

\* No event has been accepted twice, by the same producer or by two.
AcceptedOnce ==
  \A p, q \in Producers : \A i \in DOMAIN order[p], j \in DOMAIN order[q] :
    order[p][i] = order[q][j] => p = q /\ i = j

\* What is on the way, waits or is stored has been accepted; what is reported as
\* received, or is being reloaded, is stored.
Genuine ==
  /\ \A p \in Producers : Range(out[p]) \subseteq Range(order[p])
  /\ \A c \in Consumers : Range(inbox[c]) \subseteq Accepted
  /\ \A row \in Range(rows) : row.event \in Accepted
  /\ ReceivedAreStored
  /\ \A c \in Consumers : work[c] # NoEvent => [event |-> work[c], by |-> c] \in Range(rows)

\* What SendMessage does: the event is new, and is either accepted, or refused with
\* nothing changed.
LEMMA Sent ==
  ASSUME TypeOK, NEW p \in Producers, NEW e \in Events, SendMessage(p, e)
  PROVE  /\ e \notin Accepted /\ \A q \in Producers : e \notin Range(order[q])
         /\ \A q \in Producers \ {p} : order'[q] = order[q] /\ out'[q] = out[q]
         /\ UNCHANGED <<inbox, rows, work, received>>
         /\ \/ /\ order'[p] = Append(order[p], e) /\ out'[p] = Append(out[p], e)
               /\ refused' = refused
            \/ /\ UNCHANGED <<order, out>> /\ refused' = refused \cup {e}
BY DEF SendMessage, Accepted, TypeOK, consumer

\* Only SendMessage changes what has been accepted.
LEMMA NothingElseAccepts ==
  ASSUME [Next]_vars, order' # order
  PROVE  \E p \in Producers, e \in Events : SendMessage(p, e)
BY DEF Next, ProducerStep, ConsumerStep, StartProducer, StopProducer, Flush, BreakProducer,
       StartConsumer, Subscribe, CloseConsumer, StopConsumer, SaveMessage, ReloadMessage,
       BreakConsumer, Reconnect, GiveUp, history, vars

\* An event is accepted by one producer and once, because SendMessage takes a new one.
LEMMA AcceptedOnceInductive ==
  ASSUME TypeOK, AcceptedOnce, [Next]_vars
  PROVE  AcceptedOnce'
<1>1. CASE order' = order
  BY <1>1 DEF AcceptedOnce
<1>2. ASSUME NEW p \in Producers, NEW e \in Events, SendMessage(p, e), order' # order
      PROVE  AcceptedOnce'
  <2>1. /\ \A q \in Producers : e \notin Range(order[q])
        /\ \A q \in Producers \ {p} : order'[q] = order[q]
        /\ order'[p] = Append(order[p], e)
    BY <1>2, Sent
  <2>2. order[p] \in Seq(Events)
    BY DEF TypeOK
  <2>3. /\ DOMAIN order[p] = 1..Len(order[p]) /\ Len(order[p]) \in Nat
        /\ DOMAIN order'[p] = 1..(Len(order[p]) + 1)
        /\ \A i \in DOMAIN order[p] : order'[p][i] = order[p][i]
        /\ order'[p][Len(order[p]) + 1] = e
    BY <2>1, <2>2, LenProperties, AppendProperties
  <2>4. \A q \in Producers : \A i \in DOMAIN order'[q] :
          \/ i \in DOMAIN order[q] /\ order'[q][i] = order[q][i] /\ order[q][i] # e
          \/ q = p /\ i = Len(order[p]) + 1 /\ order'[q][i] = e
    <3> TAKE q \in Producers
    <3> TAKE i \in DOMAIN order'[q]
    <3>1. CASE q # p
      BY <2>1, <3>1 DEF Range
    <3>2. CASE q = p /\ i = Len(order[p]) + 1
      BY <2>3, <3>2
    <3>3. CASE q = p /\ i # Len(order[p]) + 1
      <4>1. i \in DOMAIN order[p]
        BY <2>3, <3>3
      <4> QED BY <2>1, <2>3, <3>3, <4>1 DEF Range
    <3> QED BY <3>1, <3>2, <3>3
  <2> QED BY <2>4 DEF AcceptedOnce
<1> QED BY <1>1, <1>2, NothingElseAccepts

\* What has been accepted stays so.
LEMMA AcceptedGrows ==
  ASSUME TypeOK, [Next]_vars
  PROVE  Accepted \subseteq Accepted' /\ \A p \in Producers : Range(order[p]) \subseteq Range(order'[p])
<1>1. CASE order' = order
  BY <1>1 DEF Accepted
<1>2. ASSUME NEW p \in Producers, NEW e \in Events, SendMessage(p, e)
      PROVE  \A q \in Producers : Range(order[q]) \subseteq Range(order'[q])
  <2>1. order[p] \in Seq(Events)
    BY DEF TypeOK
  <2>2. Range(Append(order[p], e)) = Range(order[p]) \cup {e}
    BY <2>1, RangeOfParts
  <2> QED BY <1>2, <2>2, Sent
<1>3. CASE \A p \in Producers : Range(order[p]) \subseteq Range(order'[p])
  BY <1>3 DEF Accepted
<1> QED BY <1>1, <1>2, <1>3, NothingElseAccepts

\* Nothing gets into the pipeline but by being accepted, and nothing is sent to the
\* database that was not received.
LEMMA GenuineInductive ==
  ASSUME TypeOK, Genuine, MessagingAssumption, [Next]_vars
  PROVE  Genuine'
<1> USE DEF Genuine, ReceivedAreStored, history, consumer
<1>a. /\ Accepted \subseteq Accepted'
      /\ \A p \in Producers : Range(order[p]) \subseteq Range(order'[p])
  BY AcceptedGrows
<1>b. /\ \A p \in Producers : out[p] \in Seq(Events)
      /\ \A c \in Consumers : inbox[c] \in Seq(Events)
  BY DEF TypeOK
<1>1. ASSUME NEW p \in Producers, NEW e \in Events, SendMessage(p, e)
      PROVE  Genuine'
  <2>1. \A q \in Producers : Range(out'[q]) \subseteq Range(order'[q])
    <3>1. Range(Append(out[p], e)) = Range(out[p]) \cup {e}
      BY <1>b, RangeOfParts
    <3>2. Range(Append(order[p], e)) = Range(order[p]) \cup {e}
      <4>1. order[p] \in Seq(Events)
        BY DEF TypeOK
      <4> QED BY <4>1, RangeOfParts
    <3> TAKE q \in Producers
    <3>3. CASE q # p
      <4>1. order'[q] = order[q] /\ out'[q] = out[q]
        BY <1>1, <3>3, Sent
      <4> QED BY <4>1
    <3>4. CASE q = p /\ UNCHANGED <<order, out>>
      BY <3>4
    <3>5. CASE q = p /\ order'[p] = Append(order[p], e) /\ out'[p] = Append(out[p], e)
      BY <3>1, <3>2, <3>5
    <3> QED BY <1>1, <3>3, <3>4, <3>5, Sent
  <2> QED BY <1>a, <1>1, <2>1, Sent
<1>2. ASSUME NEW p \in Producers, Flush(p)
      PROVE  Genuine'
  <2>1. /\ Tail(out[p]) \in Seq(Events) /\ Head(out[p]) \in Range(out[p])
        /\ Range(Tail(out[p])) \subseteq Range(out[p])
    BY <1>b, <1>2, RangeOfParts DEF Flush
  <2>2. Head(out[p]) \in Events /\ Head(out[p]) \in Accepted
    <3>1. out[p] # <<>> /\ out[p] \in Seq(Events)
      BY <1>b, <1>2 DEF Flush
    <3>2. Head(out[p]) \in Events
      BY <3>1, RangeOfParts
    <3>3. Head(out[p]) \in Range(order[p])
      BY <2>1
    <3> QED BY <3>2, <3>3 DEF Accepted
  <2>3. \A c \in Consumers : Range(Append(inbox[c], Head(out[p]))) = Range(inbox[c]) \cup {Head(out[p])}
    BY <1>b, <2>2, RangeOfParts
  <2>4. order' = order /\ Accepted' = Accepted
    BY <1>2 DEF Flush, Accepted
  <2>5. \A c \in Consumers : Range(inbox'[c]) \subseteq Accepted'
    BY <1>2, <2>2, <2>3, <2>4 DEF Flush
  <2>6. \A q \in Producers : Range(out'[q]) \subseteq Range(order'[q])
    BY <1>2, <2>1, <2>4 DEF Flush, TypeOK
  <2> QED BY <1>2, <2>4, <2>5, <2>6 DEF Flush
<1>3. ASSUME NEW p \in Producers, StartProducer(p) \/ StopProducer(p) \/ BreakProducer(p)
      PROVE  Genuine'
  <2>1. \A k \in 1..Len(out[p]) + 1 : Range(SubSeq(out[p], k, Len(out[p]))) \subseteq Range(out[p])
    <3>1. Len(out[p]) \in 0..Len(out[p])
      BY <1>b, LenProperties
    <3> QED BY <1>b, <3>1, RangeOfParts
  <2>2. \A q \in Producers : Range(out'[q]) \subseteq Range(out[q])
    <3>1. Range(<<>>) = {}
      BY DEF Range
    <3> QED BY <1>3, <2>1, <3>1 DEF StartProducer, StopProducer, BreakProducer, TypeOK
  <2>3. UNCHANGED <<order, inbox, rows, work, received>> /\ Accepted' = Accepted
    BY <1>3 DEF StartProducer, StopProducer, BreakProducer, Accepted
  <2> QED BY <2>2, <2>3
<1>4. ASSUME NEW c \in Consumers,
             StartConsumer(c) \/ Subscribe(c) \/ BreakConsumer(c) \/ CloseConsumer(c) \/ StopConsumer(c)
      PROVE  Genuine'
  <2>1. \A k \in 0..Len(inbox[c]) : Range(SubSeq(inbox[c], 1, k)) \subseteq Range(inbox[c])
    <3>1. 1 \in 1..Len(inbox[c]) + 1
      BY <1>b, LenProperties
    <3> QED BY <1>b, <3>1, RangeOfParts
  <2>2. \A d \in Consumers : Range(inbox'[d]) \subseteq Range(inbox[d])
    <3>1. Range(<<>>) = {}
      BY DEF Range
    <3> QED BY <1>4, <2>1, <3>1
            DEF StartConsumer, Subscribe, BreakConsumer, CloseConsumer, StopConsumer, TypeOK
  <2>3. UNCHANGED <<order, out, rows, received>> /\ Accepted' = Accepted
    BY <1>4 DEF StartConsumer, Subscribe, BreakConsumer, CloseConsumer, StopConsumer, Accepted
  <2>4. \A d \in Consumers : work'[d] \in {work[d], NoEvent}
    BY <1>4 DEF StartConsumer, Subscribe, BreakConsumer, CloseConsumer, StopConsumer, TypeOK
  <2> QED BY <2>2, <2>3, <2>4
<1>5. ASSUME NEW r \in Replicas, Reconnect(r) \/ GiveUp(r)
      PROVE  Genuine'
  <2>1. /\ \A q \in Producers : Range(out'[q]) \subseteq Range(out[q])
        /\ \A d \in Consumers : Range(inbox'[d]) \subseteq Range(inbox[d])
    <3>1. Range(<<>>) = {}
      BY DEF Range
    <3> QED BY <1>5, <3>1 DEF Reconnect, GiveUp
  <2>2. UNCHANGED <<order, rows, work, received>> /\ Accepted' = Accepted
    BY <1>5 DEF Reconnect, GiveUp, Accepted
  <2> QED BY <2>1, <2>2
<1>6. ASSUME NEW c \in Consumers, SaveMessage(c)
      PROVE  Genuine'
  <2> DEFINE e == NextMessage(c)
             row == [event |-> e, by |-> c]
  <2>1. inbox[c] # <<>> /\ inbox[c] \in Seq(Events)
    BY <1>b, <1>6 DEF SaveMessage, CanStore
  <2>2. /\ e \in Range(inbox[c]) /\ e \in Events /\ e \in Accepted
        /\ Range(Tail(inbox[c])) \subseteq Range(inbox[c])
    BY <2>1, RangeOfParts DEF NextMessage
  <2>3. row \in Row /\ rows \in Seq(Row)
    BY <2>2 DEF Row, TypeOK
  <2>4. Range(Append(rows, row)) = Range(rows) \cup {row}
    BY <2>3, RangeOfParts
  <2>5. UNCHANGED <<order, out, received>> /\ Accepted' = Accepted
    BY <1>6 DEF SaveMessage, Accepted
  <2>6. \A d \in Consumers : Range(inbox'[d]) \subseteq Range(inbox[d])
    BY <1>6, <2>2 DEF SaveMessage, TypeOK
  <2>7. \/ rows' = Append(rows, row) /\ work' = [work EXCEPT ![c] = e]
        \/ rows' \in {Append(rows, row), rows} /\ work' = work
    BY <1>6 DEF SaveMessage
  <2>8. \A r \in Range(rows') : r.event \in Accepted'
    <3>1. row.event \in Accepted
      BY <2>2
    <3>2. \A r \in Range(rows) \cup {row} : r.event \in Accepted
      BY <3>1
    <3>3. Range(rows') = Range(rows) \cup {row} \/ Range(rows') = Range(rows)
      BY <2>4, <2>7
    <3> QED BY <2>5, <3>2, <3>3
  <2>9. \A d \in Consumers : work'[d] # NoEvent => [event |-> work'[d], by |-> d] \in Range(rows')
    BY <2>4, <2>7 DEF TypeOK
  <2>10. received' \subseteq Range(rows')
    BY <2>4, <2>5, <2>7
  <2> QED BY <2>5, <2>6, <2>8, <2>9, <2>10
<1>7. ASSUME NEW c \in Consumers, ReloadMessage(c)
      PROVE  Genuine'
  <2>1. UNCHANGED <<order, out, inbox, rows>> /\ Accepted' = Accepted
    BY <1>7 DEF ReloadMessage, Accepted
  <2>2. received' \subseteq Range(rows)
    BY <1>7 DEF ReloadMessage, Busy
  <2>3. \A d \in Consumers : work'[d] \in {work[d], NoEvent}
    BY <1>7 DEF ReloadMessage, TypeOK
  <2> QED BY <2>1, <2>2, <2>3
<1>8. CASE UNCHANGED vars
  BY <1>8 DEF vars, Accepted
<1> QED BY <1>1, <1>2, <1>3, <1>4, <1>5, <1>6, <1>7, <1>8 DEF Next, ProducerStep, ConsumerStep

-----------------------------------------------------------------------------
(* The pipeline *)

\* Three sequences, each in the order of o, and one before the other: what is
\* stored, what waits, what is on the way.
InStages(o, s, w, u) ==
  /\ Sorted(o, s) /\ Sorted(o, w) /\ Sorted(o, u)
  /\ Before(o, s, w) /\ Before(o, s, u) /\ Before(o, w, u)

\* An element moves from the way to the queue, or from the queue to what is stored,
\* or is lost there.
LEMMA StagesPassOn ==
  ASSUME NEW S, NEW o, NEW s \in Seq(S), NEW w \in Seq(S), NEW u \in Seq(S), InStages(o, s, w, u)
  PROVE  /\ u # <<>> => InStages(o, s, Append(w, Head(u)), Tail(u)) /\ InStages(o, s, w, Tail(u))
         /\ w # <<>> => InStages(o, Append(s, Head(w)), Tail(w), u) /\ InStages(o, s, Tail(w), u)
<1> USE DEF InStages
<1>1. ASSUME u # <<>>
      PROVE  InStages(o, s, Append(w, Head(u)), Tail(u)) /\ InStages(o, s, w, Tail(u))
  <2>1. /\ Sorted(o, Tail(u)) /\ \A j \in DOMAIN Tail(u) : Earlier(o, Head(u), Tail(u)[j])
        /\ Before(o, s, Tail(u)) /\ \A j \in DOMAIN s : Earlier(o, s[j], Head(u))
        /\ Before(o, w, Tail(u)) /\ \A j \in DOMAIN w : Earlier(o, w[j], Head(u))
    BY <1>1, SortedTail
  <2>2. Head(u) \in S
    BY <1>1, RangeOfParts
  <2>3. Sorted(o, Append(w, Head(u))) /\ Before(o, s, Append(w, Head(u)))
    BY <2>1, <2>2, SortedAppend
  <2>4. Before(o, Append(w, Head(u)), Tail(u))
    BY <2>1, <2>2, SortedAppend
  <2> QED BY <2>1, <2>3, <2>4
<1>2. ASSUME w # <<>>
      PROVE  InStages(o, Append(s, Head(w)), Tail(w), u) /\ InStages(o, s, Tail(w), u)
  <2>1. /\ Sorted(o, Tail(w)) /\ \A j \in DOMAIN Tail(w) : Earlier(o, Head(w), Tail(w)[j])
        /\ Before(o, s, Tail(w)) /\ \A j \in DOMAIN s : Earlier(o, s[j], Head(w))
        /\ Before(o, Tail(w), u) /\ \A j \in DOMAIN u : Earlier(o, Head(w), u[j])
    BY <1>2, SortedTail
  <2>2. Head(w) \in S
    BY <1>2, RangeOfParts
  <2>3. Sorted(o, Append(s, Head(w))) /\ Before(o, Append(s, Head(w)), u)
    BY <2>1, <2>2, SortedAppend
  <2>4. Before(o, Append(s, Head(w)), Tail(w))
    BY <2>1, <2>2, SortedAppend
  <2> QED BY <2>1, <2>3, <2>4
<1> QED BY <1>1, <1>2

\* A part of what is on the way is lost, or all of it.
LEMMA StagesLoseWay ==
  ASSUME NEW S, NEW o, NEW s, NEW w, NEW u \in Seq(S), InStages(o, s, w, u)
  PROVE  \A v \in {u, <<>>} \cup {SubSeq(u, k, Len(u)) : k \in 1..Len(u) + 1} : InStages(o, s, w, v)
<1>1. InStages(o, s, w, <<>>)
  BY DEF InStages, Sorted, Before
<1>2. ASSUME NEW k \in 1..Len(u) + 1
      PROVE  InStages(o, s, w, SubSeq(u, k, Len(u)))
  <2>1. Len(u) \in 0..Len(u)
    BY LenProperties
  <2> QED BY <2>1, SortedPart DEF InStages
<1> QED BY <1>1, <1>2

\* The same of what waits.
LEMMA StagesLoseQueue ==
  ASSUME NEW S, NEW o, NEW s, NEW w \in Seq(S), NEW u, InStages(o, s, w, u)
  PROVE  \A v \in {w, <<>>} \cup {SubSeq(w, 1, n) : n \in 0..Len(w)} : InStages(o, s, v, u)
<1>1. InStages(o, s, <<>>, u)
  BY DEF InStages, Sorted, Before
<1>2. ASSUME NEW n \in 0..Len(w)
      PROVE  InStages(o, s, SubSeq(w, 1, n), u)
  <2>1. 1 \in 1..Len(w) + 1
    BY LenProperties
  <2> QED BY <2>1, SortedPart DEF InStages
<1> QED BY <1>1, <1>2

\* An element that o does not have goes anywhere.
LEMMA StagesForeign ==
  ASSUME NEW S, NEW o, NEW s \in Seq(S), NEW w \in Seq(S), NEW u, NEW e \in S, e \notin Range(o),
         InStages(o, s, w, u)
  PROVE  InStages(o, Append(s, e), w, u) /\ InStages(o, s, Append(w, e), u)
<1>1. \A f : Earlier(o, e, f) /\ Earlier(o, f, e)
  BY Foreign
<1>2. Sorted(o, Append(s, e)) /\ Before(o, Append(s, e), w) /\ Before(o, Append(s, e), u)
  BY <1>1, SortedAppend DEF InStages
<1>3. Sorted(o, Append(w, e)) /\ Before(o, s, Append(w, e)) /\ Before(o, Append(w, e), u)
  BY <1>1, SortedAppend DEF InStages
<1> QED BY <1>2, <1>3 DEF InStages

\* A new element joins o and the end of the way.
LEMMA StagesNew ==
  ASSUME NEW S, NEW o \in Seq(S), NEW s \in Seq(S), NEW w \in Seq(S), NEW u \in Seq(S), NEW e \in S,
         e \notin Range(o), e \notin Range(s), e \notin Range(w), e \notin Range(u),
         InStages(o, s, w, u)
  PROVE  InStages(Append(o, e), s, w, Append(u, e))
<1> DEFINE oe == Append(o, e)
<1>1. Sorted(oe, s) /\ Before(oe, s, w) /\ \A i \in DOMAIN s : Earlier(oe, s[i], e)
  BY NewLast DEF InStages
<1>2. Sorted(oe, w) /\ Before(oe, w, u) /\ \A i \in DOMAIN w : Earlier(oe, w[i], e)
  BY NewLast DEF InStages
<1>3. Sorted(oe, u) /\ \A i \in DOMAIN u : Earlier(oe, u[i], e)
  BY NewLast DEF InStages
<1>4. Before(oe, s, u)
  BY NewLast DEF InStages
<1> HIDE DEF oe
<1>5. Sorted(oe, Append(u, e)) /\ Before(oe, s, Append(u, e)) /\ Before(oe, w, Append(u, e))
  BY <1>1, <1>2, <1>3, <1>4, SortedAppend
<1>6. InStages(oe, s, w, Append(u, e))
  BY <1>1, <1>2, <1>5 DEF InStages
<1> QED BY <1>6 DEF oe

\* The pipeline between any sender and any replica that stores.
Stages ==
  \A p \in Producers, c \in Consumers : InStages(order[p], StoredBy(c), inbox[c], out[p])

\* What the sequences of the pipeline are made of.
Stage == Events \cup {NoEvent}

\* The stages of the path are sequences over Stage, and no producer accepts what stands
\* for no event.
LEMMA StageTypes ==
  ASSUME TypeOK, MessagingAssumption
  PROVE  /\ \A c \in Consumers : StoredBy(c) \in Seq(Stage) /\ inbox[c] \in Seq(Stage)
         /\ \A p \in Producers : out[p] \in Seq(Stage) /\ order[p] \in Seq(Stage)
         /\ \A p \in Producers : NoEvent \notin Range(order[p])
<1>1. \A s \in Seq(Events) : s \in Seq(Stage)
  <2> TAKE s \in Seq(Events)
  <2>1. s \in [1..Len(s) -> Events] /\ Len(s) \in Nat
    BY LenProperties
  <2>2. s \in [1..Len(s) -> Stage]
    BY <2>1 DEF Stage
  <2> QED BY <2>1, <2>2, SeqDef
<1>2. ASSUME NEW c \in Consumers
      PROVE  StoredBy(c) \in Seq(Stage)
  <2>1. rows \in [1..Len(rows) -> Row] /\ DOMAIN rows = 1..Len(rows) /\ Len(rows) \in Nat
    BY LenProperties DEF TypeOK
  <2>2. StoredBy(c) \in [1..Len(rows) -> Stage]
    BY <2>1 DEF StoredBy, Row, Stage
  <2> QED BY <2>1, <2>2, SeqDef
<1>3. ASSUME NEW p \in Producers
      PROVE  NoEvent \notin Range(order[p])
  <2>1. order[p] \in [1..Len(order[p]) -> Events] /\ DOMAIN order[p] = 1..Len(order[p])
    BY LenProperties DEF TypeOK
  <2> QED BY <2>1 DEF Range, MessagingAssumption
<1> QED BY <1>1, <1>2, <1>3 DEF TypeOK

\* A row adds an event to what its replica has stored, and a gap for the others.
LEMMA StoredByGrows ==
  ASSUME TypeOK, NEW d \in Consumers, NEW row \in Row, rows' = Append(rows, row)
  PROVE  StoredBy(d)' = Append(StoredBy(d), IF row.by = d THEN row.event ELSE NoEvent)
<1> DEFINE e == IF row.by = d THEN row.event ELSE NoEvent
<1>1. /\ rows \in Seq(Row) /\ DOMAIN rows = 1..Len(rows) /\ Len(rows) \in Nat
      /\ DOMAIN rows' = 1..(Len(rows) + 1)
      /\ \A i \in 1..Len(rows) : rows'[i] = rows[i]
      /\ rows'[Len(rows) + 1] = row
  BY LenProperties, AppendProperties DEF TypeOK
<1>2. /\ StoredBy(d) \in Seq(Stage) /\ e \in Stage /\ Len(StoredBy(d)) = Len(rows)
  <2>1. StoredBy(d) \in [1..Len(rows) -> Stage]
    <3>1. rows \in [1..Len(rows) -> Row]
      BY LenProperties DEF TypeOK
    <3> QED BY <1>1, <3>1 DEF StoredBy, Row, Stage
  <2>2. StoredBy(d) \in Seq(Stage)
    BY <1>1, <2>1, SeqDef
  <2>3. Len(StoredBy(d)) = Len(rows)
    BY <1>1, <2>1, <2>2, LenProperties
  <2> QED BY <2>2, <2>3 DEF Stage, Row
<1>3. /\ DOMAIN Append(StoredBy(d), e) = 1..(Len(rows) + 1)
      /\ \A i \in 1..Len(rows) : Append(StoredBy(d), e)[i] = StoredBy(d)[i]
      /\ Append(StoredBy(d), e)[Len(rows) + 1] = e
      /\ Append(StoredBy(d), e) \in Seq(Stage)
  BY <1>1, <1>2, LenProperties, AppendProperties
<1>4. DOMAIN StoredBy(d)' = 1..(Len(rows) + 1)
  BY <1>1 DEF StoredBy
<1>5. ASSUME NEW i \in 1..(Len(rows) + 1)
      PROVE  StoredBy(d)'[i] = Append(StoredBy(d), e)[i]
  <2>1. CASE i \in 1..Len(rows)
    BY <1>1, <1>3, <2>1 DEF StoredBy
  <2>2. CASE i = Len(rows) + 1
    BY <1>1, <1>3, <2>2 DEF StoredBy
  <2>3. i \in 1..Len(rows) \/ i = Len(rows) + 1
    BY <1>1
  <2> QED BY <2>1, <2>2, <2>3
<1>6. StoredBy(d)' = [i \in 1..(Len(rows) + 1) |-> StoredBy(d)'[i]]
  BY <1>4 DEF StoredBy
<1>7. Append(StoredBy(d), e) = [i \in 1..(Len(rows) + 1) |-> Append(StoredBy(d), e)[i]]
  <2>1. Append(StoredBy(d), e) \in [1..(Len(rows) + 1) -> Stage]
    BY <1>3, LenProperties
  <2> HIDE DEF e
  <2> QED BY <2>1
<1> QED BY <1>5, <1>6, <1>7

\* Every action moves events forward along the path in their order, or drops them.
LEMMA StagesInductive ==
  ASSUME TypeOK, TypeOK', AcceptedOnce, Genuine, Stages, MessagingAssumption, [Next]_vars
  PROVE  Stages'
<1> USE DEF history, consumer
<1>a. /\ \A c \in Consumers : StoredBy(c) \in Seq(Stage) /\ inbox[c] \in Seq(Stage)
      /\ \A p \in Producers : out[p] \in Seq(Stage) /\ order[p] \in Seq(Stage)
      /\ \A p \in Producers : NoEvent \notin Range(order[p])
  BY StageTypes
<1>b. \A p \in Producers, c \in Consumers : InStages(order[p], StoredBy(c), inbox[c], out[p])
  BY DEF Stages
<1>c. rows' = rows => \A c \in Consumers : StoredBy(c)' = StoredBy(c)
  BY DEF StoredBy
<1>1. ASSUME NEW p \in Producers, NEW e \in Events, SendMessage(p, e)
      PROVE  Stages'
  <2>1. \A c \in Consumers : StoredBy(c)' = StoredBy(c) /\ inbox'[c] = inbox[c]
    BY <1>1, <1>c, Sent
  <2>2. ASSUME NEW q \in Producers, NEW c \in Consumers, order'[q] = order[q], out'[q] = out[q]
        PROVE  InStages(order'[q], StoredBy(c)', inbox'[c], out'[q])
    BY <1>b, <2>1, <2>2
  <2>3. ASSUME NEW c \in Consumers, order'[p] = Append(order[p], e), out'[p] = Append(out[p], e)
        PROVE  InStages(order'[p], StoredBy(c)', inbox'[c], out'[p])
    <3>1. e \notin Accepted /\ e \notin Range(order[p])
      BY <1>1, Sent
    <3>2. e \notin Range(inbox[c]) /\ e \notin Range(out[p])
      BY <3>1 DEF Genuine
    <3>3. e \notin Range(StoredBy(c))
      <4>1. \A i \in DOMAIN rows : rows[i].event \in Accepted
        BY DEF Genuine, Range
      <4> QED BY <3>1, <4>1 DEF Range, StoredBy, MessagingAssumption
    <3>4. e \in Stage
      BY DEF Stage
    <3>5. InStages(order[p], StoredBy(c), inbox[c], out[p])
      BY <1>b
    <3>6. InStages(Append(order[p], e), StoredBy(c), inbox[c], Append(out[p], e))
      BY <1>a, <3>1, <3>2, <3>3, <3>4, <3>5, StagesNew
    <3> QED BY <2>1, <2>3, <3>6
  <2>4. \A q \in Producers, c \in Consumers : InStages(order'[q], StoredBy(c)', inbox'[c], out'[q])
    <3> TAKE q \in Producers, c \in Consumers
    <3>1. CASE q # p
      BY <1>1, <2>2, <3>1, Sent
    <3>2. CASE q = p
      BY <1>1, <2>2, <2>3, <3>2, Sent
    <3> QED BY <3>1, <3>2
  <2> QED BY <2>4 DEF Stages
<1>2. ASSUME NEW p \in Producers, Flush(p)
      PROVE  Stages'
  <2>1. /\ \A c \in Consumers : inbox'[c] \in {inbox[c], Append(inbox[c], Head(out[p]))}
        /\ out'[p] = Tail(out[p]) /\ \A q \in Producers \ {p} : out'[q] = out[q]
        /\ order' = order /\ rows' = rows /\ out[p] # <<>>
    BY <1>2 DEF Flush, TypeOK
  <2>2. Head(out[p]) \in Range(order[p]) /\ Head(out[p]) \in Stage
    BY <1>a, <2>1, RangeOfParts DEF Genuine
  <2>3. \A q \in Producers \ {p} : Head(out[p]) \notin Range(order[q])
    BY <2>2 DEF AcceptedOnce, Range
  <2>4. ASSUME NEW q \in Producers, NEW c \in Consumers
        PROVE  InStages(order'[q], StoredBy(c)', inbox'[c], out'[q])
    <3>1. StoredBy(c)' = StoredBy(c) /\ InStages(order[q], StoredBy(c), inbox[c], out[q])
      BY <1>b, <1>c, <2>1
    <3>2. CASE q = p
      <4>1. /\ InStages(order[p], StoredBy(c), inbox[c], Tail(out[p]))
            /\ InStages(order[p], StoredBy(c), Append(inbox[c], Head(out[p])), Tail(out[p]))
        BY <1>a, <2>1, <3>1, <3>2, StagesPassOn
      <4> QED BY <2>1, <3>1, <3>2, <4>1
    <3>3. CASE q # p
      <4>1. InStages(order[q], StoredBy(c), Append(inbox[c], Head(out[p])), out[q])
        BY <1>a, <2>2, <2>3, <3>1, <3>3, StagesForeign
      <4> QED BY <2>1, <3>1, <3>3, <4>1
    <3> QED BY <3>2, <3>3
  <2> QED BY <2>4 DEF Stages
<1> DEFINE Part(t) == {t, <<>>}
           Suffix(t) == {SubSeq(t, k, Len(t)) : k \in 1..Len(t) + 1}
           Prefix(t) == {SubSeq(t, 1, n) : n \in 0..Len(t)}
<1>3. ASSUME \A q \in Producers : out'[q] \in Part(out[q]) \cup Suffix(out[q]),
             \A c \in Consumers : inbox'[c] \in Part(inbox[c]) \cup Prefix(inbox[c]),
             UNCHANGED <<order, rows>>
      PROVE  Stages'
  <2>1. ASSUME NEW q \in Producers, NEW c \in Consumers
        PROVE  InStages(order'[q], StoredBy(c)', inbox'[c], out'[q])
    <3>1. out[q] \in Seq(Stage) /\ InStages(order[q], StoredBy(c), inbox[c], out[q])
      BY <1>a, <1>b
    <3>2. \A v \in Part(out[q]) \cup Suffix(out[q]) : InStages(order[q], StoredBy(c), inbox[c], v)
      BY <3>1, StagesLoseWay DEF Part, Suffix
    <3>3. inbox[c] \in Seq(Stage) /\ InStages(order[q], StoredBy(c), inbox[c], out'[q])
      BY <1>3, <1>a, <3>2
    <3>4. \A v \in Part(inbox[c]) \cup Prefix(inbox[c]) : InStages(order[q], StoredBy(c), v, out'[q])
      BY <3>3, StagesLoseQueue DEF Part, Prefix
    <3>5. InStages(order[q], StoredBy(c), inbox'[c], out'[q])
      BY <1>3, <3>4
    <3> QED BY <1>3, <1>c, <3>5
  <2> QED BY <2>1 DEF Stages
<1>4. ASSUME NEW p \in Producers, StartProducer(p) \/ StopProducer(p) \/ BreakProducer(p)
      PROVE  Stages'
  <2>1. \A q \in Producers : out'[q] \in Part(out[q]) \cup Suffix(out[q])
    <3>1. CASE StartProducer(p) \/ StopProducer(p)
      BY <3>1 DEF StartProducer, StopProducer, TypeOK
    <3>2. CASE BreakProducer(p)
      <4>1. PICK k \in 1..Len(out[p]) + 1 : out' = [out EXCEPT ![p] = SubSeq(@, k, Len(@))]
        BY <3>2 DEF BreakProducer
      <4>2. SubSeq(out[p], k, Len(out[p])) \in Suffix(out[p])
        OBVIOUS
      <4> HIDE DEF Suffix
      <4> QED BY <4>1, <4>2 DEF TypeOK
    <3> QED BY <1>4, <3>1, <3>2
  <2>2. UNCHANGED <<order, rows, inbox>>
    BY <1>4 DEF StartProducer, StopProducer, BreakProducer
  <2> QED BY <1>3, <2>1, <2>2
<1>5. ASSUME NEW r \in Replicas, Reconnect(r) \/ GiveUp(r)
      PROVE  Stages'
  BY <1>3, <1>5 DEF Reconnect, GiveUp
<1>6. ASSUME NEW c \in Consumers,
             StartConsumer(c) \/ Subscribe(c) \/ BreakConsumer(c) \/ CloseConsumer(c) \/ StopConsumer(c)
      PROVE  Stages'
  <2>1. \A d \in Consumers : inbox'[d] \in Part(inbox[d]) \cup Prefix(inbox[d])
    <3>1. CASE StartConsumer(c) \/ Subscribe(c) \/ CloseConsumer(c) \/ StopConsumer(c)
      BY <3>1 DEF StartConsumer, Subscribe, CloseConsumer, StopConsumer, TypeOK
    <3>2. CASE BreakConsumer(c)
      <4>1. PICK n \in 0..Len(inbox[c]) : inbox' = [inbox EXCEPT ![c] = SubSeq(@, 1, n)]
        BY <3>2 DEF BreakConsumer
      <4>2. SubSeq(inbox[c], 1, n) \in Prefix(inbox[c])
        OBVIOUS
      <4> HIDE DEF Prefix
      <4> QED BY <4>1, <4>2 DEF TypeOK
    <3> QED BY <1>6, <3>1, <3>2
  <2>2. UNCHANGED <<order, rows, out>>
    BY <1>6 DEF StartConsumer, Subscribe, BreakConsumer, CloseConsumer, StopConsumer
  <2> QED BY <1>3, <2>1, <2>2
<1>7. ASSUME NEW c \in Consumers, SaveMessage(c)
      PROVE  Stages'
  <2> DEFINE e == NextMessage(c)
             row == [event |-> e, by |-> c]
  <2>1. /\ inbox[c] # <<>> /\ e = Head(inbox[c]) /\ e \in Events
        /\ UNCHANGED <<order, out>>
        /\ inbox'[c] = Tail(inbox[c]) /\ \A d \in Consumers \ {c} : inbox'[d] = inbox[d]
        /\ rows' = rows \/ rows' = Append(rows, row)
    <3>1. inbox[c] # <<>> /\ inbox[c] \in Seq(Events)
      BY <1>7 DEF SaveMessage, CanStore, TypeOK
    <3>2. e \in Events
      BY <3>1, RangeOfParts DEF NextMessage
    <3> QED BY <1>7, <3>1, <3>2 DEF SaveMessage, NextMessage, TypeOK
  <2>2. row \in Row
    BY <2>1 DEF Row
  <2>3. ASSUME NEW q \in Producers, NEW d \in Consumers
        PROVE  InStages(order'[q], StoredBy(d)', inbox'[d], out'[q])
    <3>1. InStages(order[q], StoredBy(d), inbox[d], out[q])
      BY <1>b
    <3>2. CASE rows' = rows /\ d = c
      <4>1. InStages(order[q], StoredBy(d), Tail(inbox[d]), out[q])
        BY <1>a, <2>1, <3>1, <3>2, StagesPassOn
      <4> QED BY <1>c, <2>1, <3>2, <4>1
    <3>3. CASE rows' = Append(rows, row) /\ d = c
      <4>1. StoredBy(d)' = Append(StoredBy(d), Head(inbox[d]))
        BY <2>1, <2>2, <3>3, StoredByGrows
      <4>2. InStages(order[q], Append(StoredBy(d), Head(inbox[d])), Tail(inbox[d]), out[q])
        BY <1>a, <2>1, <3>1, <3>3, StagesPassOn
      <4> QED BY <2>1, <3>3, <4>1, <4>2
    <3>4. CASE rows' = rows /\ d # c
      BY <1>c, <2>1, <3>1, <3>4
    <3>5. CASE rows' = Append(rows, row) /\ d # c
      <4>1. StoredBy(d)' = Append(StoredBy(d), NoEvent)
        BY <2>2, <3>5, StoredByGrows
      <4>2. NoEvent \in Stage
        BY DEF Stage
      <4>3. InStages(order[q], Append(StoredBy(d), NoEvent), inbox[d], out[q])
        BY <1>a, <3>1, <4>2, StagesForeign
      <4> QED BY <2>1, <3>5, <4>1, <4>3
    <3> QED BY <2>1, <3>2, <3>3, <3>4, <3>5
  <2> QED BY <2>3 DEF Stages
<1>8. ASSUME NEW c \in Consumers, ReloadMessage(c)
      PROVE  Stages'
  BY <1>3, <1>8 DEF ReloadMessage
<1>9. CASE UNCHANGED vars
  BY <1>3, <1>9 DEF vars
<1> QED BY <1>1, <1>2, <1>4, <1>5, <1>6, <1>7, <1>8, <1>9 DEF Next, ProducerStep, ConsumerStep

-----------------------------------------------------------------------------
(* Theorems *)

\* The inductive invariant.
Inv == TypeOK /\ AcceptedOnce /\ Genuine /\ Stages

\* The four parts together hold in every reachable state.
LEMMA InvHolds ==
  Spec => []Inv
<1>1. Init => Inv
  <2> SUFFICES ASSUME Init
               PROVE  Inv
    OBVIOUS
  <2>1. TypeOK
    BY EmptySeq DEF Init, TypeOK
  <2>2. AcceptedOnce
    BY DEF Init, AcceptedOnce
  <2>3. Genuine
    BY DEF Init, Genuine, ReceivedAreStored, Range
  <2>4. Stages
    BY DEF Init, Stages, InStages, Sorted, Before, StoredBy
  <2> QED BY <2>1, <2>2, <2>3, <2>4 DEF Inv
<1>2. Inv /\ [Next]_vars => Inv'
  BY TypeInductive, AcceptedOnceInductive, GenuineInductive, StagesInductive, MessagingAssumption
  DEF Inv
<1> QED BY <1>1, <1>2, PTL DEF Spec

\* Every variable keeps its type.
THEOREM TypeCorrect == Spec => []TypeOK
<1>1. Inv => TypeOK
  BY DEF Inv
<1> QED BY <1>1, InvHolds, PTL

\* The metric of received messages counts only messages that are in the table,
\* however the insert and the reload of Create fail.
THEOREM ReceivedStored == Spec => []ReceivedAreStored
<1>1. Inv => ReceivedAreStored
  BY DEF Inv, Genuine
<1> QED BY <1>1, InvHolds, PTL

\* A message that was only ever answered with an error is nowhere on its way, so
\* that sending it again does not store it twice.
THEOREM RefusedNotStored == Spec => []RefusedIsNotStored
<1>1. Inv => RefusedIsNotStored
  <2> SUFFICES ASSUME Inv, NEW e \in refused \ Accepted
               PROVE  /\ \A p \in Producers : e \notin Range(out[p])
                      /\ \A c \in Consumers : e \notin Range(inbox[c])
                      /\ \A i \in DOMAIN rows : rows[i].event # e
    BY DEF RefusedIsNotStored
  <2>1. \A p \in Producers : e \notin Range(out[p])
    BY DEF Inv, Genuine, Accepted
  <2>2. \A c \in Consumers : e \notin Range(inbox[c])
    BY DEF Inv, Genuine
  <2>3. \A i \in DOMAIN rows : rows[i].event # e
    BY DEF Inv, Genuine, Range
  <2> QED BY <2>1, <2>2, <2>3
<1> QED BY <1>1, InvHolds, PTL

\* Between any sender and any replica that stores, messages are lost but neither
\* swapped nor repeated, whatever breaks, gives up, restarts or fails.
THEOREM InOrder == Spec => []PipelineInOrder
<1>1. Inv => PipelineInOrder
  <2> SUFFICES ASSUME Inv, NEW p \in Producers, NEW c \in Consumers
               PROVE  Sorted(order[p], Path(p, c))
    BY DEF PipelineInOrder, Sorted
  <2> DEFINE o == order[p]
             s == StoredBy(c)
             w == inbox[c]
             u == out[p]
  <2>1. s \in Seq(Stage) /\ w \in Seq(Stage) /\ u \in Seq(Stage)
    BY StageTypes, MessagingAssumption DEF Inv
  <2>2. InStages(o, s, w, u)
    BY DEF Inv, Stages
  <2>3. Path(p, c) = (s \o w) \o u
    BY DEF Path
  <2> HIDE DEF o, s, w, u
  <2>4. s \o w \in Seq(Stage)
    BY <2>1, ConcatProperties
  <2>5. Sorted(o, s \o w) /\ Before(o, s \o w, u)
    BY <2>1, <2>2, SortedConcat DEF InStages
  <2>6. Sorted(o, (s \o w) \o u)
    BY <2>1, <2>2, <2>4, <2>5, SortedConcat DEF InStages
  <2> QED BY <2>3, <2>6 DEF o
<1> QED BY <1>1, InvHolds, PTL

-----------------------------------------------------------------------------
(* The refinement of Delivery *)

\* A step accepts a message, stores the next one of a queue, or does neither.
LEMMA Refines ==
  ASSUME Inv, [Next]_vars
  PROVE  [Channel!Next]_<<order, rows>>
<1>1. ASSUME NEW p \in Producers, NEW e \in Events, SendMessage(p, e)
      PROVE  Channel!Accept(p, e) \/ UNCHANGED <<order, rows>>
  <2>1. \A q \in Producers : e \notin Range(order[q])
    BY <1>1, Sent DEF Inv
  <2>2. CASE order' = [order EXCEPT ![p] = Append(@, e)] /\ rows' = rows
    BY <2>1, <2>2 DEF Channel!Accept, Channel!Range, Range
  <2> QED BY <1>1, <2>2 DEF SendMessage, consumer
<1>2. ASSUME NEW c \in Consumers, SaveMessage(c)
      PROVE  \/ \E p \in Producers : \E i \in DOMAIN order[p] : Channel!Store(c, p, i)
             \/ UNCHANGED <<order, rows>>
  <2> DEFINE e == NextMessage(c)
  <2>1. /\ order' = order /\ inbox[c] # <<>>
        /\ rows' = Append(rows, [event |-> e, by |-> c]) \/ rows' = rows
    BY <1>2 DEF SaveMessage, CanStore, history
  <2>2. 1 \in DOMAIN inbox[c] /\ e = inbox[c][1] /\ e \in Accepted
    <3>1. inbox[c] \in Seq(Events)
      BY DEF Inv, TypeOK
    <3>2. DOMAIN inbox[c] = 1..Len(inbox[c]) /\ Len(inbox[c]) \in Nat \ {0} /\ e = inbox[c][1]
      BY <2>1, <3>1, LenProperties, EmptySeq DEF NextMessage
    <3>3. e \in Range(inbox[c])
      BY <2>1, <3>1, RangeOfParts DEF NextMessage
    <3>4. 1 \in DOMAIN inbox[c]
      BY <3>2
    <3> QED BY <3>2, <3>3, <3>4 DEF Inv, Genuine
  <2>3. PICK p \in Producers : e \in Range(order[p])
    BY <2>2 DEF Accepted
  <2>4. PICK i \in DOMAIN order[p] : order[p][i] = e
    BY <2>3 DEF Range
  <2>5. ASSUME NEW row \in Range(rows), NEW j \in DOMAIN order[p], row.by = c, row.event = order[p][j]
        PROVE  j < i
    <3>1. PICK k \in DOMAIN rows : rows[k] = row
      BY DEF Range
    <3>2. k \in DOMAIN StoredBy(c) /\ StoredBy(c)[k] = order[p][j]
      BY <2>5, <3>1 DEF StoredBy
    <3>3. Earlier(order[p], StoredBy(c)[k], inbox[c][1])
      BY <2>2, <3>2 DEF Inv, Stages, InStages, Before
    <3> QED BY <2>2, <2>4, <3>2, <3>3 DEF Earlier
  <2>6. CASE rows' = Append(rows, [event |-> e, by |-> c])
    <3>1. \A row \in Channel!Range(rows), j \in DOMAIN order[p] :
            row.by = c /\ row.event = order[p][j] => j < i
      BY <2>5 DEF Channel!Range, Range
    <3>2. Channel!Store(c, p, i)
      BY <2>1, <2>4, <2>6, <3>1 DEF Channel!Store
    <3> QED BY <3>2
  <2> QED BY <2>1, <2>6
<1>3. CASE \/ \E p \in Producers :
                StartProducer(p) \/ StopProducer(p) \/ Flush(p) \/ BreakProducer(p)
           \/ \E c \in Consumers :
                \/ StartConsumer(c) \/ Subscribe(c) \/ CloseConsumer(c) \/ StopConsumer(c)
                \/ ReloadMessage(c) \/ BreakConsumer(c)
           \/ \E r \in Replicas : Reconnect(r) \/ GiveUp(r)
           \/ UNCHANGED vars
  BY <1>3 DEF StartProducer, StopProducer, Flush, BreakProducer, StartConsumer, Subscribe,
              CloseConsumer, StopConsumer, ReloadMessage, BreakConsumer, Reconnect, GiveUp,
              consumer, history, vars
<1> QED BY <1>1, <1>2, <1>3 DEF Next, ProducerStep, ConsumerStep, Channel!Next

\* Messaging is a channel from each sender to each replica that loses messages
\* but neither reorders nor repeats them.
THEOREM Delivers == Spec => DeliversInOrder
<1>1. Init => Channel!Init
  BY DEF Init, Channel!Init
<1>2. Inv /\ [Next]_vars => [Channel!Next]_<<order, rows>>
  BY Refines
<1> QED BY <1>1, <1>2, InvHolds, PTL DEF Spec, DeliversInOrder, Channel!Spec, Channel!vars

=============================================================================
