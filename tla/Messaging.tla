----------------------------- MODULE Messaging -----------------------------
(***************************************************************************)
(* Messages from the student service to the project service over NATS:     *)
(* POST /messages and messaging.Producer in each replica of the student    *)
(* service, messaging.Consumer in each replica of the project service, and *)
(* the rows that message.Repository.Create adds to table messages.         *)
(*                                                                         *)
(* An event stands for the pair (email, message).  Each is accepted at     *)
(* most once, so that copies of it can be recognised; a client may send    *)
(* again what was refused.                                                 *)
(*                                                                         *)
(* The NATS connection is modelled from how the services use it: connect   *)
(* with default options, publish, a plain subscription.  Publishing only   *)
(* appends to the connection's buffer; the server passes a message to the  *)
(* connections subscribed at that moment and keeps nothing; a connection   *)
(* that breaks tries to come back for a while and then closes for good.    *)
(*                                                                         *)
(* A definition marked "mutant" is a plausible bug of the definition that  *)
(* follows it.  Nothing refers to it; PROJECT.json says which property     *)
(* catches it.                                                             *)
(***************************************************************************)
EXTENDS Naturals, Sequences, Functions

CONSTANTS
  Producers,   \* replicas of the student service
  Consumers,   \* replicas of the project service
  Events, NoEvent,
  MaxPending,  \* bound: messages that fit the buffer of a broken connection
  Faults       \* what may go wrong

ASSUME MessagingAssumption ==
  /\ NoEvent \notin Events
  /\ MaxPending \in Nat
  /\ Faults \subseteq {"network", "database", "stop"}

VARIABLES
  link,      \* state of the NATS connection of each replica
  out,       \* out[p]: published by p, not yet at the server
  subbed,    \* consumers whose Start has subscribed
  inbox,     \* inbox[c]: waiting for the callback of c
  work,      \* work[c]: stored by the callback of c, which is reloading it
  rows,      \* table messages: what was stored, and by which replica
  received,  \* what RecordMessageReceived has counted
  failed,    \* history: what a callback has logged as not saved
  order,     \* order[p]: what p has answered 200 to
  refused    \* events answered with an error so far

vars == <<link, out, subbed, inbox, work, rows, received, failed, order, refused>>
consumer == <<subbed, inbox, work, rows, received, failed>>
history == <<order, refused>>

Replicas == Producers \cup Consumers
Row == [event : Events, by : Consumers]
Accepted == UNION {Range(order[p]) : p \in Producers}

Init ==
  /\ link = [r \in Replicas |-> "down"]
  /\ out = [p \in Producers |-> <<>>]
  /\ subbed = {}
  /\ inbox = [c \in Consumers |-> <<>>]
  /\ work = [c \in Consumers |-> NoEvent]
  /\ rows = <<>> /\ received = {} /\ failed = {}
  /\ order = [p \in Producers |-> <<>>] /\ refused = {}

-----------------------------------------------------------------------------
(* Student service *)

\* app.New: without a connection the producer is nil and the route of messages
\* is not registered, for as long as the process lives.
StartProducer(p) ==
  /\ link[p] = "down"
  /\ \/ link' = [link EXCEPT ![p] = "connected"]
     \/ "network" \in Faults /\ link' = [link EXCEPT ![p] = "absent"]
  /\ UNCHANGED <<out, consumer, history>>

\* PublishMsg: nil as soon as the message is in the buffer.
CanPublish(p) ==
  \/ link[p] = "connected"
  \/ link[p] = "reconnecting" /\ Len(out[p]) < MaxPending

SendMessageBuffered(p, e) ==                                             \* mutant
  /\ link[p] # "down"
  /\ e \notin Accepted
  /\ out' = [out EXCEPT ![p] = Append(@, e)]
  /\ IF CanPublish(p)
       THEN order' = [order EXCEPT ![p] = Append(@, e)] /\ refused' = refused
       ELSE refused' = refused \cup {e} /\ order' = order
  /\ UNCHANGED <<link, consumer>>
\* POST /messages, past AuthMiddleware: 200 or an error (404 without the route,
\* 500 when PublishMsg fails).
SendMessage(p, e) ==
  /\ link[p] # "down"
  /\ e \notin Accepted
  /\ IF CanPublish(p)
       THEN /\ out' = [out EXCEPT ![p] = Append(@, e)]
            /\ order' = [order EXCEPT ![p] = Append(@, e)]
            /\ refused' = refused
       ELSE /\ refused' = refused \cup {e}
            /\ UNCHANGED <<out, order>>
  /\ UNCHANGED <<link, consumer>>

\* The process ends; log.Fatal in main ends it without draining the connection.
StopProducer(p) ==
  /\ "stop" \in Faults /\ link[p] # "down"
  /\ link' = [link EXCEPT ![p] = "down"]
  /\ out' = [out EXCEPT ![p] = <<>>]
  /\ UNCHANGED <<consumer, history>>

-----------------------------------------------------------------------------
(* NATS *)

Listening == {c \in subbed : link[c] = "connected"}

\* The server takes the next message of a connection and passes it to every
\* subscription.
Flush(p) ==
  /\ link[p] = "connected" /\ out[p] # <<>>
  /\ out' = [out EXCEPT ![p] = Tail(@)]
  /\ inbox' = [c \in Consumers |->
                 IF c \in Listening THEN Append(inbox[c], Head(out[p])) ELSE inbox[c]]
  /\ UNCHANGED <<link, subbed, work, rows, received, failed, history>>

\* A connection breaks.  What was already in the socket is lost: the oldest part
\* of a producer's buffer, the latest part of a consumer's.
BreakProducer(p) ==
  /\ "network" \in Faults /\ link[p] = "connected"
  /\ link' = [link EXCEPT ![p] = "reconnecting"]
  /\ \E k \in 1..Len(out[p]) + 1 : out' = [out EXCEPT ![p] = SubSeq(@, k, Len(@))]
  /\ UNCHANGED <<consumer, history>>

BreakConsumer(c) ==
  /\ "network" \in Faults /\ link[c] = "connected"
  /\ link' = [link EXCEPT ![c] = "reconnecting"]
  /\ \E k \in 0..Len(inbox[c]) : inbox' = [inbox EXCEPT ![c] = SubSeq(@, 1, k)]
  /\ UNCHANGED <<out, subbed, work, rows, received, failed, history>>

\* Back within the reconnect attempts, subscriptions included, or closed for good
\* after them; closing drops the buffer of a producer and the queue of a consumer.
Reconnect(r) ==
  /\ link[r] = "reconnecting"
  /\ link' = [link EXCEPT ![r] = "connected"]
  /\ UNCHANGED <<out, consumer, history>>

GiveUp(r) ==
  /\ link[r] = "reconnecting"
  /\ link' = [link EXCEPT ![r] = "closed"]
  /\ out' = [p \in Producers |-> IF p = r THEN <<>> ELSE out[p]]
  /\ inbox' = [c \in Consumers |-> IF c = r THEN <<>> ELSE inbox[c]]
  /\ UNCHANGED <<subbed, work, rows, received, failed, history>>

-----------------------------------------------------------------------------
(* Project service *)

\* NewConsumer connects; when that fails the process ends at once.
StartConsumer(c) ==
  /\ link[c] = "down"
  /\ link' = [link EXCEPT ![c] = "connected"]
  /\ UNCHANGED <<out, consumer, history>>

\* Start, in its own goroutine, subscribes; on a closed connection it fails.
Subscribe(c) ==
  /\ link[c] \in {"connected", "reconnecting"} /\ c \notin subbed
  /\ subbed' = subbed \cup {c}
  /\ UNCHANGED <<link, out, inbox, work, rows, received, failed, history>>

\* The subscription calls back with one message at a time, in order.
Busy(c) == work[c] # NoEvent
CanStore(c) == inbox[c] # <<>> /\ ~Busy(c)

NextMessageFromEnd(c) == inbox[c][Len(inbox[c])]                         \* mutant
NextMessage(c) == Head(inbox[c])

LogNothing(c, e) == failed' = failed                                     \* mutant
\* The callback logs the error and goes no further.
LogFailure(c, e) == failed' = failed \cup {[event |-> e, by |-> c]}

SaveMessageGoesOn(c) ==                                                  \* mutant
  LET e == NextMessage(c) IN
  /\ CanStore(c)
  /\ inbox' = [inbox EXCEPT ![c] = Tail(@)]
  /\ work' = [work EXCEPT ![c] = e]
  /\ \/ rows' = Append(rows, [event |-> e, by |-> c])
     \/ "database" \in Faults /\ rows' = rows
  /\ UNCHANGED <<link, out, subbed, received, failed, history>>
SaveMessageRetries(c) ==                                                 \* mutant
  LET e == NextMessage(c) IN
  /\ CanStore(c)
  /\ rows' = Append(rows, [event |-> e, by |-> c])
  /\ \/ /\ inbox' = [inbox EXCEPT ![c] = Tail(@)]
        /\ work' = [work EXCEPT ![c] = e]
     \/ "database" \in Faults /\ UNCHANGED <<inbox, work>>
  /\ UNCHANGED <<link, out, subbed, received, failed, history>>
\* The callback up to the insert of Create; an error of the insert, executed or
\* not, is logged and ends the callback.
SaveMessage(c) ==
  LET e == NextMessage(c)
      insert == rows' = Append(rows, [event |-> e, by |-> c]) IN
  /\ CanStore(c)
  /\ inbox' = [inbox EXCEPT ![c] = Tail(@)]
  /\ \/ insert /\ work' = [work EXCEPT ![c] = e] /\ failed' = failed
     \/ /\ "database" \in Faults
        /\ insert \/ rows' = rows
        /\ LogFailure(c, e) /\ work' = work
  /\ UNCHANGED <<link, out, subbed, received, history>>

ReloadMessageForgets(c) ==                                               \* mutant
  /\ Busy(c)
  /\ work' = [work EXCEPT ![c] = NoEvent]
  /\ \/ received' = received \cup {[event |-> work'[c], by |-> c]} /\ failed' = failed
     \/ "database" \in Faults /\ received' = received /\ LogFailure(c, work[c])
  /\ UNCHANGED <<link, out, subbed, inbox, rows, history>>
\* The reload of Create, and the end of the callback; when the reload fails,
\* the row stays and is logged as not saved.
ReloadMessage(c) ==
  /\ Busy(c)
  /\ work' = [work EXCEPT ![c] = NoEvent]
  /\ \/ received' = received \cup {[event |-> work[c], by |-> c]} /\ failed' = failed
     \/ "database" \in Faults /\ received' = received /\ LogFailure(c, work[c])
  /\ UNCHANGED <<link, out, subbed, inbox, rows, history>>

\* Close, when the process is asked to end: what waits for the callback is
\* dropped, a running callback goes on.
CloseConsumer(c) ==
  /\ "stop" \in Faults /\ link[c] \in {"connected", "reconnecting"}
  /\ link' = [link EXCEPT ![c] = "closed"]
  /\ subbed' = subbed \ {c}
  /\ inbox' = [inbox EXCEPT ![c] = <<>>]
  /\ UNCHANGED <<out, work, rows, received, failed, history>>

\* The process ends, after Close or by a crash.
StopConsumer(c) ==
  /\ "stop" \in Faults /\ link[c] # "down"
  /\ link' = [link EXCEPT ![c] = "down"]
  /\ subbed' = subbed \ {c}
  /\ inbox' = [inbox EXCEPT ![c] = <<>>]
  /\ work' = [work EXCEPT ![c] = NoEvent]
  /\ UNCHANGED <<out, rows, received, failed, history>>

-----------------------------------------------------------------------------
ProducerStep(p) ==
  \/ StartProducer(p) \/ StopProducer(p) \/ Flush(p) \/ BreakProducer(p)
  \/ \E e \in Events : SendMessage(p, e)

ConsumerStep(c) ==
  \/ StartConsumer(c) \/ Subscribe(c) \/ CloseConsumer(c) \/ StopConsumer(c)
  \/ SaveMessage(c) \/ ReloadMessage(c) \/ BreakConsumer(c)

Next == \/ \E p \in Producers : ProducerStep(p)
        \/ \E c \in Consumers : ConsumerStep(c)
        \/ \E r \in Replicas : Reconnect(r) \/ GiveUp(r)

Spec == Init /\ [][Next]_vars

\* The client library's flusher, the goroutine of Start and the goroutine that
\* runs the callbacks are never starved.
FairSpec ==
  /\ Spec
  /\ \A p \in Producers : WF_vars(Flush(p))
  /\ \A c \in Consumers : /\ WF_vars(Subscribe(c))
                          /\ WF_vars(SaveMessage(c)) /\ WF_vars(ReloadMessage(c))

-----------------------------------------------------------------------------
(* Properties *)

TypeOK ==
  /\ link \in [Replicas -> {"down", "absent", "connected", "reconnecting", "closed"}]
  /\ out \in [Producers -> Seq(Events)]
  /\ subbed \subseteq Consumers
  /\ inbox \in [Consumers -> Seq(Events)]
  /\ work \in [Consumers -> Events \cup {NoEvent}]
  /\ rows \in Seq(Row)
  /\ received \subseteq Row /\ failed \subseteq Row
  /\ order \in [Producers -> Seq(Events)]
  /\ refused \subseteq Events

\* What c has stored, with gaps for the rows of others; what waits in its queue; and
\* what p has on the way.
StoredBy(c) == [i \in DOMAIN rows |-> IF rows[i].by = c THEN rows[i].event ELSE NoEvent]
Path(p, c) == StoredBy(c) \o inbox[c] \o out[p]

\* e stands before f in s, wherever s has both.
Earlier(s, e, f) == \A i, j \in DOMAIN s : s[i] = e /\ s[j] = f => i < j

\* What one replica stored of one sender, what waits in its queue and what is
\* still on the way are, in this order, in the order the sender accepted them and
\* without repetition: breaks, restarts and slow callbacks lose messages but do
\* not swap or repeat them.
PipelineInOrder ==
  \A p \in Producers, c \in Consumers :
    \A i, j \in DOMAIN Path(p, c) : i < j => Earlier(order[p], Path(p, c)[i], Path(p, c)[j])

\* A message that was only ever answered with an error is not stored and will not
\* be, so the client may send it again.
RefusedIsNotStored ==
  \A e \in refused \ Accepted :
    /\ \A p \in Producers : e \notin Range(out[p])
    /\ \A c \in Consumers : e \notin Range(inbox[c])
    /\ \A i \in DOMAIN rows : rows[i].event # e

\* The metric of received messages counts only messages that are in the table.
ReceivedAreStored == received \subseteq Range(rows)

\* Messaging as a channel that loses but neither reorders nor repeats.
Channel == INSTANCE Delivery WITH stored <- rows
DeliversInOrder == Channel!Spec

\* Messages are not lost in silence: one that is accepted while a consumer is
\* subscribed is in the end stored by that consumer or logged by it as not saved,
\* unless the connection of either side breaks or its process ends, whatever
\* other messages and statements do.
AcceptedIsAccountedFor ==
  \A p \in Producers, c \in Consumers, e \in Events :
    (c \in Listening /\ e \in Range(out[p]))
      ~> \/ \E i \in DOMAIN rows : rows[i] = [event |-> e, by |-> c]
         \/ [event |-> e, by |-> c] \in failed
         \/ link[p] # "connected" \/ c \notin Listening

\* A message is stored once.
StoredOnce == \A i, j \in DOMAIN rows : rows[i].event = rows[j].event => i = j

=============================================================================
