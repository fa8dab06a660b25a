----------------------------- MODULE AdminPanel -----------------------------
(***************************************************************************)
(* The admin panel in one browser: tabs that share a cookie and            *)
(* localStorage, and requests whose answers come when the user has moved   *)
(* on.  A tab shows the login page exactly when it has no student          *)
(* (PublicRoute, ProtectedRoute); of the other two pages, "messages" is    *)
(* the one with state worth keeping.                                       *)
(*                                                                         *)
(* The browser and the student service are modelled from how the panel     *)
(* uses them: an answer to a login sets the cookie when it arrives, before *)
(* the code that awaits it goes on; a request carries the cookie of the    *)
(* moment it is sent; a message is stored under the student of the cookie, *)
(* a list is the one of the email in the query.  NATS, between accepting a *)
(* message and storing it, is the subject of Messaging and left out here.  *)
(*                                                                         *)
(* A definition marked "mutant" is a plausible bug of the definition that  *)
(* follows it.  Nothing refers to it; PROJECT.json says which property     *)
(* catches it.                                                             *)
(***************************************************************************)
EXTENDS Integers

CONSTANTS
  Tabs, Students,
  Slots,     \* bound: requests in flight
  MaxSent,   \* bound: messages ever sent
  None

ASSUME AdminPanelAssumption ==
  /\ MaxSent \in Nat
  /\ None \notin Students

VARIABLES
  tab,      \* the document in each tab
  storage,  \* the student in localStorage
  cookie,   \* the student of the access token in the cookie
  sent,     \* of each message: the student shown when it was sent, and under whom
            \* it is stored
  request,  \* the requests in flight
  used      \* history: the tabs that have shown a student or answered a login

vars == <<tab, storage, cookie, sent, request, used>>

Message == 1..MaxSent
Somebody == Students \cup {None}
Tab == [page : {"login", "students", "messages"}, student : Somebody, list : SUBSET Message]

\* What a request asks: kind and who, the credentials or the email, and message.
\* How far it is: to be sent by a timer, sent with a cookie, answered with rows,
\* arrived with the code after await still to run.  "heard" says whether the
\* component that awaits the answer is still there.
Request ==
  [tab : Tabs, kind : {"login", "fetch", "send"}, who : Students, message : {0} \cup Message,
   stage : {"timer", "sent", "answered", "arrived"}, cookie : Somebody,
   rows : SUBSET Message, heard : BOOLEAN]
Free == [stage |-> "free"]

LoggedOut == [page |-> "login", student |-> None, list |-> {}]

Init ==
  /\ tab = [t \in Tabs |-> LoggedOut]
  /\ storage = None /\ cookie = None /\ used = {}
  /\ sent = [m \in Message |-> [shown |-> None, stored |-> None]]
  /\ request = [r \in Slots |-> Free]

-----------------------------------------------------------------------------
Busy == {r \in Slots : request[r] # Free}
Ask(t, kind, who, message, stage) ==
  [tab |-> t, kind |-> kind, who |-> who, message |-> message, stage |-> stage,
   cookie |-> cookie, rows |-> {}, heard |-> TRUE]

\* The component that awaits the requests of these kinds goes away: their answers
\* change nothing any more.
Forgets(t, kinds) ==                                                     \* mutant
  request
Unmount(t, kinds) ==
  [r \in Slots |->
     IF r \in Busy /\ request[r].tab = t /\ request[r].kind \in kinds
       THEN IF request[r].stage = "sent" THEN [request[r] EXCEPT !.heard = FALSE] ELSE Free
       ELSE request[r]]

\* A tab opens the page of messages, which fetches them.
OpenMessages(t, s, r, requests) ==
  /\ tab' = [tab EXCEPT ![t] = [page |-> "messages", student |-> s, list |-> {}]]
  /\ request' = [requests EXCEPT ![r] = Ask(t, "fetch", s, 0, "sent")]
  /\ used' = used \cup {t}

-----------------------------------------------------------------------------
(* What the user does *)

\* Login's form, whose button is disabled while a login is in flight.
SubmitLogin(t, s, r) ==
  /\ tab[t].page = "login" /\ request[r] = Free
  /\ \A q \in Busy : ~(request[q].tab = t /\ request[q].kind = "login" /\ request[q].heard)
  /\ request' = [request EXCEPT ![r] = Ask(t, "login", s, 0, "sent")]
  /\ UNCHANGED <<tab, storage, cookie, sent, used>>

\* The form of Messages, whose button is disabled while a message of this
\* component is in flight.
SendMessage(t, m, r) ==
  /\ tab[t].page = "messages" /\ request[r] = Free
  /\ sent[m].shown = None /\ \A n \in 1..m - 1 : sent[n].shown # None
  /\ \A q \in Busy : ~(request[q].tab = t /\ request[q].kind = "send" /\ request[q].heard)
  /\ sent' = [sent EXCEPT ![m].shown = tab[t].student]
  /\ request' = [request EXCEPT ![r] = Ask(t, "send", tab[t].student, m, "sent")]
  /\ UNCHANGED <<tab, storage, cookie, used>>

\* The buttons that change the page.
GoToStudents(t) ==
  /\ tab[t].page = "messages"
  /\ tab' = [tab EXCEPT ![t] = [page |-> "students", student |-> @.student, list |-> {}]]
  /\ request' = Unmount(t, {"fetch", "send"})
  /\ UNCHANGED <<storage, cookie, sent, used>>

GoToMessages(t, r) ==
  /\ tab[t].page = "students" /\ request[r] = Free
  /\ OpenMessages(t, tab[t].student, r, request)
  /\ UNCHANGED <<storage, cookie, sent>>

LogoutKeepsStorage(t) ==                                                 \* mutant
  /\ tab[t].student # None
  /\ tab' = [tab EXCEPT ![t] = LoggedOut]
  /\ request' = Unmount(t, {"fetch", "send"})
  /\ UNCHANGED <<storage, cookie, sent, used>>
\* handleLogout of both pages.  Nothing is sent to the student service.
Logout(t) ==
  /\ tab[t].student # None
  /\ tab' = [tab EXCEPT ![t] = LoggedOut]
  /\ storage' = None
  /\ request' = Unmount(t, {"fetch", "send"})
  /\ UNCHANGED <<cookie, sent, used>>

\* A new document: it takes the student from localStorage, and then shows its
\* messages, whatever page was open.
Reload(t) ==
  LET left == Unmount(t, {"login", "fetch", "send"}) IN
  /\ \/ storage = None /\ tab' = [tab EXCEPT ![t] = LoggedOut] /\ request' = left /\ used' = used
     \/ \E r \in Slots : storage # None /\ left[r] = Free /\ OpenMessages(t, storage, r, left)
  /\ UNCHANGED <<storage, cookie, sent>>

-----------------------------------------------------------------------------
(* What the student service does *)

Done(r) == request' = [request EXCEPT ![r] = Free]
Answered(r, rows) ==
  request' = [request EXCEPT ![r] = IF @.heard THEN [[@ EXCEPT !.stage = "answered"] EXCEPT !.rows = rows]
                                               ELSE Free]

ServeLogin(r) ==
  /\ request[r].kind = "login"
  /\ Answered(r, {}) /\ UNCHANGED sent

RowsOf(s) == {m \in Message : sent[m].stored = s}
RowsOfCookie(q) == RowsOf(q.cookie)                                      \* mutant
RowsFor(q) == RowsOf(q.who)

ServeFetch(r) ==
  /\ request[r].kind = "fetch" /\ request[r].cookie # None
  /\ Answered(r, RowsFor(request[r])) /\ UNCHANGED sent

ServeSend(r) ==
  /\ request[r].kind = "send" /\ request[r].cookie # None
  /\ sent' = [sent EXCEPT ![request[r].message].stored = request[r].cookie]
  /\ Answered(r, {})

Serve(r) ==
  /\ request[r].stage = "sent"
  /\ ServeLogin(r) \/ ServeFetch(r) \/ ServeSend(r)
  /\ UNCHANGED <<tab, storage, cookie, used>>

\* A request fails before or after it was served: 401, 500, no connection.  The
\* page shows an error; what it had stays.
Fail(r) ==
  /\ request[r].stage \in {"sent", "answered"}
  /\ Done(r) /\ UNCHANGED <<tab, storage, cookie, sent, used>>

-----------------------------------------------------------------------------
(* Answers and timers in the browser *)

LoginAnswered(r) ==
  /\ request[r].stage = "answered" /\ request[r].kind = "login"
  /\ cookie' = request[r].who
  /\ request' = [request EXCEPT ![r].stage = "arrived"]
  /\ used' = used \cup {request[r].tab}
  /\ UNCHANGED <<tab, storage, sent>>

\* onSubmit after await: the slot of the login is free for the fetch.
FinishLogin(r) ==
  /\ request[r].stage = "arrived"
  /\ storage' = request[r].who
  /\ OpenMessages(request[r].tab, request[r].who, r, request)
  /\ UNCHANGED <<cookie, sent>>

FetchAnswered(r) ==
  /\ request[r].stage = "answered" /\ request[r].kind = "fetch"
  /\ tab' = [tab EXCEPT ![request[r].tab].list = request[r].rows]
  /\ Done(r) /\ UNCHANGED <<storage, cookie, sent, used>>

\* A second after a message was accepted its page fetches the list again.
SendAnswered(r) ==
  /\ request[r].stage = "answered" /\ request[r].kind = "send"
  /\ request' = [request EXCEPT ![r] = Ask(@.tab, "fetch", @.who, 0, "timer")]
  /\ UNCHANGED <<tab, storage, cookie, sent, used>>

Timer(r) ==
  /\ request[r].stage = "timer"
  /\ request' = [request EXCEPT ![r] = Ask(@.tab, @.kind, @.who, @.message, "sent")]
  /\ UNCHANGED <<tab, storage, cookie, sent, used>>

\* The access token and its cookie expire after 15 minutes.
ExpireCookie ==
  /\ cookie # None
  /\ cookie' = None /\ UNCHANGED <<tab, storage, sent, request, used>>

-----------------------------------------------------------------------------
Answer(r) == \/ LoginAnswered(r) \/ FinishLogin(r) \/ FetchAnswered(r)
             \/ SendAnswered(r) \/ Timer(r)

User(t) ==
  \/ GoToStudents(t) \/ Logout(t) \/ Reload(t)
  \/ \E r \in Slots : \/ GoToMessages(t, r)
                      \/ \E s \in Students : SubmitLogin(t, s, r)
                      \/ \E m \in Message : SendMessage(t, m, r)

Next ==
  \/ \E t \in Tabs : User(t)
  \/ \E r \in Slots : Serve(r) \/ Fail(r) \/ Answer(r)
  \/ ExpireCookie

Spec == Init /\ [][Next]_vars

-----------------------------------------------------------------------------
(* Properties *)

TypeOK ==
  /\ tab \in [Tabs -> Tab]
  /\ \A t \in Tabs : "login" = tab[t].page \/ None = tab[t].student => tab[t] = LoggedOut
  /\ storage \in Somebody /\ cookie \in Somebody /\ used \subseteq Tabs
  /\ sent \in [Message -> [shown : Somebody, stored : Somebody]]
  /\ request \in [Slots -> Request \cup {Free}]

\* "My Messages" are those of the student the page shows, whoever is logged in in
\* another tab and however late an answer comes: never a list that was asked for
\* somebody who used the tab before.
ListIsOwn ==
  \A t \in Tabs : \A m \in tab[t].list : sent[m].stored = tab[t].student

\* As long as one tab is used, a message is stored under the student the page
\* showed when it was sent ("Logged in as"), through reloads in the middle of a
\* login, late answers and an expired cookie.  With a second tab this is not so:
\* a login there changes the cookie of both.
OneTabSendsAsShown ==
  (\A t1, t2 \in used : t1 = t2)
    => \A m \in Message : sent[m].stored \in {None, sent[m].shown}
=============================================================================
