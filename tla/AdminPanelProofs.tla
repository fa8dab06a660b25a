-------------------------- MODULE AdminPanelProofs --------------------------
(***************************************************************************)
(* Theorems about AdminPanel for any tabs, students, messages and requests *)
(* in flight.                                                              *)
(***************************************************************************)
EXTENDS AdminPanel, TLAPS

-----------------------------------------------------------------------------
(* What holds between the tabs, the requests in flight and the messages *)

\* Only a request that waits for its answer may be unheard.  A heard login belongs to
\* a login page, any other heard request to the student whose messages are shown; an
\* answered list is the list of whom it was asked for; a message on its way has been
\* sent and is not stored.
Fits(q, tabs, msgs) ==
  /\ q.stage # "sent" => q.heard
  /\ q.stage = "arrived" => q.kind = "login"
  /\ q.stage = "timer" => q.kind = "fetch"
  /\ q.heard /\ q.kind = "login" => tabs[q.tab].page = "login"
  /\ q.heard /\ q.kind # "login" => tabs[q.tab].page = "messages" /\ tabs[q.tab].student = q.who
  /\ q.kind = "fetch" /\ q.stage = "answered" => \A m \in q.rows : msgs[m].stored = q.who
  /\ q.kind = "send" /\ q.stage = "sent" =>
       q.message \in Message /\ msgs[q.message].shown # None /\ msgs[q.message].stored = None

\* A tab awaits one login; a message is sent once.
Apart(q1, q2) ==
  /\ q1.kind = "login" /\ q2.kind = "login" /\ q1.heard /\ q2.heard => q1.tab # q2.tab
  /\ q1.kind = "send" /\ q2.kind = "send" /\ q1.stage = "sent" /\ q2.stage = "sent"
       => q1.message # q2.message

\* Every request fits the tab it was sent from, and no two are for the same thing.
AllFit(requests, tabs, msgs) ==
  \A r \in Slots : requests[r] # Free => Fits(requests[r], tabs, msgs)

AllApart(requests) ==
  \A r1, r2 \in Slots :
    r1 # r2 /\ requests[r1] # Free /\ requests[r2] # Free => Apart(requests[r1], requests[r2])

\* The requests in flight fit the tabs, nothing is stored that was not sent, and each
\* tab lists messages of its own student.
Orderly ==
  /\ AllFit(request, tab, sent) /\ AllApart(request)
  /\ \A m \in Message : sent[m].shown = None => sent[m].stored = None
  /\ ListIsOwn

\* With one tab in use, localStorage and the cookie follow it: the cookie is that of
\* the student shown, or about to be shown, or has expired; and so is the cookie that a
\* message on its way carries.
OneTab == \A t1, t2 \in used : t1 = t2

Settled ==
  /\ used = {} => storage = None /\ cookie = None
  /\ \A t \in used : storage = tab[t].student
  /\ \A t \in used : tab[t].student # None => cookie \in {None, tab[t].student}

\* What a request in flight adds to that: an arrived answer to a login sets the cookie
\* of its student, and a message carries the cookie of whom its tab shows.
Follows(q, tabs, c, msgs) ==
  /\ q.stage = "arrived" => q.tab \in tabs /\ c \in {None, q.who}
  /\ q.kind = "send" /\ q.stage = "sent" => q.cookie \in {None, msgs[q.message].shown}

AllFollow(requests, tabs, c, msgs) ==
  \A r \in Slots : requests[r] # Free => Follows(requests[r], tabs, c, msgs)

\* A stored message is stored for the student whose page it was sent from.
AsShown == \A m \in Message : sent[m].stored \in {None, sent[m].shown}

\* A tab that shows somebody is in use; and as long as it is the only one, what is
\* stored follows what it shows.
Alone ==
  /\ \A t \in Tabs : tab[t].student # None => t \in used
  /\ OneTab => Settled /\ AllFollow(request, used, cookie, sent) /\ AsShown

-----------------------------------------------------------------------------
(* What an action leaves in the slots of requests *)

\* A component that goes away takes its requests along, or leaves them unheard: u is
\* what it leaves of q.
Left(u, q, t, kinds) ==
  \/ u = Free
  \/ q \in Request /\ u = q /\ ~(q.tab = t /\ q.kind \in kinds)
  \/ /\ q \in Request /\ u \in Request
     /\ u.tab = q.tab /\ u.kind = q.kind /\ u.who = q.who /\ u.message = q.message
     /\ u.stage = "sent" /\ q.stage = "sent" /\ u.cookie = q.cookie
     /\ u.rows = q.rows /\ u.heard = FALSE

\* Unmount leaves a request in each slot, or frees it.
LEMMA Unmounted ==
  ASSUME TypeOK, NEW t, NEW kinds
  PROVE  /\ Unmount(t, kinds) \in [Slots -> Request \cup {Free}]
         /\ \A r \in Slots : Left(Unmount(t, kinds)[r], request[r], t, kinds)
<1> DEFINE u == Unmount(t, kinds)
<1>1. ASSUME NEW r \in Slots
      PROVE  Left(u[r], request[r], t, kinds)
  <2> DEFINE q == request[r]
             d == [q EXCEPT !.heard = FALSE]
  <2>1. q = Free \/ q \in Request
    BY DEF TypeOK
  <2>2. u[r] = IF r \in Busy /\ q.tab = t /\ q.kind \in kinds
                 THEN IF q.stage = "sent" THEN d ELSE Free
                 ELSE q
    BY DEF Unmount
  <2>3. q \in Request => /\ d \in Request /\ d.heard = FALSE
                         /\ d.tab = q.tab /\ d.kind = q.kind /\ d.who = q.who
                         /\ d.message = q.message /\ d.stage = q.stage
                         /\ d.cookie = q.cookie /\ d.rows = q.rows
    BY DEF Request
  <2>4. r \in Busy <=> q # Free
    BY DEF Busy
  <2> HIDE DEF u, q, d
  <2>5. Left(u[r], q, t, kinds)
    BY <2>1, <2>2, <2>3, <2>4 DEF Left
  <2> QED BY <2>5 DEF q
<1>2. u = [r \in Slots |-> u[r]]
  BY DEF Unmount
<1>3. \A r \in Slots : u[r] \in Request \cup {Free}
  <2> HIDE DEF u
  <2> QED BY <1>1 DEF Left, TypeOK
<1> QED BY <1>1, <1>2, <1>3

\* What Ask makes is a request.
LEMMA Asked ==
  ASSUME TypeOK
  PROVE  \A t \in Tabs, kind \in {"login", "fetch", "send"}, s \in Students,
            m \in {0} \cup Message, stage \in {"timer", "sent"} :
           Ask(t, kind, s, m, stage) \in Request
BY DEF Ask, Request, TypeOK

\* The fields of a request.
LEMMA Typed ==
  ASSUME NEW q \in Request
  PROVE  /\ q # Free
         /\ q.tab \in Tabs /\ q.kind \in {"login", "fetch", "send"} /\ q.who \in Students
         /\ q.message \in {0} \cup Message /\ q.stage \in {"timer", "sent", "answered", "arrived"}
         /\ q.cookie \in Somebody /\ q.rows \in SUBSET Message /\ q.heard \in BOOLEAN
<1>1. /\ q.tab \in Tabs /\ q.kind \in {"login", "fetch", "send"} /\ q.who \in Students
      /\ q.message \in {0} \cup Message /\ q.stage \in {"timer", "sent", "answered", "arrived"}
      /\ q.cookie \in Somebody /\ q.rows \in SUBSET Message /\ q.heard \in BOOLEAN
  BY DEF Request
<1>2. q # Free
  BY <1>1 DEF Free
<1> QED BY <1>1, <1>2

\* A list that is answered stays a request, and only its stage and rows change.
LEMMA WithRows ==
  ASSUME NEW q \in Request, NEW rows \in SUBSET Message
  PROVE  LET a == [[q EXCEPT !.stage = "answered"] EXCEPT !.rows = rows] IN
         /\ a \in Request /\ a.tab = q.tab /\ a.kind = q.kind /\ a.who = q.who
         /\ a.message = q.message /\ a.stage = "answered" /\ a.cookie = q.cookie
         /\ a.rows = rows /\ a.heard = q.heard
BY DEF Request

\* An answer that arrives changes only the stage of its request.
LEMMA Arrived ==
  ASSUME NEW q \in Request
  PROVE  LET a == [q EXCEPT !.stage = "arrived"] IN
         /\ a \in Request /\ a.tab = q.tab /\ a.kind = q.kind /\ a.who = q.who
         /\ a.message = q.message /\ a.stage = "arrived" /\ a.cookie = q.cookie
         /\ a.rows = q.rows /\ a.heard = q.heard
BY DEF Request

-----------------------------------------------------------------------------
(* Types *)

\* What a tab may become.
LEMMA TabTyped ==
  /\ LoggedOut \in Tab /\ LoggedOut.page = "login" /\ LoggedOut.student = None /\ LoggedOut.list = {}
  /\ \A page \in {"students", "messages"}, s \in Students :
       LET d == [page |-> page, student |-> s, list |-> {}] IN
       d \in Tab /\ d.page = page /\ d.student = s /\ d.list = {}
BY DEF LoggedOut, Tab, Somebody

\* Showing another list leaves the page and the student of a tab alone.
LEMMA TabListed ==
  ASSUME NEW d \in Tab, NEW list \in SUBSET Message
  PROVE  LET e == [d EXCEPT !.list = list] IN
         e \in Tab /\ e.page = d.page /\ e.student = d.student /\ e.list = list
BY DEF Tab

\* The page of messages of s opens in t, and its request takes slot r.
LEMMA Opened ==
  ASSUME TypeOK, AdminPanelAssumption,
         NEW t \in Tabs, NEW s \in Students, NEW r \in Slots,
         NEW requests \in [Slots -> Request \cup {Free}], OpenMessages(t, s, r, requests)
  PROVE  /\ tab' \in [Tabs -> Tab] /\ request' \in [Slots -> Request \cup {Free}]
         /\ tab'[t].page = "messages" /\ tab'[t].student = s /\ tab'[t].list = {}
         /\ \A u \in Tabs \ {t} : tab'[u] = tab[u]
         /\ request'[r] = Ask(t, "fetch", s, 0, "sent")
         /\ \A p \in Slots \ {r} : request'[p] = requests[p]
         /\ used' = used \cup {t}
         /\ \A u \in Tabs : "login" = tab'[u].page \/ None = tab'[u].student => tab'[u] = LoggedOut
<1>1. Ask(t, "fetch", s, 0, "sent") \in Request
  BY Asked
<1> DEFINE d == [page |-> "messages", student |-> s, list |-> {}]
<1>2. d \in Tab /\ d.page = "messages" /\ d.student = s /\ d.list = {}
  BY TabTyped
<1>3. s # None
  BY DEF AdminPanelAssumption
<1>4. tab' = [tab EXCEPT ![t] = d] /\ used' = used \cup {t}
      /\ request' = [requests EXCEPT ![r] = Ask(t, "fetch", s, 0, "sent")]
  BY DEF OpenMessages
<1> HIDE DEF d
<1> QED BY <1>1, <1>2, <1>3, <1>4 DEF TypeOK

\* Every action keeps the types; what an answer puts on a page has the right type
\* because the request still fits its tab.
LEMMA TypeInductive ==
  ASSUME TypeOK, Orderly, AdminPanelAssumption, [Next]_vars
  PROVE  TypeOK'
<1>a. /\ tab \in [Tabs -> Tab] /\ request \in [Slots -> Request \cup {Free}]
      /\ \A t \in Tabs : tab[t].page \in {"login", "students", "messages"} /\ tab[t].student \in Somebody
      /\ \A t \in Tabs : "login" = tab[t].page \/ None = tab[t].student => tab[t] = LoggedOut
      /\ storage \in Somebody /\ cookie \in Somebody /\ used \subseteq Tabs
      /\ sent \in [Message -> [shown : Somebody, stored : Somebody]]
      /\ None \notin Students /\ Somebody = Students \cup {None}
  BY DEF TypeOK, Tab, AdminPanelAssumption, Somebody
<1>b. \A r \in Slots : request[r].stage \in {"timer", "sent", "answered", "arrived"} => request[r] \in Request
  BY <1>a DEF Free
<1>c. \A t \in Tabs : tab[t].page # "login" => tab[t].student \in Students
  <2> SUFFICES ASSUME NEW t \in Tabs, tab[t].page # "login", tab[t].student = None
               PROVE  FALSE
    BY <1>a
  <2>1. tab[t] = LoggedOut
    BY <1>a
  <2> QED BY <2>1, TabTyped
<1>1. ASSUME NEW t \in Tabs, NEW s \in Students, NEW r \in Slots, SubmitLogin(t, s, r)
      PROVE  TypeOK'
  <2>1. Ask(t, "login", s, 0, "sent") \in Request
    BY Asked
  <2> QED BY <1>1, <2>1 DEF SubmitLogin, TypeOK
<1>2. ASSUME NEW t \in Tabs, NEW m \in Message, NEW r \in Slots, SendMessage(t, m, r)
      PROVE  TypeOK'
  <2>1. tab[t].student \in Students
    BY <1>2, <1>c DEF SendMessage
  <2>2. Ask(t, "send", tab[t].student, m, "sent") \in Request
    BY <2>1, Asked
  <2>3. sent' \in [Message -> [shown : Somebody, stored : Somebody]]
    <3> DEFINE x == [sent[m] EXCEPT !.shown = tab[t].student]
    <3>1. x \in [shown : Somebody, stored : Somebody]
      BY <1>a, <2>1
    <3>2. sent' = [sent EXCEPT ![m] = x]
      BY <1>2 DEF SendMessage
    <3> HIDE DEF x
    <3> QED BY <1>a, <3>1, <3>2
  <2> QED BY <1>2, <2>2, <2>3 DEF SendMessage, TypeOK
<1>3. ASSUME NEW t \in Tabs, GoToStudents(t)
      PROVE  TypeOK'
  <2> DEFINE d == [page |-> "students", student |-> tab[t].student, list |-> {}]
  <2>1. tab[t].student \in Students
    BY <1>3, <1>c DEF GoToStudents
  <2>2. d \in Tab /\ d.page = "students" /\ d.student \in Students
    BY <2>1, TabTyped
  <2>3. tab' = [tab EXCEPT ![t] = d] /\ request' = Unmount(t, {"fetch", "send"})
    BY <1>3 DEF GoToStudents
  <2> HIDE DEF d
  <2>4. \A u \in Tabs : "login" = tab'[u].page \/ None = tab'[u].student => tab'[u] = LoggedOut
    BY <1>a, <2>2, <2>3
  <2>5. request' \in [Slots -> Request \cup {Free}]
    BY <2>3, Unmounted
  <2>6. tab' \in [Tabs -> Tab]
    BY <1>a, <2>2, <2>3
  <2> QED BY <1>3, <1>a, <2>4, <2>5, <2>6 DEF GoToStudents, TypeOK
<1>4. ASSUME NEW t \in Tabs, NEW r \in Slots, GoToMessages(t, r)
      PROVE  TypeOK'
  <2>1. tab[t].student \in Students
    BY <1>4, <1>c DEF GoToMessages
  <2>2. OpenMessages(t, tab[t].student, r, request)
    BY <1>4 DEF GoToMessages
  <2> QED BY <1>4, <1>a, <2>1, <2>2, Opened DEF GoToMessages, TypeOK
<1>5. ASSUME NEW t \in Tabs, Logout(t)
      PROVE  TypeOK'
  <2>1. request' \in [Slots -> Request \cup {Free}]
    BY <1>5, Unmounted DEF Logout
  <2>2. \A u \in Tabs : tab'[u] = IF u = t THEN LoggedOut ELSE tab[u]
    BY <1>a, <1>5 DEF Logout
  <2> QED BY <1>5, <1>a, <2>1, <2>2, TabTyped DEF Logout, TypeOK
<1>6. ASSUME NEW t \in Tabs, Reload(t)
      PROVE  TypeOK'
  <2> DEFINE left == Unmount(t, {"login", "fetch", "send"})
  <2>1. left \in [Slots -> Request \cup {Free}]
    BY Unmounted
  <2> HIDE DEF left
  <2>2. CASE storage = None /\ tab' = [tab EXCEPT ![t] = LoggedOut] /\ request' = left /\ used' = used
    BY <1>6, <1>a, <2>1, <2>2, TabTyped DEF Reload, TypeOK
  <2>3. ASSUME NEW r \in Slots, storage # None, OpenMessages(t, storage, r, left)
        PROVE  TypeOK'
    <3>1. storage \in Students
      BY <1>a, <2>3
    <3> QED BY <1>6, <1>a, <2>1, <2>3, <3>1, Opened DEF Reload, TypeOK
  <2> QED BY <1>6, <2>2, <2>3 DEF Reload, left
<1>7. ASSUME NEW r \in Slots, Serve(r)
      PROVE  TypeOK'
  <2>1. request[r] \in Request
    BY <1>7, <1>b DEF Serve
  <2>2. ASSUME NEW rows \in SUBSET Message, Answered(r, rows)
        PROVE  request' \in [Slots -> Request \cup {Free}]
    BY <1>a, <2>1, <2>2, WithRows DEF Answered
  <2>3. RowsFor(request[r]) \in SUBSET Message
    BY DEF RowsFor, RowsOf
  <2>4. request' \in [Slots -> Request \cup {Free}]
    BY <1>7, <2>2, <2>3 DEF Serve, ServeLogin, ServeFetch, ServeSend
  <2>5. sent' \in [Message -> [shown : Somebody, stored : Somebody]]
    <3>1. request[r].cookie \in Somebody
      BY <2>1, Typed
    <3> QED BY <1>7, <1>a, <3>1 DEF Serve, ServeLogin, ServeFetch, ServeSend
  <2> QED BY <1>7, <1>a, <2>4, <2>5 DEF Serve, TypeOK
<1>8. ASSUME NEW r \in Slots, Fail(r)
      PROVE  TypeOK'
  BY <1>8 DEF Fail, Done, TypeOK
<1>9. ASSUME NEW r \in Slots, LoginAnswered(r)
      PROVE  TypeOK'
  <2>1. request[r] \in Request
    BY <1>9, <1>b DEF LoginAnswered
  <2>2. request' \in [Slots -> Request \cup {Free}]
    BY <1>9, <1>a, <2>1, Arrived DEF LoginAnswered
  <2> QED BY <1>9, <1>a, <2>1, <2>2, Typed DEF LoginAnswered, TypeOK
<1>10. ASSUME NEW r \in Slots, FinishLogin(r)
       PROVE  TypeOK'
  <2>1. request[r].tab \in Tabs /\ request[r].who \in Students
    BY <1>10, <1>b, Typed DEF FinishLogin
  <2> QED BY <1>10, <1>a, <2>1, Opened DEF FinishLogin, TypeOK
<1>11. ASSUME NEW r \in Slots, FetchAnswered(r)
       PROVE  TypeOK'
  <2>1. request[r].tab \in Tabs /\ request[r].rows \in SUBSET Message
    BY <1>11, <1>b, Typed DEF FetchAnswered
  <2> DEFINE t == request[r].tab
  <2> DEFINE d == [tab[t] EXCEPT !.list = request[r].rows]
  <2>2. tab[t].page = "messages" /\ tab[t].student = request[r].who
    BY <1>11, <1>b, Typed DEF FetchAnswered, Orderly, AllFit, Fits
  <2>3. d \in Tab /\ d.page = "messages" /\ d.student \in Students
    <3>1. tab[t] \in Tab /\ request[r].who \in Students
      BY <1>11, <1>a, <1>b, <2>1, Typed DEF FetchAnswered
    <3> QED BY <2>1, <2>2, <3>1, TabListed
  <2>4. tab' = [tab EXCEPT ![t] = d] /\ request' = [request EXCEPT ![r] = Free]
    BY <1>11, <1>a, <2>1 DEF FetchAnswered, Done
  <2> HIDE DEF d
  <2>5. \A u \in Tabs : tab'[u] \in Tab /\ ("login" = tab'[u].page \/ None = tab'[u].student => tab'[u] = LoggedOut)
    BY <1>a, <2>3, <2>4
  <2>6. tab' \in [Tabs -> Tab]
    BY <1>a, <2>4, <2>5
  <2> QED BY <1>11, <1>a, <2>4, <2>5, <2>6 DEF FetchAnswered, TypeOK
<1>12. ASSUME NEW r \in Slots, SendAnswered(r)
       PROVE  TypeOK'
  <2>1. Ask(request[r].tab, "fetch", request[r].who, 0, "timer") \in Request
    BY <1>12, <1>b, Typed, Asked DEF SendAnswered
  <2> QED BY <1>12, <1>a, <2>1 DEF SendAnswered, TypeOK
<1>13. ASSUME NEW r \in Slots, Timer(r)
       PROVE  TypeOK'
  <2> DEFINE q == request[r]
  <2>1. Ask(q.tab, q.kind, q.who, q.message, "sent") \in Request
    <3>1. q \in Request
      BY <1>13, <1>b DEF Timer
    <3>2. q.tab \in Tabs /\ q.kind \in {"login", "fetch", "send"} /\ q.who \in Students
          /\ q.message \in {0} \cup Message
      BY <3>1, Typed
    <3> HIDE DEF q
    <3> QED BY <3>2, Asked
  <2> QED BY <1>13, <1>a, <2>1 DEF Timer, TypeOK
<1>14. CASE ExpireCookie
  BY <1>14, <1>a DEF ExpireCookie, TypeOK
<1>15. CASE UNCHANGED vars
  BY <1>15 DEF vars, TypeOK
<1> QED BY <1>1, <1>2, <1>3, <1>4, <1>5, <1>6, <1>7, <1>8, <1>9, <1>10, <1>11, <1>12, <1>13, <1>14, <1>15
        DEF Next, User, Answer

-----------------------------------------------------------------------------
(* Requests stay in order *)

\* One slot is taken by x, or freed.
LEMMA SlotTaken ==
  ASSUME NEW rq \in [Slots -> Request \cup {Free}], NEW tabs, NEW msgs,
         AllFit(rq, tabs, msgs), AllApart(rq),
         NEW r \in Slots, NEW x,
         x # Free => Fits(x, tabs, msgs),
         \A p \in Slots \ {r} : x # Free /\ rq[p] # Free => Apart(x, rq[p]) /\ Apart(rq[p], x)
  PROVE  /\ AllFit([rq EXCEPT ![r] = x], tabs, msgs)
         /\ AllApart([rq EXCEPT ![r] = x])
<1> DEFINE rx == [rq EXCEPT ![r] = x]
<1>1. \A p \in Slots : rx[p] = IF p = r THEN x ELSE rq[p]
  OBVIOUS
<1> HIDE DEF rx
<1>2. AllFit(rx, tabs, msgs)
  BY <1>1 DEF AllFit
<1>3. AllApart(rx)
  BY <1>1 DEF AllApart
<1> QED BY <1>2, <1>3 DEF rx

\* Requests still fit when no tab turns away from one that is heard, and stored
\* messages stay where they are.
LEMMA StillFit ==
  ASSUME AdminPanelAssumption, NEW rq \in [Slots -> Request \cup {Free}],
         NEW tabs, NEW msgs, NEW tabs2, NEW msgs2, AllFit(rq, tabs, msgs),
         \A r \in Slots : rq[r] # Free /\ rq[r].heard =>
           tabs2[rq[r].tab].page = tabs[rq[r].tab].page /\ tabs2[rq[r].tab].student = tabs[rq[r].tab].student,
         \A m \in Message : msgs[m].stored # None => msgs2[m].stored = msgs[m].stored,
         \A r \in Slots : rq[r] # Free /\ rq[r].kind = "send" /\ rq[r].stage = "sent" =>
           msgs2[rq[r].message] = msgs[rq[r].message]
  PROVE  AllFit(rq, tabs2, msgs2)
<1> SUFFICES ASSUME NEW r \in Slots, rq[r] # Free
             PROVE  Fits(rq[r], tabs2, msgs2)
  BY DEF AllFit
<1> DEFINE q == rq[r]
<1>1. Fits(q, tabs, msgs)
  BY DEF AllFit
<1>2. /\ q.who # None /\ q.rows \subseteq Message
      /\ q.heard => tabs2[q.tab].page = tabs[q.tab].page /\ tabs2[q.tab].student = tabs[q.tab].student
      /\ q.kind = "send" /\ q.stage = "sent" => msgs2[q.message] = msgs[q.message]
  <2>1. q \in Request
    OBVIOUS
  <2>2. q.who \in Students /\ q.rows \in SUBSET Message
    BY <2>1, Typed
  <2> QED BY <2>2 DEF AdminPanelAssumption
<1> HIDE DEF q
<1>3. Fits(q, tabs2, msgs2)
  BY <1>1, <1>2 DEF Fits
<1> QED BY <1>3 DEF q

\* What a component that goes away leaves is in order, and none of it heard.
LEMMA UnmountOrderly ==
  ASSUME TypeOK, AllFit(request, tab, sent), AllApart(request), NEW t, NEW kinds
  PROVE  /\ AllFit(Unmount(t, kinds), tab, sent)
         /\ AllApart(Unmount(t, kinds))
         /\ \A r \in Slots :
              Unmount(t, kinds)[r] # Free /\ Unmount(t, kinds)[r].heard
                => /\ Unmount(t, kinds)[r] = request[r]
                   /\ ~(request[r].tab = t /\ request[r].kind \in kinds)
<1> DEFINE u == Unmount(t, kinds)
<1>1. \A r \in Slots : Left(u[r], request[r], t, kinds)
  BY Unmounted
<1> HIDE DEF u
<1>2. \A r \in Slots : request[r] \in Request => request[r] # Free
  BY Typed
<1>3. AllFit(u, tab, sent)
  <2> SUFFICES ASSUME NEW r \in Slots, u[r] # Free
               PROVE  Fits(u[r], tab, sent)
    BY DEF AllFit
  <2>1. request[r] \in Request /\ request[r] # Free
    BY <1>1, <1>2 DEF Left
  <2>2. Fits(request[r], tab, sent)
    BY <2>1 DEF AllFit
  <2>3. CASE u[r] = request[r]
    BY <2>2, <2>3
  <2>4. CASE u[r] # request[r]
    <3> DEFINE q == request[r]
               v == u[r]
    <3>1. /\ v.kind = q.kind /\ v.message = q.message
          /\ v.stage = "sent" /\ q.stage = "sent" /\ v.heard = FALSE
      BY <1>1, <2>4 DEF Left
    <3>2. Fits(q, tab, sent)
      BY <2>2
    <3> HIDE DEF q, v
    <3>3. Fits(v, tab, sent)
      BY <3>1, <3>2 DEF Fits
    <3> QED BY <3>3 DEF v
  <2> QED BY <2>3, <2>4
<1>4. AllApart(u)
  BY <1>1, <1>2 DEF AllApart, Apart, Left
<1>5. \A r \in Slots : u[r] # Free /\ u[r].heard
                         => u[r] = request[r] /\ ~(request[r].tab = t /\ request[r].kind \in kinds)
  BY <1>1 DEF Left
<1> QED BY <1>3, <1>4, <1>5 DEF u

\* A new request carries the present cookie and nothing else that it did not ask for.
LEMMA AskFields ==
  \A t, kind, s, m, stage :
    LET q == Ask(t, kind, s, m, stage) IN
    /\ q.tab = t /\ q.kind = kind /\ q.who = s /\ q.message = m /\ q.stage = stage
    /\ q.cookie = cookie /\ q.rows = {} /\ q.heard = TRUE
BY DEF Ask

\* Lists stay those of their students when a tab empties its list, or keeps it.
LEMMA ListsKept ==
  ASSUME ListIsOwn,
         \A t \in Tabs : tab'[t].list = {} \/ (tab'[t].list = tab[t].list /\ tab'[t].student = tab[t].student),
         \A t \in Tabs : \A m \in tab[t].list : sent'[m].stored = sent[m].stored
  PROVE  ListIsOwn'
BY DEF ListIsOwn

\* Every action keeps the requests in flight in order: what goes away takes its requests
\* along or is not told of their answers.
LEMMA OrderlyInductive ==
  ASSUME TypeOK, TypeOK', Orderly, AdminPanelAssumption, [Next]_vars
  PROVE  Orderly'
<1>a. /\ tab \in [Tabs -> Tab] /\ request \in [Slots -> Request \cup {Free}]
      /\ sent \in [Message -> [shown : Somebody, stored : Somebody]]
      /\ None \notin Students
  BY DEF TypeOK, AdminPanelAssumption
<1>b. \A r \in Slots : request[r].stage \in {"timer", "sent", "answered", "arrived"}
                         => request[r] \in Request /\ request[r] # Free
  BY <1>a, Typed DEF Free
<1>c. /\ AllFit(request, tab, sent) /\ AllApart(request) /\ ListIsOwn
      /\ \A m \in Message : sent[m].shown = None => sent[m].stored = None
  BY DEF Orderly
<1>d. \A r \in Slots : request[r] # Free => Fits(request[r], tab, sent)
  BY <1>c DEF AllFit
<1>e. \A r1, r2 \in Slots :
        r1 # r2 /\ request[r1] # Free /\ request[r2] # Free => Apart(request[r1], request[r2])
  BY <1>c DEF AllApart
<1>f. \A t \in Tabs : tab[t].student = None => tab[t].page = "login"
  <2> SUFFICES ASSUME NEW t \in Tabs, tab[t].student = None
               PROVE  tab[t].page = "login"
    OBVIOUS
  <2>1. tab[t] = LoggedOut
    BY DEF TypeOK
  <2> QED BY <2>1, TabTyped
<1>1. ASSUME NEW t \in Tabs, NEW s \in Students, NEW r \in Slots, SubmitLogin(t, s, r)
      PROVE  Orderly'
  <2> DEFINE x == Ask(t, "login", s, 0, "sent")
  <2>1. /\ tab[t].page = "login" /\ request' = [request EXCEPT ![r] = x]
        /\ UNCHANGED <<tab, sent>>
        /\ \A q \in Busy : ~(request[q].tab = t /\ request[q].kind = "login" /\ request[q].heard)
    BY <1>1 DEF SubmitLogin
  <2>2. x.tab = t /\ x.kind = "login" /\ x.stage = "sent" /\ x.heard
    BY AskFields
  <2> HIDE DEF x
  <2>3. Fits(x, tab, sent)
    BY <2>1, <2>2 DEF Fits
  <2>4. \A p \in Slots \ {r} : request[p] # Free => Apart(x, request[p]) /\ Apart(request[p], x)
    BY <2>1, <2>2 DEF Apart, Busy
  <2>5. AllFit(request', tab, sent) /\ AllApart(request')
    BY <1>a, <1>c, <2>1, <2>3, <2>4, SlotTaken
  <2> QED BY <1>c, <2>1, <2>5 DEF Orderly, ListIsOwn
<1>2. ASSUME NEW t \in Tabs, NEW m \in Message, NEW r \in Slots, SendMessage(t, m, r)
      PROVE  Orderly'
  <2> DEFINE s == tab[t].student
             x == Ask(t, "send", s, m, "sent")
  <2>1. /\ tab[t].page = "messages" /\ request' = [request EXCEPT ![r] = x]
        /\ sent[m].shown = None /\ sent' = [sent EXCEPT ![m].shown = s] /\ tab' = tab
    BY <1>2 DEF SendMessage
  <2>2. x.tab = t /\ x.kind = "send" /\ x.stage = "sent" /\ x.heard /\ x.message = m /\ x.who = s
    BY AskFields
  <2>3. s # None /\ sent[m].stored = None
    BY <1>c, <1>f, <2>1
  <2>4. /\ sent'[m].shown = s
        /\ \A n \in Message : sent'[n].stored = sent[n].stored
        /\ \A n \in Message \ {m} : sent'[n] = sent[n]
    BY <1>a, <2>1
  <2> HIDE DEF x, s
  <2>5. \A p \in Slots : request[p] # Free /\ request[p].kind = "send" /\ request[p].stage = "sent"
                           => request[p].message \in Message \ {m}
    BY <1>d, <2>1 DEF Fits
  <2>6. AllFit(request, tab, sent')
    BY <1>a, <1>c, <2>4, <2>5, StillFit
  <2>7. Fits(x, tab, sent')
    BY <2>1, <2>2, <2>3, <2>4 DEF Fits, s
  <2>8. \A p \in Slots \ {r} : request[p] # Free => Apart(x, request[p]) /\ Apart(request[p], x)
    BY <2>2, <2>5 DEF Apart
  <2>9. AllFit(request', tab, sent') /\ AllApart(request')
    BY <1>a, <1>c, <2>1, <2>6, <2>7, <2>8, SlotTaken
  <2>10. ListIsOwn'
    BY <1>a, <1>c, <2>1, <2>4 DEF ListIsOwn, Tab
  <2> QED BY <1>c, <2>1, <2>3, <2>4, <2>9, <2>10 DEF Orderly
\* A tab changes its page, and no request that is heard belongs to it any more.
<1>u. ASSUME NEW t \in Tabs, NEW rq \in [Slots -> Request \cup {Free}],
             AllFit(rq, tab, sent), AllApart(rq),
             \A r \in Slots : rq[r] # Free /\ rq[r].heard => rq[r].tab # t,
             \A v \in Tabs \ {t} : tab'[v] = tab[v],
             tab'[t].list = {}, sent' = sent
      PROVE  /\ AllFit(rq, tab', sent')
             /\ ListIsOwn'
             /\ \A m \in Message : sent'[m].shown = None => sent'[m].stored = None
             /\ request' = rq => Orderly'
             /\ \A r \in Slots :
                  tab'[t].page = "messages" /\ request' = [rq EXCEPT ![r] = Ask(t, "fetch", tab'[t].student, 0, "sent")]
                    => Orderly'
  <2>1. \A r \in Slots : rq[r] # Free => rq[r].tab \in Tabs
    BY Typed
  <2>2. AllFit(rq, tab', sent')
    <3>1. \A r \in Slots : rq[r] # Free /\ rq[r].heard =>
            tab'[rq[r].tab].page = tab[rq[r].tab].page /\ tab'[rq[r].tab].student = tab[rq[r].tab].student
      BY <1>u, <2>1
    <3>2. AllFit(rq, tab, sent) /\ sent' = sent
      BY <1>u
    <3> QED BY <3>1, <3>2, StillFit
  <2>3. ListIsOwn'
    <3>1. \A v \in Tabs : tab'[v].list = {} \/ (tab'[v].list = tab[v].list /\ tab'[v].student = tab[v].student)
      BY <1>u
    <3>2. ListIsOwn /\ sent' = sent
      BY <1>c, <1>u
    <3> QED BY <3>1, <3>2, ListsKept
  <2>4. \A m \in Message : sent'[m].shown = None => sent'[m].stored = None
    BY <1>c, <1>u
  <2>5. request' = rq => Orderly'
    BY <1>u, <2>2, <2>3, <2>4 DEF Orderly
  <2>6. ASSUME NEW r \in Slots, tab'[t].page = "messages",
               request' = [rq EXCEPT ![r] = Ask(t, "fetch", tab'[t].student, 0, "sent")]
        PROVE  Orderly'
    <3> DEFINE x == Ask(t, "fetch", tab'[t].student, 0, "sent")
    <3>1. x.tab = t /\ x.kind = "fetch" /\ x.stage = "sent" /\ x.heard /\ x.who = tab'[t].student
      BY AskFields
    <3> HIDE DEF x
    <3>2. Fits(x, tab', sent')
      BY <2>6, <3>1 DEF Fits
    <3>3. \A p \in Slots \ {r} : rq[p] # Free => Apart(x, rq[p]) /\ Apart(rq[p], x)
      BY <3>1 DEF Apart
    <3>4. AllFit(request', tab', sent') /\ AllApart(request')
      <4>1. request' = [rq EXCEPT ![r] = x]
        BY <2>6 DEF x
      <4> QED BY <1>u, <2>2, <3>2, <3>3, <4>1, SlotTaken
    <3> QED BY <2>3, <2>4, <3>4 DEF Orderly
  <2> QED BY <2>2, <2>3, <2>4, <2>5, <2>6
<1>3. ASSUME NEW t \in Tabs, GoToStudents(t)
      PROVE  Orderly'
  <2> DEFINE d == [page |-> "students", student |-> tab[t].student, list |-> {}]
             u == Unmount(t, {"fetch", "send"})
  <2>1. /\ tab[t].page = "messages" /\ tab' = [tab EXCEPT ![t] = d] /\ request' = u /\ sent' = sent
    BY <1>3 DEF GoToStudents
  <2>2. d.list = {}
    OBVIOUS
  <2> HIDE DEF d, u
  <2>3. /\ \A v \in Tabs \ {t} : tab'[v] = tab[v]
        /\ tab'[t].list = {}
    BY <1>a, <2>1, <2>2
  <2>4. /\ u \in [Slots -> Request \cup {Free}]
        /\ AllFit(u, tab, sent) /\ AllApart(u)
        /\ \A r \in Slots : u[r] # Free /\ u[r].heard =>
             u[r] = request[r] /\ ~(request[r].tab = t /\ request[r].kind \in {"fetch", "send"})
    BY <1>c, Unmounted, UnmountOrderly DEF u
  <2>5. \A r \in Slots : u[r] # Free => u[r].kind \in {"login", "fetch", "send"}
    BY <2>4, Typed
  <2>6. \A r \in Slots : u[r] # Free /\ u[r].heard => u[r].tab # t
    BY <2>1, <2>4, <2>5 DEF AllFit, Fits
  <2> QED BY <1>u, <2>1, <2>3, <2>4, <2>6
<1>4. ASSUME NEW t \in Tabs, NEW r \in Slots, GoToMessages(t, r)
      PROVE  Orderly'
  <2>1. /\ tab[t].page = "students" /\ sent' = sent
        /\ OpenMessages(t, tab[t].student, r, request)
    BY <1>4 DEF GoToMessages
  <2>2. tab[t].student \in Students
    BY <1>f, <2>1 DEF TypeOK, Tab, Somebody
  <2>3. /\ tab'[t].page = "messages" /\ tab'[t].student = tab[t].student /\ tab'[t].list = {}
        /\ \A v \in Tabs \ {t} : tab'[v] = tab[v]
    BY <1>a, <2>1, <2>2, Opened
  <2>4. request' = [request EXCEPT ![r] = Ask(t, "fetch", tab'[t].student, 0, "sent")]
    BY <2>1, <2>3 DEF OpenMessages
  <2>5. \A p \in Slots : request[p] # Free /\ request[p].heard => request[p].tab # t
    BY <1>d, <2>1 DEF Fits
  <2> QED BY <1>a, <1>c, <1>u, <2>1, <2>3, <2>4, <2>5
<1>5. ASSUME NEW t \in Tabs, Logout(t)
      PROVE  Orderly'
  <2> DEFINE u == Unmount(t, {"fetch", "send"})
  <2>1. tab[t].student # None /\ tab' = [tab EXCEPT ![t] = LoggedOut] /\ request' = u /\ sent' = sent
    BY <1>5 DEF Logout
  <2> HIDE DEF u
  <2>2. /\ \A v \in Tabs \ {t} : tab'[v] = tab[v]
        /\ tab'[t].list = {}
    BY <1>a, <2>1, TabTyped
  <2>3. tab[t].page # "login"
    <3>1. LoggedOut.student = None
      BY TabTyped
    <3> QED BY <2>1, <3>1 DEF TypeOK
  <2>4. /\ u \in [Slots -> Request \cup {Free}]
        /\ AllFit(u, tab, sent) /\ AllApart(u)
        /\ \A r \in Slots : u[r] # Free /\ u[r].heard =>
             u[r] = request[r] /\ ~(request[r].tab = t /\ request[r].kind \in {"fetch", "send"})
    BY <1>c, Unmounted, UnmountOrderly DEF u
  <2>5. \A r \in Slots : u[r] # Free => u[r].kind \in {"login", "fetch", "send"}
    BY <2>4, Typed
  <2>6. \A r \in Slots : u[r] # Free /\ u[r].heard => u[r].tab # t
    BY <2>3, <2>4, <2>5 DEF AllFit, Fits
  <2> QED BY <1>u, <2>1, <2>2, <2>4, <2>6
<1>6. ASSUME NEW t \in Tabs, Reload(t)
      PROVE  Orderly'
  <2> DEFINE u == Unmount(t, {"login", "fetch", "send"})
  <2>1. /\ u \in [Slots -> Request \cup {Free}]
        /\ AllFit(u, tab, sent) /\ AllApart(u)
        /\ \A r \in Slots : u[r] # Free /\ u[r].heard =>
             u[r] = request[r] /\ ~(request[r].tab = t /\ request[r].kind \in {"login", "fetch", "send"})
    BY <1>c, Unmounted, UnmountOrderly
  <2>2. /\ sent' = sent
        /\ \/ tab' = [tab EXCEPT ![t] = LoggedOut] /\ request' = u
           \/ \E r \in Slots : storage # None /\ OpenMessages(t, storage, r, u)
    BY <1>6 DEF Reload
  <2> HIDE DEF u
  <2>3. \A r \in Slots : u[r] # Free /\ u[r].heard => u[r].tab # t
    <3>1. \A r \in Slots : u[r] # Free => u[r].kind \in {"login", "fetch", "send"}
      BY <2>1, Typed
    <3> QED BY <2>1, <3>1
  <2>4. CASE tab' = [tab EXCEPT ![t] = LoggedOut] /\ request' = u
    <3>1. /\ \A v \in Tabs \ {t} : tab'[v] = tab[v]
          /\ tab'[t].list = {}
      BY <1>a, <2>4, TabTyped
    <3> QED BY <1>u, <2>1, <2>2, <2>3, <2>4, <3>1
  <2>5. ASSUME NEW r \in Slots, storage # None, OpenMessages(t, storage, r, u)
        PROVE  Orderly'
    <3>1. storage \in Students
      BY <2>5 DEF TypeOK, Somebody
    <3>2. /\ tab'[t].page = "messages" /\ tab'[t].student = storage /\ tab'[t].list = {}
          /\ \A v \in Tabs \ {t} : tab'[v] = tab[v]
      BY <1>a, <2>1, <2>5, <3>1, Opened
    <3>3. request' = [u EXCEPT ![r] = Ask(t, "fetch", tab'[t].student, 0, "sent")]
      BY <2>5, <3>2 DEF OpenMessages
    <3> QED BY <1>u, <2>1, <2>2, <2>3, <3>2, <3>3
  <2> QED BY <2>2, <2>4, <2>5
\* A slot changes, and nothing else that matters here.
<1>v. ASSUME NEW r \in Slots, NEW x, request' = [request EXCEPT ![r] = x],
             UNCHANGED <<tab, sent>>,
             x # Free => Fits(x, tab, sent),
             \A p \in Slots \ {r} : x # Free /\ request[p] # Free => Apart(x, request[p]) /\ Apart(request[p], x)
      PROVE  Orderly'
  <2>1. AllFit(request', tab, sent) /\ AllApart(request')
    BY <1>a, <1>c, <1>v, SlotTaken
  <2> QED BY <1>c, <1>v, <2>1 DEF Orderly, ListIsOwn
<1>7. ASSUME NEW r \in Slots, Serve(r)
      PROVE  Orderly'
  <2> DEFINE q == request[r]
  <2>1. q \in Request /\ q # Free /\ q.stage = "sent" /\ tab' = tab
    BY <1>7, <1>b DEF Serve
  <2>2. Fits(q, tab, sent)
    BY <1>d, <2>1
  <2>3. \A p \in Slots \ {r} : request[p] # Free => Apart(q, request[p]) /\ Apart(request[p], q)
    BY <1>e, <2>1
  <2>4. ASSUME NEW rows \in SUBSET Message, Answered(r, rows),
               q.kind = "fetch" => \A m \in rows : sent[m].stored = q.who
        PROVE  /\ AllFit(request', tab, sent) /\ AllApart(request')
               /\ request' \in [Slots -> Request \cup {Free}]
               /\ \A p \in Slots \ {r} : request'[p] = request[p]
               /\ request'[r] # Free => request'[r].stage = "answered"
    <3> DEFINE a == [[q EXCEPT !.stage = "answered"] EXCEPT !.rows = rows]
               x == IF q.heard THEN a ELSE Free
    <3>1. request' = [request EXCEPT ![r] = x]
      BY <2>4 DEF Answered
    <3> HIDE DEF q
    <3>2. /\ a \in Request /\ a.tab = q.tab /\ a.kind = q.kind /\ a.who = q.who
          /\ a.message = q.message /\ a.stage = "answered" /\ a.rows = rows /\ a.heard = q.heard
      <4>1. q \in Request
        BY <2>1
      <4> QED BY <4>1, WithRows
    <3> HIDE DEF a
    <3>3. x # Free => Fits(x, tab, sent)
      BY <2>2, <2>4, <3>2 DEF Fits
    <3>4. \A p \in Slots \ {r} : x # Free /\ request[p] # Free => Apart(x, request[p]) /\ Apart(request[p], x)
      BY <2>3, <3>2 DEF Apart
    <3>5. x \in Request \cup {Free} /\ (x # Free => x.stage = "answered")
      BY <3>2
    <3> HIDE DEF x
    <3>6. AllFit(request', tab, sent) /\ AllApart(request')
      BY <1>a, <1>c, <3>1, <3>3, <3>4, SlotTaken
    <3> QED BY <1>a, <3>1, <3>5, <3>6
  <2>5. CASE ServeLogin(r)
    <3>1. q.kind = "login" /\ Answered(r, {}) /\ sent' = sent
      BY <2>5 DEF ServeLogin
    <3> QED BY <1>c, <2>1, <2>4, <3>1 DEF Orderly, ListIsOwn
  <2>6. CASE ServeFetch(r)
    <3>1. Answered(r, RowsFor(q)) /\ sent' = sent
      BY <2>6 DEF ServeFetch
    <3>2. RowsFor(q) \in SUBSET Message /\ \A m \in RowsFor(q) : sent[m].stored = q.who
      BY DEF RowsFor, RowsOf
    <3> QED BY <1>c, <2>1, <2>4, <3>1, <3>2 DEF Orderly, ListIsOwn
  <2>7. CASE ServeSend(r)
    <3> DEFINE n == q.message
    <3>1. q.kind = "send" /\ Answered(r, {}) /\ sent' = [sent EXCEPT ![n].stored = q.cookie]
      BY <2>7 DEF ServeSend
    <3>2. n \in Message /\ sent[n].stored = None /\ sent[n].shown # None
      BY <2>1, <2>2, <3>1 DEF Fits
    <3>3. /\ sent'[n].shown = sent[n].shown
          /\ \A m \in Message \ {n} : sent'[m] = sent[m]
      BY <1>a, <3>1, <3>2
    <3>4. /\ AllFit(request', tab, sent) /\ AllApart(request')
          /\ request' \in [Slots -> Request \cup {Free}]
          /\ \A p \in Slots \ {r} : request'[p] = request[p]
          /\ request'[r] # Free => request'[r].stage = "answered"
      BY <2>4, <3>1
    <3>5. ASSUME NEW p \in Slots, request'[p] # Free, request'[p].kind = "send", request'[p].stage = "sent"
          PROVE  sent'[request'[p].message] = sent[request'[p].message]
      <4>1. p # r /\ request'[p] = request[p]
        BY <3>4, <3>5
      <4>2. request'[p].message # n
        BY <2>1, <2>3, <3>1, <3>5, <4>1 DEF Apart
      <4>3. request'[p].message \in Message
        BY <3>4, <3>5 DEF AllFit, Fits
      <4> QED BY <3>3, <4>2, <4>3
    <3>6. AllFit(request', tab, sent')
      <4>1. \A m \in Message : sent[m].stored # None => sent'[m].stored = sent[m].stored
        BY <3>2, <3>3
      <4> QED BY <3>4, <3>5, <4>1, StillFit
    <3>7. \A m \in Message : sent'[m].shown = None => sent'[m].stored = None
      BY <1>c, <3>2, <3>3
    <3>8. ListIsOwn'
      <4>1. ASSUME NEW t \in Tabs, NEW m \in tab[t].list
            PROVE  m \in Message \ {n}
        <5>1. m \in Message
          BY <1>a DEF Tab
        <5>2. tab[t].student # None
          <6>1. tab[t] # LoggedOut
            BY <4>1, TabTyped
          <6> QED BY <6>1 DEF TypeOK
        <5> QED BY <1>c, <3>2, <5>1, <5>2 DEF ListIsOwn
      <4> QED BY <1>c, <2>1, <3>3, <4>1 DEF ListIsOwn
    <3> QED BY <2>1, <3>4, <3>6, <3>7, <3>8 DEF Orderly
  <2> QED BY <1>7, <2>5, <2>6, <2>7 DEF Serve
<1>8. ASSUME NEW r \in Slots, Fail(r)
      PROVE  Orderly'
  <2>1. request' = [request EXCEPT ![r] = Free] /\ UNCHANGED <<tab, sent>>
    BY <1>8 DEF Fail, Done
  <2> QED BY <1>v, <2>1
<1>9. ASSUME NEW r \in Slots, LoginAnswered(r)
      PROVE  Orderly'
  <2> DEFINE q == request[r]
             x == [q EXCEPT !.stage = "arrived"]
  <2>1. /\ q \in Request /\ q # Free /\ q.kind = "login" /\ q.stage = "answered"
        /\ request' = [request EXCEPT ![r] = x] /\ UNCHANGED <<tab, sent>>
    BY <1>9, <1>b DEF LoginAnswered
  <2>2. /\ x.tab = q.tab /\ x.kind = q.kind /\ x.who = q.who /\ x.stage = "arrived" /\ x.heard = q.heard
    BY <2>1, Arrived
  <2>3. Fits(q, tab, sent) /\ \A p \in Slots \ {r} : request[p] # Free => Apart(q, request[p]) /\ Apart(request[p], q)
    BY <1>d, <1>e, <2>1
  <2> HIDE DEF q, x
  <2>4. Fits(x, tab, sent)
    BY <2>1, <2>2, <2>3 DEF Fits
  <2>5. \A p \in Slots \ {r} : request[p] # Free => Apart(x, request[p]) /\ Apart(request[p], x)
    BY <2>1, <2>2, <2>3 DEF Apart
  <2> QED BY <1>v, <2>1, <2>4, <2>5
<1>10. ASSUME NEW r \in Slots, FinishLogin(r)
       PROVE  Orderly'
  <2> DEFINE q == request[r]
             t == q.tab
             rq == [request EXCEPT ![r] = Free]
  <2>1. /\ q \in Request /\ q # Free /\ q.stage = "arrived" /\ sent' = sent
        /\ OpenMessages(t, q.who, r, request)
    BY <1>10, <1>b DEF FinishLogin
  <2>2. t \in Tabs /\ q.who \in Students
    BY <2>1, Typed
  <2>3. q.kind = "login" /\ q.heard /\ tab[t].page = "login"
    BY <1>d, <2>1 DEF Fits
  <2>4. /\ tab'[t].page = "messages" /\ tab'[t].student = q.who /\ tab'[t].list = {}
        /\ \A v \in Tabs \ {t} : tab'[v] = tab[v]
    BY <1>a, <2>1, <2>2, Opened
  <2>5. rq \in [Slots -> Request \cup {Free}] /\ AllFit(rq, tab, sent) /\ AllApart(rq)
    BY <1>a, <1>c, SlotTaken
  <2>6. request' = [rq EXCEPT ![r] = Ask(t, "fetch", tab'[t].student, 0, "sent")]
    <3>1. request' = [request EXCEPT ![r] = Ask(t, "fetch", tab'[t].student, 0, "sent")]
      BY <2>1, <2>4 DEF OpenMessages
    <3> QED BY <1>a, <3>1
  <2>7. \A p \in Slots : rq[p] # Free /\ rq[p].heard => rq[p].tab # t
    <3> SUFFICES ASSUME NEW p \in Slots, rq[p] # Free, rq[p].heard, rq[p].tab = t
                 PROVE  FALSE
      OBVIOUS
    <3>1. p # r /\ rq[p] = request[p]
      BY <1>a
    <3>2. request[p].kind # "login"
      BY <1>e, <2>1, <2>3, <3>1 DEF Apart
    <3> QED BY <1>d, <2>3, <3>1, <3>2 DEF Fits
  <2> HIDE DEF q, t, rq
  <2> QED BY <1>u, <2>1, <2>2, <2>4, <2>5, <2>6, <2>7
<1>11. ASSUME NEW r \in Slots, FetchAnswered(r)
       PROVE  Orderly'
  <2> DEFINE q == request[r]
             t == q.tab
             d == [tab[t] EXCEPT !.list = q.rows]
  <2>1. /\ q \in Request /\ q # Free /\ q.stage = "answered" /\ q.kind = "fetch"
        /\ tab' = [tab EXCEPT ![t] = d] /\ request' = [request EXCEPT ![r] = Free] /\ sent' = sent
    BY <1>11, <1>b DEF FetchAnswered, Done
  <2>2. /\ t \in Tabs /\ q.rows \in SUBSET Message
    BY <2>1, Typed
  <2>3. d.page = tab[t].page /\ d.student = tab[t].student /\ d.list = q.rows
    BY <1>a, <2>2, TabListed
  <2>4. tab[t].student = q.who /\ \A m \in q.rows : sent[m].stored = q.who
    BY <1>d, <2>1 DEF Fits
  <2> HIDE DEF d, t, q
  <2>5. /\ tab'[t].page = tab[t].page /\ tab'[t].student = tab[t].student /\ tab'[t].list = q.rows
        /\ \A v \in Tabs \ {t} : tab'[v] = tab[v]
    BY <1>a, <2>1, <2>2, <2>3
  <2>6. AllFit(request, tab', sent)
    <3>1. \A p \in Slots : request[p] # Free => request[p].tab \in Tabs
      BY <1>a, Typed
    <3>2. \A v \in Tabs : tab'[v].page = tab[v].page /\ tab'[v].student = tab[v].student
      BY <2>5
    <3> QED BY <1>a, <1>c, <3>1, <3>2, StillFit
  <2>7. AllFit(request', tab', sent) /\ AllApart(request')
    BY <1>a, <1>c, <2>1, <2>6, SlotTaken
  <2>8. ListIsOwn'
    BY <1>c, <2>1, <2>4, <2>5 DEF ListIsOwn
  <2> QED BY <1>c, <2>1, <2>7, <2>8 DEF Orderly
<1>12. ASSUME NEW r \in Slots, SendAnswered(r)
       PROVE  Orderly'
  <2> DEFINE q == request[r]
             x == Ask(q.tab, "fetch", q.who, 0, "timer")
  <2>1. /\ q # Free /\ q.stage = "answered" /\ q.kind = "send"
        /\ request' = [request EXCEPT ![r] = x] /\ UNCHANGED <<tab, sent>>
    BY <1>12, <1>b DEF SendAnswered
  <2>2. x.tab = q.tab /\ x.kind = "fetch" /\ x.who = q.who /\ x.stage = "timer" /\ x.heard
    BY AskFields
  <2>3. Fits(q, tab, sent)
    BY <1>d, <2>1
  <2> HIDE DEF q, x
  <2>4. Fits(x, tab, sent)
    BY <2>1, <2>2, <2>3 DEF Fits
  <2>5. \A p \in Slots \ {r} : request[p] # Free => Apart(x, request[p]) /\ Apart(request[p], x)
    BY <2>2 DEF Apart
  <2> QED BY <1>v, <2>1, <2>4, <2>5
<1>13. ASSUME NEW r \in Slots, Timer(r)
       PROVE  Orderly'
  <2> DEFINE q == request[r]
             x == Ask(q.tab, q.kind, q.who, q.message, "sent")
  <2>1. /\ q # Free /\ q.stage = "timer"
        /\ request' = [request EXCEPT ![r] = x] /\ UNCHANGED <<tab, sent>>
    BY <1>13, <1>b DEF Timer
  <2>2. x.tab = q.tab /\ x.kind = q.kind /\ x.who = q.who /\ x.stage = "sent" /\ x.heard
    BY AskFields
  <2>3. Fits(q, tab, sent)
    BY <1>d, <2>1
  <2> HIDE DEF q, x
  <2>4. Fits(x, tab, sent)
    BY <2>1, <2>2, <2>3 DEF Fits
  <2>5. \A p \in Slots \ {r} : request[p] # Free => Apart(x, request[p]) /\ Apart(request[p], x)
    BY <2>1, <2>2, <2>3 DEF Apart, Fits
  <2> QED BY <1>v, <2>1, <2>4, <2>5
<1>14. CASE ExpireCookie \/ UNCHANGED vars
  <2>1. UNCHANGED <<tab, sent, request>>
    BY <1>14 DEF ExpireCookie, vars
  <2> QED BY <1>c, <2>1 DEF Orderly, ListIsOwn
<1> QED BY <1>1, <1>2, <1>3, <1>4, <1>5, <1>6, <1>7, <1>8, <1>9, <1>10, <1>11, <1>12, <1>13, <1>14
        DEF Next, User, Answer

-----------------------------------------------------------------------------
(* One tab in use *)

\* A component that goes away leaves the cookies of the messages on their way alone.
LEMMA UnmountFollows ==
  ASSUME TypeOK, AllFollow(request, used, cookie, sent), NEW t, NEW kinds
  PROVE  AllFollow(Unmount(t, kinds), used, cookie, sent)
<1> DEFINE u == Unmount(t, kinds)
<1>1. \A r \in Slots : Left(u[r], request[r], t, kinds)
  BY Unmounted
<1> HIDE DEF u
<1>2. \A r \in Slots : request[r] \in Request => request[r] # Free
  BY Typed
<1>3. AllFollow(u, used, cookie, sent)
  BY <1>1, <1>2 DEF AllFollow, Follows, Left
<1> QED BY <1>3 DEF u

\* To change one slot it is enough to look at that slot.
LEMMA SlotFollows ==
  ASSUME NEW rq \in [Slots -> Request \cup {Free}], NEW tabs, NEW c, NEW msgs, NEW r \in Slots, NEW x,
         AllFollow(rq, tabs, c, msgs), x # Free => Follows(x, tabs, c, msgs)
  PROVE  AllFollow([rq EXCEPT ![r] = x], tabs, c, msgs)
BY DEF AllFollow

\* With one tab, whatever happens keeps localStorage and the cookie in step with it.
LEMMA AloneInductive ==
  ASSUME TypeOK, TypeOK', Orderly, Alone, AdminPanelAssumption, [Next]_vars
  PROVE  Alone'
<1>a. /\ tab \in [Tabs -> Tab] /\ request \in [Slots -> Request \cup {Free}]
      /\ sent \in [Message -> [shown : Somebody, stored : Somebody]]
      /\ used \subseteq Tabs
  BY DEF TypeOK
<1>b. \A r \in Slots : request[r].stage \in {"timer", "sent", "answered", "arrived"}
                         => request[r] \in Request /\ request[r] # Free
  BY <1>a, Typed DEF Free
<1>c. \A r \in Slots : request[r] # Free => Fits(request[r], tab, sent)
  BY DEF Orderly, AllFit
<1>d. \A r1, r2 \in Slots :
        r1 # r2 /\ request[r1] # Free /\ request[r2] # Free => Apart(request[r1], request[r2])
  BY DEF Orderly, AllApart
<1>e. /\ \A t \in Tabs : tab[t].student # None => t \in used
      /\ OneTab => Settled /\ AllFollow(request, used, cookie, sent) /\ AsShown
  BY DEF Alone
<1>f. \A t \in Tabs : tab[t].page = "login" => tab[t].student = None
  <2> SUFFICES ASSUME NEW t \in Tabs, tab[t].page = "login"
               PROVE  tab[t].student = None
    OBVIOUS
  <2>1. tab[t] = LoggedOut
    BY DEF TypeOK
  <2> QED BY <2>1, TabTyped
\* The students shown, localStorage, the cookie and the tabs in use stay.
<1>s. ASSUME \A t \in Tabs : tab'[t].student = tab[t].student,
             UNCHANGED <<storage, cookie, used>>,
             OneTab => AllFollow(request', used, cookie, sent') /\ AsShown'
      PROVE  Alone'
  <2>1. OneTab' => OneTab
    BY <1>s DEF OneTab
  <2>2. Settled => Settled'
    BY <1>a, <1>s DEF Settled
  <2> QED BY <1>e, <1>s, <2>1, <2>2 DEF Alone
\* Besides, one slot changes.
<1>v. ASSUME NEW r \in Slots, NEW x, request' = [request EXCEPT ![r] = x],
             \A t \in Tabs : tab'[t].student = tab[t].student,
             UNCHANGED <<storage, cookie, used, sent>>,
             x # Free => x.stage # "arrived" /\ (x.kind = "send" => x.stage # "sent")
      PROVE  Alone'
  <2>1. x # Free => Follows(x, used, cookie, sent)
    BY <1>v DEF Follows
  <2>2. OneTab => AllFollow(request', used, cookie, sent')
    BY <1>a, <1>e, <1>v, <2>1, SlotFollows
  <2>3. AsShown => AsShown'
    BY <1>v DEF AsShown
  <2> QED BY <1>e, <1>s, <1>v, <2>2, <2>3
<1>1. ASSUME NEW t \in Tabs, NEW s \in Students, NEW r \in Slots, SubmitLogin(t, s, r)
      PROVE  Alone'
  <2> DEFINE x == Ask(t, "login", s, 0, "sent")
  <2>1. /\ request' = [request EXCEPT ![r] = x]
        /\ UNCHANGED <<tab, storage, cookie, used, sent>>
    BY <1>1 DEF SubmitLogin
  <2>2. x.kind = "login" /\ x.stage = "sent"
    BY AskFields
  <2> HIDE DEF x
  <2> QED BY <1>v, <2>1, <2>2
<1>2. ASSUME NEW t \in Tabs, NEW m \in Message, NEW r \in Slots, SendMessage(t, m, r)
      PROVE  Alone'
  <2> DEFINE s == tab[t].student
             x == Ask(t, "send", s, m, "sent")
  <2>1. /\ tab[t].page = "messages" /\ request' = [request EXCEPT ![r] = x]
        /\ sent[m].shown = None /\ sent' = [sent EXCEPT ![m].shown = s]
        /\ UNCHANGED <<tab, storage, cookie, used>>
    BY <1>2 DEF SendMessage
  <2>2. x.kind = "send" /\ x.stage = "sent" /\ x.message = m /\ x.cookie = cookie
    BY AskFields
  <2>3. s # None /\ sent[m].stored = None
    <3>1. s # None
      <4>1. LoggedOut.page = "login"
        BY TabTyped
      <4> QED BY <2>1, <4>1 DEF TypeOK
    <3> QED BY <2>1, <3>1 DEF Orderly
  <2>4. /\ sent'[m].shown = s
        /\ \A n \in Message : sent'[n].stored = sent[n].stored
        /\ \A n \in Message \ {m} : sent'[n] = sent[n]
    BY <1>a, <2>1
  <2>5. ASSUME OneTab
        PROVE  AllFollow(request', used, cookie, sent') /\ AsShown'
    <3>1. Settled /\ AllFollow(request, used, cookie, sent) /\ AsShown
      BY <1>e, <2>5
    <3>2. cookie \in {None, s}
      BY <1>e, <2>3, <3>1 DEF Settled
    <3>3. AsShown'
      BY <2>3, <2>4, <3>1 DEF AsShown
    <3>4. \A p \in Slots : request[p] # Free /\ request[p].kind = "send" /\ request[p].stage = "sent"
                             => request[p].message \in Message \ {m}
      BY <1>c, <2>1 DEF Fits
    <3> HIDE DEF x, s
    <3>5. AllFollow(request, used, cookie, sent')
      BY <2>4, <3>1, <3>4 DEF AllFollow, Follows
    <3>6. Follows(x, used, cookie, sent')
      BY <2>2, <2>4, <3>2 DEF Follows
    <3>7. AllFollow(request', used, cookie, sent')
      BY <1>a, <2>1, <3>5, <3>6, SlotFollows
    <3> QED BY <3>3, <3>7
  <2> QED BY <1>s, <2>1, <2>5
<1>3. ASSUME NEW t \in Tabs, GoToStudents(t)
      PROVE  Alone'
  <2> DEFINE d == [page |-> "students", student |-> tab[t].student, list |-> {}]
             u == Unmount(t, {"fetch", "send"})
  <2>1. /\ tab' = [tab EXCEPT ![t] = d] /\ request' = u
        /\ UNCHANGED <<storage, cookie, used, sent>>
    BY <1>3 DEF GoToStudents
  <2>2. d.student = tab[t].student
    OBVIOUS
  <2>3. OneTab => AllFollow(u, used, cookie, sent) /\ AsShown
    BY <1>e, UnmountFollows
  <2> HIDE DEF d, u
  <2>4. \A v \in Tabs : tab'[v].student = tab[v].student
    BY <1>a, <2>1, <2>2
  <2>5. AsShown => AsShown'
    BY <2>1 DEF AsShown
  <2> QED BY <1>s, <2>1, <2>3, <2>4, <2>5
<1>4. ASSUME NEW t \in Tabs, NEW r \in Slots, GoToMessages(t, r)
      PROVE  Alone'
  <2> DEFINE x == Ask(t, "fetch", tab[t].student, 0, "sent")
  <2>1. /\ tab[t].page = "students" /\ OpenMessages(t, tab[t].student, r, request)
        /\ UNCHANGED <<storage, cookie, sent>>
    BY <1>4 DEF GoToMessages
  <2>2. tab[t].student # None
    <3>1. LoggedOut.page = "login"
      BY TabTyped
    <3> QED BY <2>1, <3>1 DEF TypeOK
  <2>3. tab[t].student \in Students
    BY <1>a, <2>2 DEF Tab, Somebody
  <2>4. /\ tab'[t].student = tab[t].student /\ \A v \in Tabs \ {t} : tab'[v] = tab[v]
        /\ used' = used \cup {t}
    BY <1>a, <2>1, <2>3, Opened
  <2>5. used' = used
    BY <1>e, <2>2, <2>4
  <2>6. request' = [request EXCEPT ![r] = x] /\ x.kind = "fetch" /\ x.stage = "sent"
    BY <2>1, AskFields DEF OpenMessages
  <2> HIDE DEF x
  <2>7. \A v \in Tabs : tab'[v].student = tab[v].student
    BY <2>4
  <2> QED BY <1>v, <2>1, <2>5, <2>6, <2>7
<1>5. ASSUME NEW t \in Tabs, Logout(t)
      PROVE  Alone'
  <2> DEFINE u == Unmount(t, {"fetch", "send"})
  <2>1. /\ tab[t].student # None /\ tab' = [tab EXCEPT ![t] = LoggedOut] /\ storage' = None
        /\ request' = u /\ UNCHANGED <<cookie, used, sent>>
    BY <1>5 DEF Logout
  <2>2. OneTab => Settled /\ AllFollow(u, used, cookie, sent) /\ AsShown
    BY <1>e, UnmountFollows
  <2> HIDE DEF u
  <2>3. t \in used /\ tab'[t].student = None /\ \A v \in Tabs \ {t} : tab'[v] = tab[v]
    BY <1>a, <1>e, <2>1, TabTyped
  <2>4. \A v \in Tabs : tab'[v].student # None => v \in used'
    BY <1>e, <2>1, <2>3
  <2>5. OneTab' => OneTab /\ \A v \in used : v = t
    BY <2>1, <2>3 DEF OneTab
  <2>6. OneTab' => Settled'
    BY <1>a, <2>1, <2>3, <2>5 DEF Settled
  <2>7. AsShown => AsShown'
    BY <2>1 DEF AsShown
  <2> QED BY <2>1, <2>2, <2>4, <2>5, <2>6, <2>7 DEF Alone
<1>6. ASSUME NEW t \in Tabs, Reload(t)
      PROVE  Alone'
  <2> DEFINE u == Unmount(t, {"login", "fetch", "send"})
  <2>1. /\ UNCHANGED <<storage, cookie, sent>>
        /\ \/ storage = None /\ tab' = [tab EXCEPT ![t] = LoggedOut] /\ request' = u /\ used' = used
           \/ \E r \in Slots : storage # None /\ OpenMessages(t, storage, r, u)
    BY <1>6 DEF Reload
  <2>2. u \in [Slots -> Request \cup {Free}] /\ (OneTab => Settled /\ AllFollow(u, used, cookie, sent) /\ AsShown)
    BY <1>e, Unmounted, UnmountFollows
  <2> HIDE DEF u
  <2>3. AsShown => AsShown'
    BY <2>1 DEF AsShown
  <2>4. CASE storage = None /\ tab' = [tab EXCEPT ![t] = LoggedOut] /\ request' = u /\ used' = used
    <3>1. tab'[t].student = None /\ \A v \in Tabs \ {t} : tab'[v] = tab[v]
      BY <1>a, <2>4, TabTyped
    <3>2. \A v \in Tabs : tab'[v].student # None => v \in used'
      BY <1>e, <2>4, <3>1
    <3>3. OneTab' => OneTab
      BY <2>4 DEF OneTab
    <3>4. Settled => Settled'
      BY <1>a, <2>1, <2>4, <3>1 DEF Settled
    <3> QED BY <2>1, <2>2, <2>3, <2>4, <3>2, <3>3, <3>4 DEF Alone
  <2>5. ASSUME NEW r \in Slots, storage # None, OpenMessages(t, storage, r, u)
        PROVE  Alone'
    <3> DEFINE x == Ask(t, "fetch", storage, 0, "sent")
    <3>1. storage \in Students
      BY <2>5 DEF TypeOK, Somebody
    <3>2. /\ tab'[t].student = storage /\ \A v \in Tabs \ {t} : tab'[v] = tab[v]
          /\ used' = used \cup {t}
      BY <1>a, <2>2, <2>5, <3>1, Opened
    <3>3. \A v \in Tabs : tab'[v].student # None => v \in used'
      BY <1>e, <3>2
    <3>4. ASSUME OneTab'
          PROVE  OneTab /\ used = {t} /\ used' = used /\ tab[t].student = storage
      <4>1. OneTab /\ \A v \in used : v = t
        BY <3>2, <3>4 DEF OneTab
      <4>2. used # {}
        BY <1>e, <2>5, <4>1 DEF Settled
      <4>3. t \in used
        BY <4>1, <4>2
      <4> QED BY <1>e, <3>2, <4>1, <4>3 DEF Settled
    <3>5. OneTab' => Settled'
      BY <1>e, <2>1, <3>2, <3>4 DEF Settled
    <3>6. request' = [u EXCEPT ![r] = x] /\ x.kind = "fetch" /\ x.stage = "sent"
      BY <2>5, AskFields DEF OpenMessages
    <3> HIDE DEF x
    <3>7. Follows(x, used, cookie, sent)
      BY <3>6 DEF Follows
    <3>8. OneTab' => AllFollow(request', used', cookie', sent')
      <4>1. AllFollow(u, used, cookie, sent) => AllFollow(request', used, cookie, sent)
        BY <2>2, <3>6, <3>7, SlotFollows
      <4> QED BY <2>1, <2>2, <3>4, <4>1
    <3> QED BY <2>2, <2>3, <3>3, <3>4, <3>5, <3>8 DEF Alone
  <2> QED BY <2>1, <2>4, <2>5
<1>7. ASSUME NEW r \in Slots, Serve(r)
      PROVE  Alone'
  <2> DEFINE q == request[r]
  <2>1. q \in Request /\ q # Free /\ q.stage = "sent" /\ UNCHANGED <<tab, storage, cookie, used>>
    BY <1>7, <1>b DEF Serve
  <2>2. ASSUME NEW rows \in SUBSET Message, Answered(r, rows)
        PROVE  \E x : /\ request' = [request EXCEPT ![r] = x]
                      /\ x # Free => x.stage = "answered"
    <3> DEFINE a == [[q EXCEPT !.stage = "answered"] EXCEPT !.rows = rows]
               x == IF q.heard THEN a ELSE Free
    <3>1. request' = [request EXCEPT ![r] = x]
      BY <2>2 DEF Answered
    <3>2. a.stage = "answered"
      BY <2>1, WithRows
    <3> HIDE DEF a, q
    <3>3. x # Free => x.stage = "answered"
      BY <3>2
    <3> QED BY <3>1, <3>3
  <2>3. \E rows \in SUBSET Message : Answered(r, rows)
    <3>1. RowsFor(q) \in SUBSET Message
      BY DEF RowsFor, RowsOf
    <3> QED BY <1>7, <3>1 DEF Serve, ServeLogin, ServeFetch, ServeSend
  <2>4. PICK x : request' = [request EXCEPT ![r] = x] /\ (x # Free => x.stage = "answered")
    BY <2>2, <2>3
  <2>5. CASE sent' = sent
    BY <1>v, <2>1, <2>4, <2>5
  <2>6. CASE q.kind = "send" /\ sent' = [sent EXCEPT ![q.message].stored = q.cookie]
    <3> DEFINE n == q.message
    <3>1. n \in Message
      BY <1>c, <2>1, <2>6 DEF Fits
    <3>2. /\ sent'[n].stored = q.cookie
          /\ \A m \in Message : sent'[m].shown = sent[m].shown
          /\ \A m \in Message \ {n} : sent'[m] = sent[m]
      BY <1>a, <2>6, <3>1
    <3>3. ASSUME OneTab
          PROVE  AllFollow(request', used, cookie, sent') /\ AsShown'
      <4>1. AllFollow(request, used, cookie, sent) /\ AsShown
        BY <1>e, <3>3
      <4>2. q.cookie \in {None, sent[n].shown}
        BY <2>1, <2>6, <4>1 DEF AllFollow, Follows
      <4>3. AsShown'
        BY <3>1, <3>2, <4>1, <4>2 DEF AsShown
      <4>4. AllFollow(request, used, cookie, sent')
        <5>1. \A p \in Slots : request[p] # Free /\ request[p].kind = "send" /\ request[p].stage = "sent"
                                 => request[p].message \in Message
          BY <1>c DEF Fits
        <5> QED BY <3>2, <4>1, <5>1 DEF AllFollow, Follows
      <4>5. x # Free => Follows(x, used, cookie, sent')
        BY <2>4 DEF Follows
      <4> QED BY <1>a, <2>4, <4>3, <4>4, <4>5, SlotFollows
    <3> QED BY <1>s, <2>1, <3>3
  <2> QED BY <1>7, <2>5, <2>6 DEF Serve, ServeLogin, ServeFetch, ServeSend
<1>8. ASSUME NEW r \in Slots, Fail(r)
      PROVE  Alone'
  <2>1. request' = [request EXCEPT ![r] = Free] /\ UNCHANGED <<tab, storage, cookie, used, sent>>
    BY <1>8 DEF Fail, Done
  <2> QED BY <1>v, <2>1
<1>9. ASSUME NEW r \in Slots, LoginAnswered(r)
      PROVE  Alone'
  <2> DEFINE q == request[r]
             t == q.tab
             x == [q EXCEPT !.stage = "arrived"]
  <2>1. /\ q \in Request /\ q # Free /\ q.kind = "login" /\ q.stage = "answered"
        /\ request' = [request EXCEPT ![r] = x] /\ cookie' = q.who /\ used' = used \cup {t}
        /\ UNCHANGED <<tab, storage, sent>>
    BY <1>9, <1>b DEF LoginAnswered
  <2>2. x.tab = t /\ x.kind = "login" /\ x.who = q.who /\ x.stage = "arrived"
    BY <2>1, Arrived
  <2>3. t \in Tabs /\ q.heard /\ tab[t].student = None
    <3>1. t \in Tabs
      BY <2>1, Typed
    <3> QED BY <1>c, <1>f, <2>1, <3>1 DEF Fits
  <2>4. \A v \in Tabs : tab'[v].student # None => v \in used'
    BY <1>e, <2>1
  <2>5. ASSUME OneTab'
        PROVE  Settled' /\ AllFollow(request', used', cookie', sent') /\ AsShown'
    <3>1. OneTab /\ \A v \in used' : v = t
      BY <2>1, <2>5 DEF OneTab
    <3>2. Settled /\ AllFollow(request, used, cookie, sent) /\ AsShown
      BY <1>e, <3>1
    <3>3. storage = None
      BY <2>1, <2>3, <3>1, <3>2 DEF Settled
    <3>4. Settled'
      BY <2>1, <2>3, <3>1, <3>3 DEF Settled
    <3>5. ASSUME NEW p \in Slots \ {r}, request[p] # Free
          PROVE  request[p].stage # "arrived"
      <4> SUFFICES ASSUME request[p].stage = "arrived"
                   PROVE  FALSE
        OBVIOUS
      <4>1. request[p].kind = "login" /\ request[p].heard
        BY <1>c, <3>5 DEF Fits
      <4>2. request[p].tab = t
        BY <2>1, <3>1, <3>2, <3>5 DEF AllFollow, Follows
      <4> QED BY <1>d, <2>1, <2>3, <3>5, <4>1, <4>2 DEF Apart
    <3> HIDE DEF q, t, x
    <3>6. \A p \in Slots \ {r} : request[p] # Free => Follows(request[p], used', cookie', sent')
      BY <2>1, <3>2, <3>5 DEF AllFollow, Follows
    <3>7. Follows(x, used', cookie', sent')
      BY <2>1, <2>2 DEF Follows
    <3>8. AllFollow(request', used', cookie', sent')
      BY <1>a, <2>1, <3>6, <3>7 DEF AllFollow
    <3>9. AsShown'
      BY <2>1, <3>2 DEF AsShown
    <3> QED BY <3>4, <3>8, <3>9
  <2> QED BY <2>4, <2>5 DEF Alone
<1>10. ASSUME NEW r \in Slots, FinishLogin(r)
       PROVE  Alone'
  <2> DEFINE q == request[r]
             t == q.tab
             x == Ask(t, "fetch", q.who, 0, "sent")
  <2>1. /\ q \in Request /\ q # Free /\ q.stage = "arrived" /\ storage' = q.who
        /\ OpenMessages(t, q.who, r, request) /\ UNCHANGED <<cookie, sent>>
    BY <1>10, <1>b DEF FinishLogin
  <2>2. t \in Tabs /\ q.who \in Students
    BY <2>1, Typed
  <2>3. /\ tab'[t].student = q.who /\ \A v \in Tabs \ {t} : tab'[v] = tab[v]
        /\ used' = used \cup {t}
    BY <1>a, <2>1, <2>2, Opened
  <2>4. \A v \in Tabs : tab'[v].student # None => v \in used'
    BY <1>e, <2>3
  <2>5. request' = [request EXCEPT ![r] = x] /\ x.kind = "fetch" /\ x.stage = "sent"
    BY <2>1, AskFields DEF OpenMessages
  <2>6. ASSUME OneTab'
        PROVE  Settled' /\ AllFollow(request', used', cookie', sent') /\ AsShown'
    <3>1. OneTab
      BY <2>3, <2>6 DEF OneTab
    <3>2. Settled /\ AllFollow(request, used, cookie, sent) /\ AsShown
      BY <1>e, <3>1
    <3>3. t \in used /\ cookie \in {None, q.who}
      BY <2>1, <3>2 DEF AllFollow, Follows
    <3>4. used' = used /\ \A v \in used : v = t
      BY <2>3, <3>1, <3>3 DEF OneTab
    <3> HIDE DEF q, t, x
    <3>5. Settled'
      BY <2>1, <2>3, <3>3, <3>4 DEF Settled
    <3>6. Follows(x, used, cookie, sent)
      BY <2>5 DEF Follows
    <3>7. AllFollow(request', used', cookie', sent')
      BY <1>a, <2>1, <2>5, <3>2, <3>4, <3>6, SlotFollows
    <3>8. AsShown'
      BY <2>1, <3>2 DEF AsShown
    <3> QED BY <3>5, <3>7, <3>8
  <2> QED BY <2>4, <2>6 DEF Alone
<1>11. ASSUME NEW r \in Slots, FetchAnswered(r)
       PROVE  Alone'
  <2> DEFINE q == request[r]
             t == q.tab
             d == [tab[t] EXCEPT !.list = q.rows]
  <2>1. /\ q \in Request /\ tab' = [tab EXCEPT ![t] = d] /\ request' = [request EXCEPT ![r] = Free]
        /\ UNCHANGED <<storage, cookie, used, sent>>
    BY <1>11, <1>b DEF FetchAnswered, Done
  <2>2. t \in Tabs /\ q.rows \in SUBSET Message
    BY <2>1, Typed
  <2>3. d.student = tab[t].student
    BY <1>a, <2>2, TabListed
  <2> HIDE DEF d, t, q
  <2>4. \A v \in Tabs : tab'[v].student = tab[v].student
    BY <1>a, <2>1, <2>2, <2>3
  <2> QED BY <1>v, <2>1, <2>4
<1>12. ASSUME NEW r \in Slots, SendAnswered(r)
       PROVE  Alone'
  <2> DEFINE x == Ask(request[r].tab, "fetch", request[r].who, 0, "timer")
  <2>1. request' = [request EXCEPT ![r] = x] /\ UNCHANGED <<tab, storage, cookie, used, sent>>
    BY <1>12 DEF SendAnswered
  <2>2. x.kind = "fetch" /\ x.stage = "timer"
    BY AskFields
  <2> HIDE DEF x
  <2> QED BY <1>v, <2>1, <2>2
<1>13. ASSUME NEW r \in Slots, Timer(r)
       PROVE  Alone'
  <2> DEFINE q == request[r]
             x == Ask(q.tab, q.kind, q.who, q.message, "sent")
  <2>1. /\ q # Free /\ q.stage = "timer"
        /\ request' = [request EXCEPT ![r] = x] /\ UNCHANGED <<tab, storage, cookie, used, sent>>
    BY <1>13, <1>b DEF Timer
  <2>2. x.kind = q.kind /\ x.stage = "sent"
    BY AskFields
  <2>3. q.kind = "fetch"
    BY <1>c, <2>1 DEF Fits
  <2> HIDE DEF q, x
  <2> QED BY <1>v, <2>1, <2>2, <2>3
<1>14. CASE ExpireCookie
  <2>1. cookie' = None /\ UNCHANGED <<tab, storage, used, sent, request>>
    BY <1>14 DEF ExpireCookie
  <2>2. OneTab' => OneTab
    BY <2>1 DEF OneTab
  <2>3. Settled => Settled'
    BY <2>1 DEF Settled
  <2>4. AllFollow(request, used, cookie, sent) => AllFollow(request', used', cookie', sent')
    BY <2>1 DEF AllFollow, Follows
  <2>5. AsShown => AsShown'
    BY <2>1 DEF AsShown
  <2> QED BY <1>e, <2>1, <2>2, <2>3, <2>4, <2>5 DEF Alone
<1>15. CASE UNCHANGED vars
  BY <1>15 DEF vars, Alone, OneTab, Settled, AsShown
<1> QED BY <1>1, <1>2, <1>3, <1>4, <1>5, <1>6, <1>7, <1>8, <1>9, <1>10, <1>11, <1>12, <1>13, <1>14, <1>15
        DEF Next, User, Answer

-----------------------------------------------------------------------------
(* Theorems *)

\* Both hold in every reachable state; neither is inductive without the other.
LEMMA TypedAndOrderly ==
  Spec => [](TypeOK /\ Orderly)
<1>1. Init => TypeOK /\ Orderly
  <2> SUFFICES ASSUME Init
               PROVE  TypeOK /\ Orderly
    OBVIOUS
  <2>1. TypeOK
    BY TabTyped DEF Init, TypeOK, Somebody
  <2>2. ListIsOwn
    BY TabTyped DEF Init, ListIsOwn
  <2>3. AllFit(request, tab, sent) /\ AllApart(request)
    BY DEF Init, AllFit, AllApart
  <2>4. \A m \in Message : sent[m].shown = None => sent[m].stored = None
    BY DEF Init
  <2> QED BY <2>1, <2>2, <2>3, <2>4 DEF Orderly
<1>2. TypeOK /\ Orderly /\ [Next]_vars => (TypeOK /\ Orderly)'
  BY TypeInductive, OrderlyInductive, AdminPanelAssumption
<1> QED BY <1>1, <1>2, PTL DEF Spec

\* Every variable keeps its type.  This rests on the order of the requests: a list
\* that came after its tab had logged out would make a tab that no page can show.
THEOREM TypeCorrect == Spec => []TypeOK
BY TypedAndOrderly, PTL

\* A page never lists messages of anybody but the student it shows, however late
\* the answer comes and whoever has used the tab meanwhile.
THEOREM OwnList == Spec => []ListIsOwn
<1>1. Orderly => ListIsOwn
  BY DEF Orderly
<1> QED BY <1>1, TypedAndOrderly, PTL

\* As long as one tab is used, a message is stored under the student the page showed
\* when it was sent.
THEOREM SendsAsShown == Spec => []OneTabSendsAsShown
<1>1. Init => Alone
  <2> SUFFICES ASSUME Init
               PROVE  Alone
    OBVIOUS
  <2>1. \A t \in Tabs : tab[t].student = None
    BY TabTyped DEF Init
  <2>2. Settled
    BY <2>1 DEF Init, Settled
  <2>3. AllFollow(request, used, cookie, sent) /\ AsShown
    BY DEF Init, AllFollow, AsShown
  <2> QED BY <2>1, <2>2, <2>3 DEF Alone
<1>2. TypeOK /\ TypeOK' /\ Orderly /\ Alone /\ [Next]_vars => Alone'
  BY AloneInductive, AdminPanelAssumption
<1>3. Alone => OneTabSendsAsShown
  BY DEF Alone, OneTab, AsShown, OneTabSendsAsShown
<1> QED BY <1>1, <1>2, <1>3, TypedAndOrderly, PTL DEF Spec

=============================================================================
