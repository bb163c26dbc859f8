--------------------------- MODULE RealtimeProofs ---------------------------
(***************************************************************************)
(* Sessions and sockets for any number of browsers, users, requests and    *)
(* sockets: what SocketSpeaksForSession, OnlyRacersOutlive and             *)
(* PresenceCurrent rest on, and why every step keeps it.                   *)
(***************************************************************************)
EXTENDS Realtime, SequenceTheorems, TLAPS

\* The requests that work for the identity they found in their session.
SessionKinds == {"logout", "patch", "erase"}

\* A socket the server lets in has an identity, an identity came from a
\* session, and so did that of a request behind requireAuth.
Authenticated ==
    /\ \A s \in Joined(sock) : sock[s].user # NoUser
    /\ \A s \in Socks : sock[s].user # NoUser => sock[s].sid # None
    /\ \A r \in Reqs : req[r].kind \in SessionKinds => req[r].user # NoUser /\ req[r].sid # None

\* The store, a socket or a request knows session id i as u's.
Known(i, u) ==
    \/ store[i] = u
    \/ \E s \in Socks : sock[s].sid = i /\ sock[s].user = u
    \/ \E r \in Reqs : req[r].kind \in SessionKinds /\ req[r].sid = i /\ req[r].user = u

OneOwner == \A i \in Sids : \A u, v \in Users : Known(i, u) /\ Known(i, v) => u = v

\* An id that was not generated yet is known as nobody's.
IssuedOnly ==
    /\ \A i \in Sids : \A u \in Users : Known(i, u) => i <= issued
    /\ \A i \in loggedOut : i <= issued

\* A handshake whose session has gone since was overtaken by its destruction.
HandshakesTracked ==
    \A s \in Socks :
        sock[s].phase = "handshake" /\ sock[s].user # NoUser
            => store[sock[s].sid] # NoUser \/ s \in overtaken

LoggedOutGone == \A i \in loggedOut : store[i] = NoUser

Sessions == OneOwner /\ IssuedOnly /\ HandshakesTracked /\ LoggedOutGone /\ OnlyRacersOutlive

\* A socket in the live set whose session is gone has one of the reasons that
\* SocketSpeaksForSession names.
JoinedTracked ==
    \A s \in Joined(sock) :
        \/ store[sock[s].sid] # NoUser
        \/ sock[s].sid \in abandoned \/ s \in overtaken \/ LoggingOut(sock[s].sid)

\* A request that was not sent yet is at nothing.
Unsent == \A r \in Reqs : r > sent => req[r].pc = "idle"

ReasonInv == JoinedTracked /\ Unsent

\* What is inductive.
SessionInv == TypeOK /\ Authenticated /\ Sessions

\* Every page has a socket of its own, which has been used; a socket not used
\* yet has no queue.
SocketsApart ==
    /\ \A b \in Browsers : page[b].socket <= opened
    /\ \A b, c \in Browsers : page[b].socket = page[c].socket /\ page[b].socket # None => b = c
    /\ \A s \in Socks : s > opened => sock[s].phase = "unused"

PresenceInv == SocketsApart /\ PresenceCurrent

-----------------------------------------------------------------------------
(* Types.  A presence list names users only, because every socket that is   *)
(* joined has one.                                                          *)

Sock == [phase : Phases, sid : Sids \cup {None}, user : Users \cup {NoUser}]
Page == [mounted : BOOLEAN, online : SUBSET Users, socket : Socks \cup {None}, retry : BOOLEAN]

LEMMA Numbers ==
    /\ MaxSids \in Nat /\ MaxSocks \in Nat /\ MaxReqs \in Nat /\ NBrowsers \in Nat
    /\ None \notin Sids /\ None \notin Socks /\ None \notin Browsers
    /\ NBrowsers <= MaxSids
BY BoundsAssumption DEF None, Sids, Socks, Browsers

LEMMA Notices ==
    \A kind \in {"connect", "refused", "lost", "kicked"} : Notice(kind) \in Event
BY DEF Notice, Event

LEMMA PresenceType ==
    ASSUME NEW k \in [Socks -> Sock], \A s \in Joined(k) : k[s].user # NoUser
    PROVE  Presence(k) \in Event
<1>1. \A s \in Joined(k) : k[s].user \in Users
    BY DEF Joined, Sock
<1>2. OnlineIn(k) \in SUBSET Users
    BY <1>1 DEF OnlineIn
<1> QED
    BY <1>2 DEF Presence, Event

LEMMA SendType ==
    ASSUME NEW q \in Seq(Event), NEW e \in Event
    PROVE  Send(q, e) \in Seq(Event)
<1>1. Append(q, e) \in Seq(Event)
    BY AppendProperties
<1>2. CASE q # <<>>
    <2>1. Len(q) \in 1 .. Len(q)
        BY <1>2, EmptySeq, LenProperties
    <2>2. [q EXCEPT ![Len(q)] = e] \in Seq(Event)
        BY <2>1, ExceptSeq
    <2> QED
        BY <1>1, <2>2, Zenon DEF Send
<1>3. CASE q = <<>>
    BY <1>1, <1>3, Zenon DEF Send
<1> QED
    BY <1>2, <1>3

LEMMA BroadcastType ==
    ASSUME TypeOK, NEW k \in [Socks -> Sock], \A s \in Joined(k) : k[s].user # NoUser
    PROVE  Broadcast(k) \in [Socks -> Seq(Event)]
<1>1. \A s \in Socks : inbox[s] \in Seq(Event) /\ Send(inbox[s], Presence(k)) \in Seq(Event)
    BY PresenceType, SendType DEF TypeOK
<1> QED
    BY <1>1, Zenon DEF Broadcast

LEMMA PageType == TypeOK => page \in [Browsers -> Page] /\ (\A b \in Browsers : page[b] \in Page)
BY DEF TypeOK, Page

LEMMA SockType == TypeOK => sock \in [Socks -> Sock] /\ (\A s \in Socks : sock[s] \in Sock)
BY DEF TypeOK, Sock

LEMMA TwoEvents ==
    ASSUME NEW d \in Event, NEW e \in Event
    PROVE  <<d, e>> \in Seq(Event)
OBVIOUS

LEMMA QueueTail ==
    ASSUME NEW q \in Seq(Event), q # <<>>
    PROVE  Head(q) \in Event /\ Tail(q) \in Seq(Event)
BY HeadTailProperties

LEMMA TypedInit == Init => TypeOK /\ Authenticated
<1> SUFFICES ASSUME Init PROVE TypeOK /\ Authenticated
    OBVIOUS
<1>1. PICK who \in [Browsers -> Users] :
          store = [i \in Sids |-> IF i \in Browsers THEN who[i] ELSE NoUser]
    BY DEF Init
<1>2. store \in [Sids -> Users \cup {NoUser}]
    BY <1>1
<1>3. issued \in NBrowsers .. MaxSids /\ jar \in [Browsers -> Sids \cup {None}]
    BY Numbers DEF Init, Browsers, Sids
<1>4. inbox \in [Socks -> Seq(Event)]
    BY EmptySeq DEF Init
<1>5. sock \in [Socks -> Sock]
    BY DEF Init, Sock, Phases
<1>6. page \in [Browsers -> [mounted : BOOLEAN, online : SUBSET Users,
                              socket : Socks \cup {None}, retry : BOOLEAN]]
    BY DEF Init, Away
<1>7. opened \in 0 .. MaxSocks /\ sent \in 0 .. MaxReqs /\ loggedOut = {}
      /\ overtaken = {} /\ abandoned = {}
    BY Numbers DEF Init
<1>8. req \in [Reqs -> [kind : {"none", "login", "logout", "patch", "erase"},
                         pc : {"idle", "loaded", "destroyed", "done"},
                         browser : Browsers \cup {None}, sid : Sids \cup {None},
                         user : Users \cup {NoUser}]]
    BY DEF Init
<1>9. TypeOK
    BY <1>2, <1>3, <1>4, <1>5, <1>6, <1>7, <1>8 DEF TypeOK, Sock
<1>10. Authenticated
    BY DEF Init, Authenticated, Joined, SessionKinds
<1> QED
    BY <1>9, <1>10

LEMMA TypedConnect ==
    ASSUME TypeOK, Authenticated, NEW s \in Socks, Connect(s)
    PROVE  TypeOK' /\ Authenticated'
<1>1. sock \in [Socks -> Sock] /\ sock[s] \in Sock
    BY SockType
<1>2. CASE Authorized(s)
    <2> DEFINE k == [sock EXCEPT ![s].phase = "open"]
    <2>1. sock' = k /\ inbox' = [Broadcast(k) EXCEPT ![s] = <<Notice("connect"), Presence(k)>>]
        BY <1>2 DEF Connect
    <2>2. k \in [Socks -> Sock] /\ k[s].user = sock[s].user
        BY <1>1 DEF Sock, Phases
    <2>3. \A t \in Joined(k) : k[t].user # NoUser
        BY <1>1, <1>2 DEF Authenticated, Joined, Authorized
    <2>4. Broadcast(k) \in [Socks -> Seq(Event)]
        BY <2>2, <2>3, BroadcastType
    <2>5. <<Notice("connect"), Presence(k)>> \in Seq(Event)
        BY <2>2, <2>3, PresenceType, Notices, TwoEvents
    <2>6. inbox' \in [Socks -> Seq(Event)]
        BY <2>1, <2>4, <2>5
    <2>7. TypeOK'
        BY <2>1, <2>2, <2>6 DEF TypeOK, Connect, sessionVars, requestVars, history, Sock
    <2>8. Authenticated'
        BY <1>1, <2>1, <2>3 DEF Authenticated, Connect, requestVars, Joined
    <2> QED
        BY <2>7, <2>8
<1>3. CASE ~ Authorized(s)
    <2>1. /\ sock' = [sock EXCEPT ![s] = Closed]
          /\ inbox' = [inbox EXCEPT ![s] = <<Notice("refused")>>]
        BY <1>3 DEF Connect
    <2>2. Closed \in Sock
        BY DEF Closed, Sock, Phases
    <2>3. inbox' \in [Socks -> Seq(Event)]
        BY <2>1, Notices DEF TypeOK
    <2>4. TypeOK'
        BY <1>1, <2>1, <2>2, <2>3 DEF TypeOK, Connect, sessionVars, requestVars, history, Sock
    <2>5. Authenticated'
        BY <1>1, <2>1 DEF Authenticated, Connect, requestVars, Joined, Closed
    <2> QED
        BY <2>4, <2>5
<1> QED
    BY <1>2, <1>3

LEMMA TypedServerNotices ==
    ASSUME TypeOK, Authenticated, NEW s \in Socks, ServerNotices(s)
    PROVE  TypeOK' /\ Authenticated'
<1> DEFINE k == [sock EXCEPT ![s] = Closed]
<1>1. sock' = k /\ inbox' = Broadcast(k)
    BY DEF ServerNotices
<1>2. k \in [Socks -> Sock]
    BY SockType DEF Sock, Closed, Phases
<1>3. \A t \in Joined(k) : k[t].user # NoUser
    BY SockType DEF Authenticated, Joined, Closed
<1>4. inbox' \in [Socks -> Seq(Event)]
    BY <1>1, <1>2, <1>3, BroadcastType
<1>5. TypeOK'
    BY <1>1, <1>2, <1>4 DEF TypeOK, ServerNotices, sessionVars, requestVars, history, Sock
<1>6. Authenticated'
    BY <1>1, <1>3, SockType DEF Authenticated, ServerNotices, requestVars, Closed, Joined
<1> QED
    BY <1>5, <1>6

LEMMA TypedHandshake ==
    ASSUME TypeOK, Authenticated, NEW b \in Browsers, Handshake(b)
    PROVE  TypeOK' /\ Authenticated'
<1>1. opened' = opened + 1 /\ opened' \in Socks /\ opened' \in 0 .. MaxSocks
    BY Numbers DEF Handshake, TypeOK, Socks
<1> DEFINE new == [phase |-> "handshake", sid |-> jar[b], user |-> Loaded(jar[b])]
<1>2. jar[b] \in Sids \cup {None} /\ Loaded(jar[b]) \in Users \cup {NoUser}
    BY DEF TypeOK, Loaded
<1>3. new \in Sock
    BY <1>2 DEF Sock, Phases
<1>4. sock' = [sock EXCEPT ![opened'] = new]
    BY DEF Handshake
<1>5. sock' \in [Socks -> Sock]
    BY <1>1, <1>3, <1>4, SockType
<1>6. page' \in [Browsers -> Page]
    <2> DEFINE after == [page[b] EXCEPT !.mounted = TRUE, !.retry = TRUE, !.socket = opened']
    <2>1. page \in [Browsers -> Page] /\ page[b] \in Page
        BY PageType
    <2>2. after \in Page
        BY <1>1, <2>1 DEF Page
    <2>3. page' = [page EXCEPT ![b] = after]
        BY DEF Handshake
    <2> QED
        BY <2>1, <2>2, <2>3
<1>7. TypeOK'
    BY <1>1, <1>5, <1>6 DEF TypeOK, Page, Handshake, sessionVars, requestVars, history, Sock
<1>8. Authenticated'
    BY <1>1, <1>4, <1>5, SockType DEF Authenticated, Handshake, requestVars, Joined, Loaded
<1> QED
    BY <1>7, <1>8

LEMMA TypedDeliver ==
    ASSUME TypeOK, Authenticated, NEW b \in Browsers, Deliver(b)
    PROVE  TypeOK' /\ Authenticated'
<1> DEFINE s == page[b].socket
           e == Head(inbox[s])
<1>1. s \in Socks /\ inbox[s] # <<>> /\ inbox[s] \in Seq(Event)
    BY DEF Deliver, TypeOK
<1>2. e \in Event /\ Tail(inbox[s]) \in Seq(Event)
    BY <1>1, QueueTail
<1>3. page' = [page EXCEPT ![b] = Receive(b, e)] /\ inbox' = [inbox EXCEPT ![s] = Tail(@)]
    BY DEF Deliver
<1>4. inbox' \in [Socks -> Seq(Event)]
    BY <1>1, <1>2, <1>3 DEF TypeOK
<1>5. /\ e.kind \in {"connect", "presence", "refused", "lost", "kicked"}
      /\ e.online \in SUBSET Users
    BY <1>2 DEF Event
<1>6. Receive(b, e) \in Page
    <2> HIDE DEF e
    <2>1. page[b] \in Page
        BY PageType
    <2>2. CASE e.kind = "connect"
        BY <2>1, <2>2 DEF Receive
    <2>3. CASE e.kind = "presence"
        <3>1. [page[b] EXCEPT !.online = e.online] \in Page
            BY <1>5, <2>1 DEF Page
        <3> QED
            BY <2>3, <3>1 DEF Receive
    <2>4. CASE e.kind = "lost"
        <3>1. [page[b] EXCEPT !.socket = None] \in Page
            BY <2>1 DEF Page
        <3> QED
            BY <2>4, <3>1 DEF Receive
    <2>5. CASE e.kind \in {"refused", "kicked"}
        <3>1. [page[b] EXCEPT !.socket = None, !.retry = FALSE] \in Page
            BY <2>1 DEF Page
        <3> QED
            BY <2>5, <3>1 DEF Receive
    <2> QED
        BY <1>5, <2>2, <2>3, <2>4, <2>5
<1>7. TypeOK'
    BY <1>3, <1>4, <1>6 DEF TypeOK, Page, Deliver, sessionVars, requestVars, history
<1>8. Authenticated'
    BY DEF Authenticated, Deliver, requestVars, Joined
<1> QED
    BY <1>7, <1>8

LEMMA TypedDrop ==
    ASSUME TypeOK, Authenticated, NEW b \in Browsers, Drop(b)
    PROVE  TypeOK' /\ Authenticated'
<1> DEFINE s == page[b].socket
<1>1. s \in Socks /\ sock[s].phase = "open"
    BY DEF Drop, TypeOK
<1>2. /\ sock' = [sock EXCEPT ![s].phase = "dead"]
      /\ inbox' = [inbox EXCEPT ![s] = <<Notice("lost")>>]
    BY DEF Drop
<1>3. inbox' \in [Socks -> Seq(Event)]
    BY <1>1, <1>2, Notices DEF TypeOK
<1>4. sock' \in [Socks -> Sock]
    BY <1>1, <1>2, SockType DEF Sock, Phases
<1>5. TypeOK'
    BY <1>3, <1>4 DEF TypeOK, Drop, sessionVars, requestVars, history, Sock
<1>6. Authenticated'
    BY <1>1, <1>2, SockType DEF Authenticated, Drop, requestVars, Joined
<1> QED
    BY <1>5, <1>6

\* What becomes of the socket of a page that is left.
LEMMA LeaveSock ==
    ASSUME TypeOK, NEW b \in Browsers, Leave(b)
    PROVE  /\ sock' \in [Socks -> Sock]
           /\ inbox' \in [Socks -> Seq(Event)]
           /\ \A t \in Socks :
                 \/ sock'[t] = sock[t]
                 \/ sock'[t] = Closed
                 \/ /\ sock[t].phase = "open" /\ sock'[t].phase = "dead"
                    /\ sock'[t].user = sock[t].user /\ sock'[t].sid = sock[t].sid
           /\ Joined(sock') = Joined(sock)
           /\ \A t \in Socks : t # page[b].socket => sock'[t] = sock[t] /\ inbox'[t] = inbox[t]
<1> DEFINE s == page[b].socket
<1>1. CASE s = None
    BY <1>1, SockType DEF Leave, TypeOK
<1>2. CASE s # None
    <2>1. s \in Socks
        BY <1>2 DEF TypeOK
    <2> DEFINE gone == CASE sock[s].phase = "open" -> [sock[s] EXCEPT !.phase = "dead"]
                         [] sock[s].phase = "handshake" -> Closed
                         [] OTHER -> sock[s]
    <2>2. sock' = [sock EXCEPT ![s] = gone] /\ inbox' = [inbox EXCEPT ![s] = <<>>]
        BY <1>2 DEF Leave
    <2>3. /\ gone \in Sock
          /\ \/ gone = sock[s]
             \/ gone = Closed /\ sock[s].phase = "handshake"
             \/ /\ sock[s].phase = "open" /\ gone.phase = "dead"
                /\ gone.user = sock[s].user /\ gone.sid = sock[s].sid
        BY <2>1, SockType DEF Sock, Closed, Phases
    <2> HIDE DEF gone
    <2>4. <<>> \in Seq(Event)
        BY EmptySeq
    <2>5. sock' \in [Socks -> Sock] /\ inbox' \in [Socks -> Seq(Event)]
        BY <2>1, <2>2, <2>3, <2>4, SockType DEF TypeOK
    <2>6. \A t \in Socks : t # s => sock'[t] = sock[t] /\ inbox'[t] = inbox[t]
        BY <2>2, SockType DEF TypeOK
    <2>7. sock'[s] = gone
        BY <2>1, <2>2, SockType
    <2>8. Joined(sock') = Joined(sock)
        BY <2>1, <2>3, <2>6, <2>7 DEF Joined, Closed
    <2> QED
        BY <2>3, <2>5, <2>6, <2>7, <2>8
<1> QED
    BY <1>1, <1>2

LEMMA TypedLeave ==
    ASSUME TypeOK, Authenticated, NEW b \in Browsers, Leave(b)
    PROVE  TypeOK' /\ Authenticated'
<1>1. page' \in [Browsers -> Page]
    BY DEF Leave, TypeOK, Page, Away
<1>2. TypeOK'
    BY <1>1, LeaveSock DEF TypeOK, Page, Leave, sessionVars, requestVars, history, Sock
<1>3. Authenticated'
    <2>1. req' = req
        BY DEF Leave, requestVars
    <2>2. \A t \in Joined(sock') : sock'[t].user # NoUser
        BY LeaveSock DEF Authenticated, Joined, Closed
    <2>3. ASSUME NEW t \in Socks, sock'[t].user # NoUser
          PROVE  sock'[t].sid # None
        <3>1. sock'[t].user = sock[t].user /\ sock'[t].sid = sock[t].sid
            BY <2>3, LeaveSock DEF Closed
        <3> QED
            BY <2>3, <3>1 DEF Authenticated
    <2> QED
        BY <2>1, <2>2, <2>3 DEF Authenticated
<1> QED
    BY <1>2, <1>3

LEMMA TypedStart ==
    ASSUME TypeOK, Authenticated, NEW b \in Browsers, Login(b) \/ WithSession(b)
    PROVE  TypeOK' /\ Authenticated'
<1>1. PICK kind \in {"login", "logout", "patch", "erase"}, user \in Users :
          /\ Start(b, kind, user)
          /\ kind # "login" => user = Loaded(jar[b]) /\ Loaded(jar[b]) # NoUser
    BY DEF Login, WithSession, Loaded, TypeOK
<1>2. sent + 1 \in Reqs /\ sent' = sent + 1 /\ sent' \in 0 .. MaxReqs
    BY <1>1, Numbers DEF Start, TypeOK, Reqs
<1> DEFINE new == [kind |-> kind, pc |-> "loaded", browser |-> b, sid |-> jar[b], user |-> user]
<1>3. req' = [req EXCEPT ![sent + 1] = new] /\ jar[b] \in Sids \cup {None}
    BY <1>1 DEF Start, TypeOK
<1>4. kind # "login" => jar[b] # None
    BY <1>1 DEF Loaded
<1>5. TypeOK'
    BY <1>1, <1>2, <1>3 DEF TypeOK, Start, sessionVars, socketVars, history
<1>6. Authenticated'
    BY <1>1, <1>2, <1>3, <1>4, NoUserAssumption
       DEF Authenticated, Start, socketVars, Joined, SessionKinds, TypeOK
<1> QED
    BY <1>5, <1>6

ReqKinds == {"none", "login", "logout", "patch", "erase"}
Req == [kind : ReqKinds, pc : {"idle", "loaded", "destroyed", "done"},
        browser : Browsers \cup {None}, sid : Sids \cup {None}, user : Users \cup {NoUser}]

\* A request in progress is of a browser; one that is not a login is for a session.
LEMMA ReqType ==
    ASSUME TypeOK, NEW r \in Reqs
    PROVE  /\ req \in [Reqs -> Req] /\ req[r] \in Req /\ Done \in Req
           /\ jar \in [Browsers -> Sids \cup {None}]
           /\ store \in [Sids -> Users \cup {NoUser}]
BY DEF TypeOK, Req, ReqKinds, Done

LEMMA TypedRegenerate ==
    ASSUME TypeOK, Authenticated, NEW r \in Reqs, Regenerate(r)
    PROVE  TypeOK' /\ Authenticated'
<1>1. req' \in [Reqs -> Req] /\ \A q \in Reqs : q # r => req'[q] = req[q]
    BY ReqType DEF Regenerate, Req
<1>2. req'[r].kind = "login"
    BY ReqType DEF Regenerate, At, Req
<1>3. store' \in [Sids -> Users \cup {NoUser}]
    BY ReqType DEF Regenerate
<1>4. overtaken' \subseteq Socks /\ abandoned' \subseteq Sids
    BY DEF Regenerate, TypeOK, Handshaking, Living
<1>5. TypeOK'
    BY <1>1, <1>3, <1>4 DEF TypeOK, Regenerate, socketVars, Req, ReqKinds
<1>6. Authenticated'
    BY <1>1, <1>2 DEF Authenticated, Regenerate, socketVars, Joined, SessionKinds
<1> QED
    BY <1>5, <1>6

LEMMA TypedEstablish ==
    ASSUME TypeOK, Authenticated, NEW r \in Reqs, Establish(r)
    PROVE  TypeOK' /\ Authenticated'
<1>1. issued' = issued + 1 /\ issued' \in NBrowsers .. MaxSids /\ issued' \in Sids
    BY Numbers DEF Establish, TypeOK, Sids
<1>2. req' = [req EXCEPT ![r] = Done] /\ req' \in [Reqs -> Req]
    BY ReqType DEF Establish
<1>3. store' \in [Sids -> Users \cup {NoUser}]
    <2>1. req[r].user \in Users \cup {NoUser}
        BY ReqType DEF Req
    <2> QED
        BY <2>1, ReqType DEF Establish
<1>4. jar' \in [Browsers -> Sids \cup {None}]
    BY <1>1, ReqType DEF Establish
<1>5. TypeOK'
    BY <1>1, <1>2, <1>3, <1>4 DEF TypeOK, Establish, socketVars, history, Req, ReqKinds
<1>6. Authenticated'
    BY <1>2, ReqType DEF Authenticated, Establish, socketVars, Joined, Done, SessionKinds
<1> QED
    BY <1>5, <1>6

LEMMA TypedSave ==
    ASSUME TypeOK, Authenticated, NEW r \in Reqs, Save(r)
    PROVE  TypeOK' /\ Authenticated'
<1>1. req' = [req EXCEPT ![r] = Done] /\ req' \in [Reqs -> Req]
    BY ReqType DEF Save
<1>2. req[r].user \in Users \cup {NoUser} /\ req[r].sid \in Sids
    BY ReqType DEF Req, Save, At, Authenticated, SessionKinds
<1>3. store' \in [Sids -> Users \cup {NoUser}] /\ jar' \in [Browsers -> Sids \cup {None}]
    BY <1>2, ReqType DEF Save
<1>4. TypeOK'
    BY <1>1, <1>3 DEF TypeOK, Save, socketVars, Req, ReqKinds
<1>5. Authenticated'
    BY <1>1, ReqType DEF Authenticated, Save, socketVars, Joined, Done, SessionKinds
<1> QED
    BY <1>4, <1>5

\* What a request that destroys its session becomes.
LEMMA DestroyReq ==
    ASSUME TypeOK, Authenticated, NEW r \in Reqs, Destroy(r)
    PROVE  /\ req[r].kind \in {"logout", "erase"} /\ req[r].sid \in Sids
           /\ req' \in [Reqs -> Req]
           /\ \A q \in Reqs :
                 \/ req'[q] = Done
                 \/ /\ req'[q].kind = req[q].kind /\ req'[q].sid = req[q].sid
                    /\ req'[q].user = req[q].user
<1>1. req[r].kind \in {"logout", "erase"} /\ req[r].sid \in Sids
    BY ReqType DEF Destroy, At, Authenticated, SessionKinds, Req
<1> DEFINE next == IF req[r].kind = "logout" THEN [req[r] EXCEPT !.pc = "destroyed"] ELSE Done
<1>2. req' = [req EXCEPT ![r] = next]
    BY DEF Destroy
<1>3. /\ next \in Req
      /\ \/ next = Done
         \/ next.kind = req[r].kind /\ next.sid = req[r].sid /\ next.user = req[r].user
    BY ReqType DEF Req
<1> HIDE DEF next
<1>4. req' \in [Reqs -> Req] /\ req'[r] = next /\ \A q \in Reqs : q # r => req'[q] = req[q]
    BY <1>2, <1>3, ReqType
<1> QED
    BY <1>1, <1>3, <1>4

LEMMA TypedDestroy ==
    ASSUME TypeOK, Authenticated, NEW r \in Reqs, Destroy(r)
    PROVE  TypeOK' /\ Authenticated'
<1>1. store' \in [Sids -> Users \cup {NoUser}]
    BY DestroyReq, ReqType DEF Destroy
<1>2. overtaken' \subseteq Socks /\ abandoned' \subseteq Sids
    BY DEF Destroy, TypeOK, Handshaking, Living
<1>3. TypeOK'
    BY <1>1, <1>2, DestroyReq DEF TypeOK, Destroy, socketVars, Req, ReqKinds
<1>4. ASSUME NEW q \in Reqs, req'[q].kind \in SessionKinds
      PROVE  req'[q].user # NoUser /\ req'[q].sid # None
    <2>1. req'[q] # Done
        BY <1>4 DEF Done, SessionKinds
    <2>2. req'[q].kind = req[q].kind /\ req'[q].sid = req[q].sid /\ req'[q].user = req[q].user
        BY <2>1, DestroyReq
    <2> QED
        BY <1>4, <2>2 DEF Authenticated
<1>5. Authenticated'
    BY <1>4 DEF Authenticated, Destroy, socketVars, Joined
<1> QED
    BY <1>3, <1>5

\* The sockets a logout ends are closed, the others stay as they are.
LEMMA RevokeSock ==
    ASSUME TypeOK, Authenticated, NEW r \in Reqs, Revoke(r)
    PROVE  /\ sock' \in [Socks -> Sock]
           /\ \A s \in Socks : sock'[s] = IF s \in RoomOf(r) THEN Closed ELSE sock[s]
           /\ Joined(sock') = Joined(sock) \ RoomOf(r)
           /\ inbox' \in [Socks -> Seq(Event)]
           /\ \A s \in Socks :
                 inbox'[s] = IF s \in RoomOf(r) /\ sock[s].phase = "open"
                             THEN Send(inbox[s], Notice("kicked"))
                             ELSE IF RoomOf(r) = {} THEN inbox[s] ELSE Broadcast(sock')[s]
<1>1. \A s \in Socks : Closed \in Sock /\ sock[s] \in Sock
    BY SockType DEF Closed, Sock, Phases
<1> DEFINE k == [s \in Socks |-> IF s \in RoomOf(r) THEN Closed ELSE sock[s]]
<1>2. sock' = k
    BY DEF Revoke, DisconnectUser
<1>3. k \in [Socks -> Sock]
    BY <1>1
<1>4. Joined(k) = Joined(sock) \ RoomOf(r)
    BY DEF Joined, Closed
<1>5. \A s \in Joined(k) : k[s].user # NoUser
    BY <1>4 DEF Authenticated, Joined, Closed
<1>6. Broadcast(k) \in [Socks -> Seq(Event)]
    BY <1>3, <1>5, BroadcastType
<1>7. \A s \in Socks : Send(inbox[s], Notice("kicked")) \in Seq(Event) /\ inbox[s] \in Seq(Event)
    BY Notices, SendType DEF TypeOK
<1>8. inbox' = [s \in Socks |->
             IF s \in RoomOf(r) /\ sock[s].phase = "open" THEN Send(inbox[s], Notice("kicked"))
             ELSE IF RoomOf(r) = {} THEN inbox[s]
             ELSE Broadcast(k)[s]]
    BY DEF Revoke, DisconnectUser
<1> HIDE DEF k
<1>9. inbox' \in [Socks -> Seq(Event)]
    BY <1>6, <1>7, <1>8
<1>10. \A s \in Socks : k[s] = IF s \in RoomOf(r) THEN Closed ELSE sock[s]
    BY DEF k
<1> QED
    BY <1>2, <1>3, <1>4, <1>8, <1>9, <1>10

LEMMA TypedRevoke ==
    ASSUME TypeOK, Authenticated, NEW r \in Reqs, Revoke(r)
    PROVE  TypeOK' /\ Authenticated'
<1>1. req' = [req EXCEPT ![r] = Done] /\ req' \in [Reqs -> Req]
    BY ReqType DEF Revoke
<1>2. req[r].sid \in Sids
    BY ReqType DEF Req, Revoke, At, Authenticated, SessionKinds
<1>3. jar' \in [Browsers -> Sids \cup {None}] /\ loggedOut' \subseteq Sids
    BY <1>2, ReqType DEF Revoke, TypeOK
<1>4. TypeOK'
    BY <1>1, <1>3, RevokeSock DEF TypeOK, Revoke, Req, ReqKinds, Sock
<1>5. \A s \in Joined(sock') : sock'[s].user # NoUser
    BY RevokeSock DEF Authenticated, Joined
<1>6. \A s \in Socks : sock'[s].user # NoUser => sock'[s].sid # None
    BY RevokeSock DEF Authenticated, Closed
<1>7. \A q \in Reqs : req'[q].kind \in SessionKinds => req'[q].user # NoUser /\ req'[q].sid # None
    BY <1>1, ReqType DEF Authenticated, SessionKinds, Done
<1> QED
    BY <1>4, <1>5, <1>6, <1>7 DEF Authenticated

LEMMA TypedStep ==
    ASSUME TypeOK, Authenticated, [Next]_vars
    PROVE  TypeOK' /\ Authenticated'
<1>1. CASE UNCHANGED vars
    BY <1>1 DEF vars, TypeOK, Authenticated, Joined
<1>2. CASE \E s \in Socks : Connect(s) \/ ServerNotices(s)
    BY <1>2, TypedConnect, TypedServerNotices
<1>3. CASE \E b \in Browsers : Handshake(b) \/ Deliver(b) \/ Drop(b) \/ Leave(b)
    BY <1>3, TypedHandshake, TypedDeliver, TypedDrop, TypedLeave
<1>4. CASE \E b \in Browsers : Login(b) \/ WithSession(b)
    BY <1>4, TypedStart
<1>5. CASE \E r \in Reqs : Regenerate(r) \/ Establish(r) \/ Save(r) \/ Destroy(r) \/ Revoke(r)
    BY <1>5, TypedRegenerate, TypedEstablish, TypedSave, TypedDestroy, TypedRevoke
<1> QED
    BY <1>1, <1>2, <1>3, <1>4, <1>5 DEF Next

\* Sessions, sockets, pages and requests always have the shape the code gives
\* them, and no socket is in the live set, no request behind requireAuth, without
\* an identity (realtime/index.ts, lib/session.ts).
THEOREM TypeCorrect == Spec => []TypeOK
<1>1. Init => TypeOK /\ Authenticated
    BY TypedInit
<1>2. (TypeOK /\ Authenticated) /\ [Next]_vars => (TypeOK /\ Authenticated)'
    BY TypedStep
<1> QED
    BY <1>1, <1>2, PTL DEF Spec

-----------------------------------------------------------------------------
(* Sessions.  The step that puts an identity under a session id is a       *)
(* sign-in, and it takes an id of its own; every other one copies an       *)
(* identity the id is already known by.                                    *)

LEMMA SessionInit == Init => Sessions
<1> SUFFICES ASSUME Init PROVE Sessions
    OBVIOUS
<1>1. PICK who \in [Browsers -> Users] :
          store = [i \in Sids |-> IF i \in Browsers THEN who[i] ELSE NoUser]
    BY DEF Init
<1>2. ASSUME NEW i \in Sids, NEW u \in Users, Known(i, u)
      PROVE  store[i] = u
    BY <1>2, NoUserAssumption DEF Known, Init, SessionKinds
<1>3. OneOwner
    BY <1>2 DEF OneOwner
<1>4. \A i \in Sids : \A u \in Users : Known(i, u) => i <= issued
    BY <1>1, <1>2, NoUserAssumption, Numbers DEF Init, Browsers, Sids
<1>5. IssuedOnly
    BY <1>4 DEF IssuedOnly, Init
<1>6. HandshakesTracked /\ LoggedOutGone /\ OnlyRacersOutlive
    BY DEF Init, HandshakesTracked, LoggedOutGone, OnlyRacersOutlive
<1> QED
    BY <1>3, <1>5, <1>6 DEF Sessions

\* A step that makes no id known by anyone new keeps every id of one account.
LEMMA OwnersKept ==
    ASSUME OneOwner, IssuedOnly, issued' = issued,
           \A i \in Sids : \A u \in Users : Known(i, u)' => Known(i, u)
    PROVE  OneOwner' /\ \A i \in Sids : \A u \in Users : Known(i, u)' => i <= issued'
BY DEF OneOwner, IssuedOnly

\* A socket or request that only changes its phase, or forgets what it was of,
\* makes no id known by anyone new.
LEMMA KnownShrinks ==
    ASSUME store' = store,
           \A s \in Socks : \/ sock'[s].user = NoUser
                            \/ sock'[s].sid = sock[s].sid /\ sock'[s].user = sock[s].user,
           \A r \in Reqs : \/ req'[r].kind \notin SessionKinds
                           \/ /\ req'[r].kind = req[r].kind /\ req'[r].sid = req[r].sid
                              /\ req'[r].user = req[r].user
    PROVE  \A i \in Sids : \A u \in Users : Known(i, u)' => Known(i, u)
BY NoUserAssumption DEF Known

LEMMA SessionConnect ==
    ASSUME TypeOK, Authenticated, Sessions, NEW s \in Socks, Connect(s)
    PROVE  Sessions'
<1>1. store' = store /\ issued' = issued /\ req' = req
      /\ loggedOut' = loggedOut /\ overtaken' = overtaken
    BY DEF Connect, sessionVars, requestVars, history
<1>2. /\ \A t \in Socks : t # s => sock'[t] = sock[t]
      /\ \/ /\ Authorized(s) /\ sock'[s].phase = "open"
            /\ sock'[s].sid = sock[s].sid /\ sock'[s].user = sock[s].user
         \/ sock'[s] = Closed
    BY SockType DEF Connect, Sock
<1>3. \A i \in Sids : \A u \in Users : Known(i, u)' => Known(i, u)
    BY <1>1, <1>2, KnownShrinks DEF Closed
<1>4. OneOwner' /\ IssuedOnly'
    BY <1>1, <1>3, OwnersKept DEF Sessions, IssuedOnly
<1>5. HandshakesTracked' /\ LoggedOutGone'
    BY <1>1, <1>2 DEF Sessions, HandshakesTracked, LoggedOutGone, Closed
<1>6. OnlyRacersOutlive'
    <2>1. ASSUME sock'[s].phase = "open", sock'[s].sid \in loggedOut PROVE s \in overtaken
        BY <1>2, <2>1 DEF Sessions, HandshakesTracked, LoggedOutGone, Connect, Authorized, Closed
    <2> QED
        BY <1>1, <1>2, <2>1 DEF Sessions, OnlyRacersOutlive
<1> QED
    BY <1>4, <1>5, <1>6 DEF Sessions

\* A step that changes no session, and of sockets only that one dies or closes.
LEMMA SocketsOnly ==
    ASSUME Sessions, UNCHANGED <<store, issued, req, loggedOut, overtaken>>,
           \A s \in Socks :
              \/ sock'[s] = sock[s]
              \/ sock'[s] = Closed
              \/ /\ sock[s].phase = "open" /\ sock'[s].phase = "dead"
                 /\ sock'[s].sid = sock[s].sid /\ sock'[s].user = sock[s].user
    PROVE  Sessions'
<1>1. \A i \in Sids : \A u \in Users : Known(i, u)' => Known(i, u)
    BY KnownShrinks DEF Closed
<1>2. OneOwner' /\ IssuedOnly'
    BY <1>1, OwnersKept DEF Sessions, IssuedOnly
<1>3. HandshakesTracked' /\ LoggedOutGone'
    BY DEF Sessions, HandshakesTracked, LoggedOutGone, Closed
<1>4. OnlyRacersOutlive'
    BY DEF Sessions, OnlyRacersOutlive, Closed
<1> QED
    BY <1>2, <1>3, <1>4 DEF Sessions

LEMMA SessionServerNotices ==
    ASSUME TypeOK, Sessions, NEW s \in Socks, ServerNotices(s)
    PROVE  Sessions'
<1>1. \A t \in Socks : sock'[t] = sock[t] \/ sock'[t] = Closed
    BY SockType DEF ServerNotices
<1> QED
    BY <1>1, SocketsOnly DEF ServerNotices, sessionVars, requestVars, history

LEMMA SessionDrop ==
    ASSUME TypeOK, Sessions, NEW b \in Browsers, Drop(b)
    PROVE  Sessions'
<1>1. \A t \in Socks :
          \/ sock'[t] = sock[t]
          \/ /\ sock[t].phase = "open" /\ sock'[t].phase = "dead"
             /\ sock'[t].sid = sock[t].sid /\ sock'[t].user = sock[t].user
    BY SockType DEF Drop, Sock
<1> QED
    BY <1>1, SocketsOnly DEF Drop, sessionVars, requestVars, history

LEMMA SessionLeave ==
    ASSUME TypeOK, Sessions, NEW b \in Browsers, Leave(b)
    PROVE  Sessions'
<1>1. UNCHANGED <<store, issued, req, loggedOut, overtaken>>
    BY DEF Leave, sessionVars, requestVars, history
<1> QED
    BY <1>1, LeaveSock, SocketsOnly

LEMMA SessionDeliver ==
    ASSUME TypeOK, Sessions, NEW b \in Browsers, Deliver(b)
    PROVE  Sessions'
BY SocketsOnly DEF Deliver, sessionVars, requestVars, history

\* The new socket takes the identity of the session it found.
LEMMA SessionHandshake ==
    ASSUME TypeOK, Sessions, NEW b \in Browsers, Handshake(b)
    PROVE  Sessions'
<1>1. store' = store /\ issued' = issued /\ req' = req
      /\ loggedOut' = loggedOut /\ overtaken' = overtaken
    BY DEF Handshake, sessionVars, requestVars, history
<1> DEFINE n == opened + 1
           new == [phase |-> "handshake", sid |-> jar[b], user |-> Loaded(jar[b])]
<1>2. n \in Socks /\ sock' = [sock EXCEPT ![n] = new]
    BY Numbers DEF Handshake, TypeOK, Socks
<1>3. sock'[n] = new /\ \A t \in Socks : t # n => sock'[t] = sock[t]
    BY <1>2, SockType
<1>4. new.phase = "handshake" /\ (new.user # NoUser => store[new.sid] = new.user)
    BY DEF Loaded
<1> HIDE DEF new, n
<1>5. \A i \in Sids : \A u \in Users : Known(i, u)' => Known(i, u)
    BY <1>1, <1>2, <1>3, <1>4, NoUserAssumption DEF Known
<1>6. OneOwner' /\ IssuedOnly'
    BY <1>1, <1>5, OwnersKept DEF Sessions, IssuedOnly
<1>7. HandshakesTracked' /\ LoggedOutGone'
    BY <1>1, <1>2, <1>3, <1>4 DEF Sessions, HandshakesTracked, LoggedOutGone
<1>8. OnlyRacersOutlive'
    BY <1>1, <1>2, <1>3, <1>4 DEF Sessions, OnlyRacersOutlive
<1> QED
    BY <1>6, <1>7, <1>8 DEF Sessions

\* A request behind requireAuth takes the identity of the session it found.
LEMMA SessionStart ==
    ASSUME TypeOK, Sessions, NEW b \in Browsers, Login(b) \/ WithSession(b)
    PROVE  Sessions'
<1>1. PICK kind \in ReqKinds, user \in Users :
          /\ Start(b, kind, user)
          /\ kind \in SessionKinds => user = Loaded(jar[b]) /\ Loaded(jar[b]) # NoUser
    BY DEF Login, WithSession, Loaded, TypeOK, ReqKinds, SessionKinds
<1>2. store' = store /\ issued' = issued /\ sock' = sock
      /\ loggedOut' = loggedOut /\ overtaken' = overtaken
    BY <1>1 DEF Start, sessionVars, socketVars, history
<1> DEFINE n == sent + 1
           new == [kind |-> kind, pc |-> "loaded", browser |-> b, sid |-> jar[b], user |-> user]
<1>3. n \in Reqs /\ req' = [req EXCEPT ![n] = new]
    BY <1>1, Numbers DEF Start, TypeOK, Reqs
<1>4. req'[n] = new /\ \A q \in Reqs : q # n => req'[q] = req[q]
    BY <1>3, ReqType
<1>5. new.kind \in SessionKinds => store[new.sid] = new.user
    BY <1>1 DEF Loaded
<1> HIDE DEF new, n
<1>6. \A i \in Sids : \A u \in Users : Known(i, u)' => Known(i, u)
    BY <1>2, <1>3, <1>4, <1>5 DEF Known
<1>7. OneOwner' /\ IssuedOnly'
    BY <1>2, <1>6, OwnersKept DEF Sessions, IssuedOnly
<1>8. HandshakesTracked' /\ LoggedOutGone' /\ OnlyRacersOutlive'
    BY <1>2 DEF Sessions, HandshakesTracked, LoggedOutGone, OnlyRacersOutlive
<1> QED
    BY <1>7, <1>8 DEF Sessions

\* A sign-in begins: whoever is in a handshake on the session that goes is
\* overtaken.
LEMMA SessionRegenerate ==
    ASSUME TypeOK, Authenticated, Sessions, NEW r \in Reqs, Regenerate(r)
    PROVE  Sessions'
<1>1. /\ sock' = sock /\ issued' = issued /\ loggedOut' = loggedOut
      /\ overtaken' = overtaken \cup Handshaking(req[r].sid)
    BY DEF Regenerate, socketVars
<1>2. \A i \in Sids : store'[i] = IF i = req[r].sid THEN NoUser ELSE store[i]
    BY DEF Regenerate
<1>3. \A q \in Reqs : q # r => req'[q] = req[q]
    BY ReqType DEF Regenerate
<1>4. req'[r].kind = "login"
    BY ReqType DEF Regenerate, At, Req
<1>5. \A i \in Sids : \A u \in Users : Known(i, u)' => Known(i, u)
    BY <1>1, <1>2, <1>3, <1>4, NoUserAssumption DEF Known, SessionKinds
<1>6. OneOwner' /\ IssuedOnly'
    BY <1>1, <1>5, OwnersKept DEF Sessions, IssuedOnly
<1>7. ASSUME NEW s \in Socks, sock[s].user # NoUser PROVE sock[s].sid \in Sids
    BY <1>7, SockType DEF Authenticated, Sock
<1>8. HandshakesTracked'
    BY <1>1, <1>2, <1>7 DEF Sessions, HandshakesTracked, Handshaking
<1>9. LoggedOutGone' /\ OnlyRacersOutlive'
    BY <1>1, <1>2 DEF Sessions, LoggedOutGone, OnlyRacersOutlive, TypeOK
<1> QED
    BY <1>6, <1>8, <1>9 DEF Sessions

\* A sign-in ends: the identity is put under an id that nobody knows.
LEMMA SessionEstablish ==
    ASSUME TypeOK, Authenticated, Sessions, NEW r \in Reqs, Establish(r)
    PROVE  Sessions'
<1>1. sock' = sock /\ loggedOut' = loggedOut /\ overtaken' = overtaken
    BY DEF Establish, socketVars, history
<1>2. issued' = issued + 1 /\ issued \in Nat /\ issued' \in Sids /\ Sids \subseteq Nat
    BY Numbers DEF Establish, TypeOK, Sids
<1>3. \A i \in Sids : store'[i] = IF i = issued' THEN req[r].user ELSE store[i]
    BY <1>2, ReqType DEF Establish
<1>4. \A q \in Reqs : q # r => req'[q] = req[q]
    BY ReqType DEF Establish
<1>5. req'[r].kind \notin SessionKinds
    BY ReqType DEF Establish, Done, SessionKinds
<1>6. ASSUME NEW i \in Sids, NEW u \in Users, Known(i, u)'
      PROVE  Known(i, u) \/ (i = issued' /\ u = req[r].user)
    BY <1>1, <1>3, <1>4, <1>5, <1>6, NoUserAssumption DEF Known
<1>7. \A i \in Sids : \A u \in Users : Known(i, u) => i # issued'
    BY <1>2 DEF Sessions, IssuedOnly
<1>8. OneOwner'
    BY <1>6, <1>7 DEF Sessions, OneOwner
<1>9. IssuedOnly'
    <2>1. \A i \in Sids : \A u \in Users : Known(i, u)' => i <= issued'
        BY <1>2, <1>6 DEF Sessions, IssuedOnly
    <2>2. \A i \in loggedOut' : i <= issued'
        BY <1>1, <1>2 DEF Sessions, IssuedOnly, TypeOK
    <2> QED
        BY <2>1, <2>2 DEF IssuedOnly
<1>10. HandshakesTracked'
    <2> SUFFICES ASSUME NEW s \in Socks, sock[s].phase = "handshake", sock[s].user # NoUser,
                        s \notin overtaken
                 PROVE  store'[sock[s].sid] # NoUser
        BY <1>1 DEF HandshakesTracked
    <2>1. sock[s].sid \in Sids /\ sock[s].user \in Users
        BY SockType DEF Authenticated, Sock
    <2>2. Known(sock[s].sid, sock[s].user)
        BY DEF Known
    <2>3. sock[s].sid # issued'
        BY <1>7, <2>1, <2>2
    <2>4. store[sock[s].sid] # NoUser
        BY DEF Sessions, HandshakesTracked
    <2> QED
        BY <1>3, <2>1, <2>3, <2>4
<1>11. LoggedOutGone'
    <2> SUFFICES ASSUME NEW i \in loggedOut PROVE store'[i] = NoUser
        BY <1>1 DEF LoggedOutGone
    <2>1. i \in Sids /\ i <= issued
        BY DEF Sessions, IssuedOnly, TypeOK
    <2>2. i # issued' /\ store[i] = NoUser
        BY <1>2, <2>1 DEF Sessions, LoggedOutGone
    <2> QED
        BY <1>3, <2>1, <2>2
<1>12. OnlyRacersOutlive'
    BY <1>1 DEF Sessions, OnlyRacersOutlive
<1> QED
    BY <1>8, <1>9, <1>10, <1>11, <1>12 DEF Sessions

\* Renaming an account puts back the identity the request found.
LEMMA SessionSave ==
    ASSUME TypeOK, Authenticated, Sessions, NEW r \in Reqs, Save(r)
    PROVE  Sessions'
<1>1. /\ sock' = sock /\ overtaken' = overtaken /\ issued' = issued
      /\ loggedOut' = loggedOut \ {req[r].sid}
    BY DEF Save, socketVars
<1>2. req[r].kind \in SessionKinds /\ req[r].sid \in Sids /\ req[r].user # NoUser
    BY ReqType DEF Save, At, SessionKinds, Authenticated, Req
<1>3. \A i \in Sids : store'[i] = IF i = req[r].sid THEN req[r].user ELSE store[i]
    BY <1>2, ReqType DEF Save
<1>4. req'[r].kind \notin SessionKinds /\ \A q \in Reqs : q # r => req'[q] = req[q]
    BY ReqType DEF Save, Done, SessionKinds
<1>5. \A i \in Sids : \A u \in Users : Known(i, u)' => Known(i, u)
    BY <1>1, <1>2, <1>3, <1>4 DEF Known
<1>6. OneOwner' /\ IssuedOnly'
    BY <1>1, <1>5, OwnersKept DEF Sessions, IssuedOnly
<1>7. ASSUME NEW s \in Socks, sock[s].user # NoUser PROVE sock[s].sid \in Sids
    BY <1>7, SockType DEF Authenticated, Sock
<1>8. HandshakesTracked'
    BY <1>1, <1>2, <1>3, <1>7 DEF Sessions, HandshakesTracked
<1>9. LoggedOutGone' /\ OnlyRacersOutlive'
    BY <1>1, <1>3 DEF Sessions, LoggedOutGone, OnlyRacersOutlive, TypeOK
<1> QED
    BY <1>6, <1>8, <1>9 DEF Sessions

\* Whoever is in a handshake on the session that goes is overtaken.
LEMMA SessionDestroy ==
    ASSUME TypeOK, Authenticated, Sessions, NEW r \in Reqs, Destroy(r)
    PROVE  Sessions'
<1>1. /\ sock' = sock /\ issued' = issued /\ loggedOut' = loggedOut
      /\ overtaken' = overtaken \cup Handshaking(req[r].sid)
    BY DEF Destroy, socketVars
<1>2. \A i \in Sids : store'[i] = IF i = req[r].sid THEN NoUser ELSE store[i]
    BY ReqType DEF Destroy
<1>3. \A i \in Sids : \A u \in Users : Known(i, u)' => Known(i, u)
    BY <1>1, <1>2, DestroyReq, NoUserAssumption DEF Known, Done, SessionKinds
<1>4. OneOwner' /\ IssuedOnly'
    BY <1>1, <1>3, OwnersKept DEF Sessions, IssuedOnly
<1>5. ASSUME NEW s \in Socks, sock[s].user # NoUser PROVE sock[s].sid \in Sids
    BY <1>5, SockType DEF Authenticated, Sock
<1>6. HandshakesTracked'
    BY <1>1, <1>2, <1>5 DEF Sessions, HandshakesTracked, Handshaking
<1>7. LoggedOutGone' /\ OnlyRacersOutlive'
    BY <1>1, <1>2 DEF Sessions, LoggedOutGone, OnlyRacersOutlive, TypeOK
<1> QED
    BY <1>4, <1>6, <1>7 DEF Sessions

\* Every open socket on the session is of the account that logs out, so it is
\* among those the logout ends.
LEMMA SessionRevoke ==
    ASSUME TypeOK, Authenticated, Sessions, NEW r \in Reqs, Revoke(r)
    PROVE  Sessions'
<1>1. /\ store' = store /\ issued' = issued /\ overtaken' = overtaken
      /\ loggedOut' = IF store[req[r].sid] = NoUser THEN loggedOut \cup {req[r].sid} ELSE loggedOut
    BY DEF Revoke
<1>2. /\ req[r].kind \in SessionKinds /\ req[r].sid \in Sids
      /\ req[r].user \in Users
    BY ReqType DEF Revoke, At, SessionKinds, Authenticated, Req
<1>3. req'[r].kind \notin SessionKinds /\ \A q \in Reqs : q # r => req'[q] = req[q]
    BY ReqType DEF Revoke, Done, SessionKinds
<1>4. \A s \in Socks : sock'[s] = IF s \in RoomOf(r) THEN Closed ELSE sock[s]
    BY RevokeSock
<1>5. \A i \in Sids : \A u \in Users : Known(i, u)' => Known(i, u)
    BY <1>1, <1>3, <1>4, KnownShrinks DEF Closed
<1>6. Known(req[r].sid, req[r].user)
    BY <1>2 DEF Known
<1>7. OneOwner' /\ \A i \in Sids : \A u \in Users : Known(i, u)' => i <= issued'
    BY <1>1, <1>5, OwnersKept DEF Sessions
<1>8. IssuedOnly'
    BY <1>1, <1>2, <1>6, <1>7 DEF Sessions, IssuedOnly
<1>9. HandshakesTracked' /\ LoggedOutGone'
    BY <1>1, <1>4 DEF Sessions, HandshakesTracked, LoggedOutGone, Closed
<1>10. ASSUME NEW s \in Socks, sock'[s].phase = "open", sock'[s].sid = req[r].sid
       PROVE  FALSE
    <2>1. s \in Joined(sock) /\ s \notin RoomOf(r) /\ sock'[s] = sock[s]
        BY <1>4, <1>10 DEF Closed, Joined
    <2>2. sock[s].user \in Users
        BY <2>1, SockType DEF Authenticated, Joined, Sock
    <2>3. Known(req[r].sid, sock[s].user)
        BY <1>10, <2>1 DEF Known
    <2>4. sock[s].user = req[r].user
        BY <1>2, <1>6, <2>2, <2>3 DEF Sessions, OneOwner
    <2> QED
        BY <2>1, <2>4 DEF RoomOf
<1>11. OnlyRacersOutlive'
    BY <1>1, <1>4, <1>10 DEF Sessions, OnlyRacersOutlive, Closed
<1> QED
    BY <1>7, <1>8, <1>9, <1>11 DEF Sessions

LEMMA SessionStep ==
    ASSUME SessionInv, [Next]_vars
    PROVE  SessionInv'
<1> USE DEF SessionInv
<1>1. CASE UNCHANGED vars
    <2>1. Sessions'
        BY <1>1, SocketsOnly DEF vars
    <2> QED
        BY <2>1, TypedStep
<1>2. CASE \E s \in Socks : Connect(s) \/ ServerNotices(s)
    BY <1>2, TypedStep, SessionConnect, SessionServerNotices
<1>3. CASE \E b \in Browsers : Handshake(b) \/ Deliver(b) \/ Drop(b) \/ Leave(b)
    BY <1>3, TypedStep, SessionHandshake, SessionDeliver, SessionDrop, SessionLeave
<1>4. CASE \E b \in Browsers : Login(b) \/ WithSession(b)
    BY <1>4, TypedStep, SessionStart
<1>5. CASE \E r \in Reqs : Regenerate(r) \/ Establish(r) \/ Save(r) \/ Destroy(r) \/ Revoke(r)
    BY <1>5, TypedStep, SessionRegenerate, SessionEstablish, SessionSave, SessionDestroy, SessionRevoke
<1> QED
    BY <1>1, <1>2, <1>3, <1>4, <1>5 DEF Next

LEMMA SessionsAlways == Spec => []SessionInv
<1>1. Init => SessionInv
    BY TypedInit, SessionInit DEF SessionInv
<1> QED
    BY <1>1, SessionStep, PTL DEF Spec

-----------------------------------------------------------------------------
(* Why a session is gone under a socket.  A logout is the only step that    *)
(* may drop a reason, and it ends every socket that had none but it.        *)

\* A logout that is under way stays so until it ends.
LEMMA StillLoggingOut ==
    ASSUME TypeOK, Unsent, NEW i \in Sids, LoggingOut(i), [Next]_vars,
           \A r \in Reqs : req[r].sid = i => ~ Revoke(r)
    PROVE  LoggingOut(i)'
<1>1. PICK r \in Reqs : req[r].kind = "logout" /\ req[r].pc = "destroyed" /\ req[r].sid = i
    BY DEF LoggingOut, At
<1>2. r \in Nat /\ sent \in Nat /\ r <= sent
    BY <1>1, Numbers DEF Unsent, TypeOK, Reqs
<1>3. req'[r] = req[r]
    <2>1. CASE UNCHANGED vars
        BY <2>1 DEF vars
    <2>2. CASE \E s \in Socks : Connect(s) \/ ServerNotices(s)
        BY <2>2 DEF Connect, ServerNotices, requestVars
    <2>3. CASE \E b \in Browsers : Handshake(b) \/ Deliver(b) \/ Drop(b) \/ Leave(b)
        BY <2>3 DEF Handshake, Deliver, Drop, Leave, requestVars
    <2>4. CASE \E b \in Browsers : Login(b) \/ WithSession(b)
        <3>1. PICK new : req' = [req EXCEPT ![sent + 1] = new]
            BY <2>4 DEF Login, WithSession, Start
        <3> QED
            BY <1>2, <3>1, ReqType
    <2>5. CASE \E q \in Reqs : Regenerate(q) \/ Establish(q) \/ Save(q) \/ Destroy(q)
        BY <1>1, <2>5, ReqType DEF Regenerate, Establish, Save, Destroy, At
    <2>6. CASE \E q \in Reqs : Revoke(q)
        BY <1>1, <2>6, ReqType DEF Revoke
    <2> QED
        BY <2>1, <2>2, <2>3, <2>4, <2>5, <2>6 DEF Next
<1> QED
    BY <1>1, <1>3 DEF LoggingOut, At

LEMMA UnsentStep ==
    ASSUME TypeOK, Unsent, [Next]_vars
    PROVE  Unsent'
<1>1. sent \in Nat /\ Reqs \subseteq Nat
    BY Numbers DEF TypeOK, Reqs
<1>2. CASE UNCHANGED vars
    BY <1>2 DEF vars, Unsent
<1>3. CASE \E s \in Socks : Connect(s) \/ ServerNotices(s)
    BY <1>3 DEF Connect, ServerNotices, requestVars, Unsent
<1>4. CASE \E b \in Browsers : Handshake(b) \/ Deliver(b) \/ Drop(b) \/ Leave(b)
    BY <1>4 DEF Handshake, Deliver, Drop, Leave, requestVars, Unsent
<1>5. CASE \E b \in Browsers : Login(b) \/ WithSession(b)
    <2>1. PICK new : req' = [req EXCEPT ![sent + 1] = new] /\ sent' = sent + 1
        BY <1>5 DEF Login, WithSession, Start
    <2>2. \A q \in Reqs : q # sent + 1 => req'[q] = req[q]
        BY <2>1, ReqType
    <2> QED
        BY <1>1, <2>1, <2>2 DEF Unsent
<1>6. CASE \E r \in Reqs : Regenerate(r) \/ Establish(r) \/ Save(r) \/ Destroy(r) \/ Revoke(r)
    <2> PICK r \in Reqs : Regenerate(r) \/ Establish(r) \/ Save(r) \/ Destroy(r) \/ Revoke(r)
        BY <1>6
    <2>1. req[r].pc # "idle" /\ sent' = sent
        BY DEF Regenerate, Establish, Save, Destroy, Revoke, At
    <2>2. \A q \in Reqs : q # r => req'[q] = req[q]
        BY ReqType DEF Regenerate, Establish, Save, Destroy, Revoke
    <2> QED
        BY <2>1, <2>2 DEF Unsent
<1> QED
    BY <1>2, <1>3, <1>4, <1>5, <1>6 DEF Next

\* A joined socket has a session and an account.
LEMMA JoinedSid ==
    ASSUME TypeOK, Authenticated, NEW s \in Joined(sock)
    PROVE  s \in Socks /\ sock[s].sid \in Sids /\ sock[s].user \in Users
BY SockType DEF Authenticated, Joined, Sock

\* A step that leaves the sessions alone and lets nobody in.
LEMMA ReasonsKept ==
    ASSUME SessionInv, ReasonInv, [Next]_vars,
           UNCHANGED <<store, abandoned, overtaken>>,
           \A r \in Reqs : ~ Revoke(r),
           \A s \in Joined(sock') : s \in Joined(sock) /\ sock'[s].sid = sock[s].sid
    PROVE  JoinedTracked'
BY JoinedSid, StillLoggingOut DEF ReasonInv, JoinedTracked, SessionInv

LEMMA ReasonConnect ==
    ASSUME SessionInv, ReasonInv, NEW s \in Socks, Connect(s)
    PROVE  JoinedTracked'
<1>1. /\ UNCHANGED <<store, abandoned, overtaken, req>>
      /\ \A t \in Socks : t # s => sock'[t] = sock[t]
      /\ \/ /\ sock[s].phase = "handshake" /\ sock[s].user # NoUser
            /\ sock'[s].sid = sock[s].sid
         \/ sock'[s].phase = "closed"
    BY SockType DEF SessionInv, Connect, Authorized, Closed, Sock, sessionVars, requestVars, history
<1>2. \A i : LoggingOut(i)' <=> LoggingOut(i)
    BY <1>1 DEF LoggingOut, At
<1>3. ASSUME s \in Joined(sock')
      PROVE  store[sock[s].sid] # NoUser \/ s \in overtaken
    BY <1>1, <1>3 DEF SessionInv, Sessions, HandshakesTracked, Joined
<1>4. \A t \in Joined(sock') : t = s \/ t \in Joined(sock)
    BY <1>1 DEF Joined
<1>5. s \in Joined(sock') => sock'[s].sid = sock[s].sid
    BY <1>1 DEF Joined
<1> QED
    BY <1>1, <1>2, <1>3, <1>4, <1>5 DEF ReasonInv, JoinedTracked, Joined

\* A sign-in over a session, or the removal of its account.
LEMMA ReasonAbandon ==
    ASSUME SessionInv, ReasonInv, [Next]_vars, NEW r \in Reqs, sock' = sock,
           \A q \in Reqs : ~ Revoke(q),
           \A i \in Sids : store'[i] = IF i = req[r].sid THEN NoUser ELSE store[i],
           overtaken' = overtaken \cup Handshaking(req[r].sid),
           abandoned' = abandoned \cup Living(req[r].sid)
    PROVE  JoinedTracked'
<1> SUFFICES ASSUME NEW s \in Joined(sock), store'[sock[s].sid] = NoUser
             PROVE  sock[s].sid \in abandoned' \/ s \in overtaken' \/ LoggingOut(sock[s].sid)'
    BY DEF JoinedTracked
<1>1. sock[s].sid \in Sids
    BY JoinedSid DEF SessionInv
<1>2. CASE store[sock[s].sid] # NoUser
    BY <1>1, <1>2 DEF Living
<1>3. CASE store[sock[s].sid] = NoUser
    BY <1>1, <1>3, StillLoggingOut DEF ReasonInv, JoinedTracked, SessionInv
<1> QED
    BY <1>2, <1>3

LEMMA ReasonDestroy ==
    ASSUME SessionInv, ReasonInv, NEW r \in Reqs, Destroy(r), \A q \in Reqs : ~ Revoke(q)
    PROVE  JoinedTracked'
<1>1. [Next]_vars
    BY DEF Next
<1>2. \A i \in Sids : store'[i] = IF i = req[r].sid THEN NoUser ELSE store[i]
    BY ReqType DEF Destroy, SessionInv
<1>3. sock' = sock /\ overtaken' = overtaken \cup Handshaking(req[r].sid)
    BY DEF Destroy, socketVars
<1>4. CASE req[r].kind = "erase"
    <2>1. abandoned' = abandoned \cup Living(req[r].sid)
        BY <1>4 DEF Destroy
    <2> QED
        BY <1>1, <1>2, <1>3, <2>1, ReasonAbandon
<1>5. CASE req[r].kind = "logout"
    <2>1. /\ req'[r].kind = "logout" /\ req'[r].pc = "destroyed"
          /\ req'[r].sid = req[r].sid
        BY <1>5, ReqType DEF Destroy, SessionInv, Req
    <2>2. abandoned' = abandoned
        BY <1>5 DEF Destroy
    <2>3. ASSUME NEW s \in Joined(sock), store'[sock[s].sid] = NoUser
          PROVE  sock[s].sid \in abandoned' \/ s \in overtaken' \/ LoggingOut(sock[s].sid)'
        <3>1. sock[s].sid \in Sids
            BY JoinedSid DEF SessionInv
        <3>2. CASE sock[s].sid = req[r].sid
            BY <1>3, <2>1, <3>2 DEF LoggingOut, At
        <3>3. CASE sock[s].sid # req[r].sid
            BY <1>1, <1>2, <1>3, <2>2, <2>3, <3>1, <3>3, StillLoggingOut
               DEF ReasonInv, JoinedTracked, SessionInv
        <3> QED
            BY <3>2, <3>3
    <2> QED
        BY <1>3, <2>3 DEF JoinedTracked
<1> QED
    BY <1>4, <1>5 DEF Destroy, At

\* A sign-in takes an id no socket has; a save puts an identity back.
LEMMA ReasonEstablish ==
    ASSUME SessionInv, ReasonInv, NEW r \in Reqs, Establish(r), \A q \in Reqs : ~ Revoke(q)
    PROVE  JoinedTracked'
<1>1. [Next]_vars
    BY DEF Next
<1>2. sock' = sock /\ abandoned' = abandoned /\ overtaken' = overtaken
    BY DEF Establish, socketVars, history
<1>3. issued' = issued + 1 /\ issued \in Nat /\ Sids \subseteq Nat
    BY Numbers DEF Establish, SessionInv, TypeOK, Sids
<1>4. ASSUME NEW s \in Joined(sock) PROVE store'[sock[s].sid] = store[sock[s].sid]
    <2>1. sock[s].sid \in Sids /\ Known(sock[s].sid, sock[s].user) /\ sock[s].user \in Users
        BY JoinedSid DEF SessionInv, Known
    <2>2. sock[s].sid # issued'
        BY <1>3, <2>1 DEF SessionInv, Sessions, IssuedOnly
    <2> QED
        BY <2>1, <2>2, ReqType DEF Establish, SessionInv
<1> QED
    BY <1>1, <1>2, <1>4, JoinedSid, StillLoggingOut DEF ReasonInv, JoinedTracked, SessionInv

LEMMA ReasonSave ==
    ASSUME SessionInv, ReasonInv, NEW r \in Reqs, Save(r), \A q \in Reqs : ~ Revoke(q)
    PROVE  JoinedTracked'
<1>1. [Next]_vars
    BY DEF Next
<1>2. sock' = sock /\ abandoned' = abandoned \ {req[r].sid} /\ overtaken' = overtaken
    BY DEF Save, socketVars
<1>3. req[r].user # NoUser
    BY ReqType DEF Save, At, SessionKinds, SessionInv, Authenticated
<1>4. ASSUME NEW s \in Joined(sock), store'[sock[s].sid] = NoUser
      PROVE  sock[s].sid # req[r].sid /\ store[sock[s].sid] = NoUser
    BY <1>3, <1>4, JoinedSid, ReqType DEF Save, SessionInv
<1> QED
    BY <1>1, <1>2, <1>4, JoinedSid, StillLoggingOut DEF ReasonInv, JoinedTracked, SessionInv

\* Whoever is left after a logout is on another session.
LEMMA ReasonRevoke ==
    ASSUME SessionInv, ReasonInv, NEW r \in Reqs, Revoke(r)
    PROVE  JoinedTracked'
<1>1. /\ store' = store /\ overtaken' = overtaken /\ abandoned' = abandoned \ {req[r].sid}
      /\ req' = [req EXCEPT ![r] = Done]
    BY DEF Revoke
<1>2. req[r].sid \in Sids /\ req[r].user \in Users /\ Known(req[r].sid, req[r].user)
    BY ReqType DEF Revoke, At, SessionKinds, SessionInv, Authenticated, Req, Known
<1>3. ASSUME NEW s \in Joined(sock')
      PROVE  s \in Joined(sock) /\ s \notin RoomOf(r) /\ sock'[s] = sock[s]
    BY <1>3, RevokeSock DEF Joined, SessionInv
<1>4. ASSUME NEW s \in Joined(sock') PROVE sock[s].sid # req[r].sid
    <2>1. s \in Joined(sock) /\ s \notin RoomOf(r)
        BY <1>3
    <2>2. sock[s].user \in Users /\ Known(sock[s].sid, sock[s].user)
        BY <2>1, JoinedSid DEF SessionInv, Known
    <2>3. sock[s].user # req[r].user
        BY <2>1 DEF RoomOf
    <2> QED
        BY <1>2, <2>2, <2>3 DEF SessionInv, Sessions, OneOwner
<1>5. ASSUME NEW i, i # req[r].sid, LoggingOut(i) PROVE LoggingOut(i)'
    <2>1. PICK q \in Reqs : At(q, "logout", "destroyed") /\ req[q].sid = i
        BY <1>5 DEF LoggingOut
    <2>2. req'[q] = req[q]
        BY <1>1, <1>5, <2>1, ReqType DEF SessionInv
    <2> QED
        BY <2>1, <2>2 DEF LoggingOut, At
<1> QED
    BY <1>1, <1>3, <1>4, <1>5 DEF ReasonInv, JoinedTracked

LEMMA ReasonStep ==
    ASSUME SessionInv, ReasonInv, [Next]_vars
    PROVE  ReasonInv'
<1>1. Unsent'
    BY UnsentStep DEF SessionInv, ReasonInv
<1>2. ASSUME NEW r \in Reqs, Revoke(r) PROVE JoinedTracked'
    BY <1>2, ReasonRevoke
<1>3. ASSUME \A r \in Reqs : ~ Revoke(r) PROVE JoinedTracked'
    <2>1. CASE UNCHANGED vars
        BY <1>3, <2>1, ReasonsKept DEF vars
    <2>2. CASE \E s \in Socks : Connect(s)
        BY <2>2, ReasonConnect
    <2>3. CASE \E s \in Socks : ServerNotices(s)
        <3>1. \A s \in Joined(sock') : s \in Joined(sock) /\ sock'[s] = sock[s]
            BY <2>3, SockType DEF ServerNotices, Joined, Closed, SessionInv
        <3> QED
            BY <1>3, <2>3, <3>1, ReasonsKept DEF ServerNotices, sessionVars, history
    <2>4. CASE \E b \in Browsers : Handshake(b)
        <3>1. \A s \in Joined(sock') : s \in Joined(sock) /\ sock'[s] = sock[s]
            BY <2>4, SockType DEF Handshake, Joined, SessionInv
        <3> QED
            BY <1>3, <2>4, <3>1, ReasonsKept DEF Handshake, sessionVars, history
    <2>5. CASE \E b \in Browsers : Deliver(b)
        BY <1>3, <2>5, ReasonsKept DEF Deliver, sessionVars, history
    <2>6. CASE \E b \in Browsers : Drop(b)
        <3>1. \A s \in Joined(sock') : s \in Joined(sock) /\ sock'[s].sid = sock[s].sid
            BY <2>6, SockType DEF Drop, Joined, SessionInv, Sock
        <3> QED
            BY <1>3, <2>6, <3>1, ReasonsKept DEF Drop, sessionVars, history
    <2>7. CASE \E b \in Browsers : Leave(b)
        <3>1. \A s \in Joined(sock') : s \in Joined(sock) /\ sock'[s].sid = sock[s].sid
            BY <2>7, LeaveSock DEF Joined, SessionInv, Closed
        <3> QED
            BY <1>3, <2>7, <3>1, ReasonsKept DEF Leave, sessionVars, history
    <2>8. CASE \E b \in Browsers : Login(b) \/ WithSession(b)
        BY <1>3, <2>8, ReasonsKept DEF Login, WithSession, Start, sessionVars, socketVars, history
    <2>9. CASE \E r \in Reqs : Regenerate(r)
        <3> PICK r \in Reqs : Regenerate(r)
            BY <2>9
        <3>1. \A i \in Sids : store'[i] = IF i = req[r].sid THEN NoUser ELSE store[i]
            BY DEF Regenerate
        <3> QED
            BY <1>3, <3>1, ReasonAbandon DEF Regenerate, socketVars
    <2>10. CASE \E r \in Reqs : Establish(r) \/ Save(r) \/ Destroy(r)
        BY <1>3, <2>10, ReasonEstablish, ReasonSave, ReasonDestroy
    <2> QED
        BY <1>3, <2>1, <2>2, <2>3, <2>4, <2>5, <2>6, <2>7, <2>8, <2>9, <2>10 DEF Next
<1> QED
    BY <1>1, <1>2, <1>3 DEF ReasonInv

\* A socket speaks for the account its session is of, because whatever sign-ins,
\* renames and logouts do to a session id, everyone who knows the id knows it by
\* the same account (auth.ts:73-75, 109-115); and it outlives its session only
\* for one of the reasons named there (auth.ts:112, 124-130, users.ts:51).
THEOREM SpeaksForSession == Spec => []SocketSpeaksForSession
<1>1. Init => ReasonInv
    BY DEF Init, ReasonInv, JoinedTracked, Joined, Unsent
<1>2. SessionInv /\ ReasonInv => SocketSpeaksForSession
    <2> SUFFICES ASSUME SessionInv, ReasonInv, NEW s \in Joined(sock)
                 PROVE  \/ store[sock[s].sid] = sock[s].user
                        \/ /\ store[sock[s].sid] = NoUser
                           /\ \/ sock[s].sid \in abandoned \/ s \in overtaken
                              \/ LoggingOut(sock[s].sid)
        BY DEF SocketSpeaksForSession
    <2>1. s \in Socks /\ sock[s].sid \in Sids /\ sock[s].user \in Users
        BY JoinedSid DEF SessionInv
    <2>2. CASE store[sock[s].sid] = NoUser
        BY <2>2 DEF ReasonInv, JoinedTracked
    <2>3. CASE store[sock[s].sid] # NoUser
        <3>1. store[sock[s].sid] \in Users
            BY <2>1, <2>3 DEF SessionInv, TypeOK
        <3>2. Known(sock[s].sid, sock[s].user) /\ Known(sock[s].sid, store[sock[s].sid])
            BY <2>1 DEF Known
        <3> QED
            BY <2>1, <3>1, <3>2 DEF SessionInv, Sessions, OneOwner
    <2> QED
        BY <2>2, <2>3
<1> QED
    BY <1>1, <1>2, SessionsAlways, ReasonStep, PTL DEF Spec

\* A finished logout leaves no open socket on the session it destroyed, except
\* one whose handshake the destruction overtook (auth.ts:126-130).
THEOREM RacersOnly == Spec => []OnlyRacersOutlive
<1>1. SessionInv => OnlyRacersOutlive
    BY DEF SessionInv, Sessions
<1> QED
    BY <1>1, SessionsAlways, PTL

-----------------------------------------------------------------------------
(* Presence.  Whatever changes who is joined also sends everyone open the   *)
(* new list, and it is the last one in each queue; the rest neither adds a  *)
(* list nor takes one away without showing it.                              *)

\* WillShow, for any queue and any list shown.
Shows(queue, shown, online) ==
    /\ Lists(queue) = {} => shown = online
    /\ \A i \in Lists(queue) :
          (\A j \in Lists(queue) : j <= i) => queue[i].online = online

\* The list sent last is the one that will be shown.
LEMMA SendShows ==
    ASSUME NEW q \in Seq(Event), NEW e \in Event, e.kind = "presence", NEW shown
    PROVE  Shows(Send(q, e), shown, e.online)
<1> DEFINE p == Send(q, e)
<1>1. CASE q # <<>> /\ q[Len(q)].kind = "presence"
    <2>1. Len(q) \in Nat \ {0} /\ DOMAIN q = 1 .. Len(q)
        BY <1>1, EmptySeq, LenProperties
    <2>2. p = [q EXCEPT ![Len(q)] = e]
        BY <1>1 DEF Send
    <2>3. DOMAIN p = 1 .. Len(q) /\ p[Len(q)] = e
        BY <2>1, <2>2
    <2> HIDE DEF p
    <2> QED
        BY <2>1, <2>3 DEF Shows, Lists, p
<1>2. CASE ~ (q # <<>> /\ q[Len(q)].kind = "presence")
    <2>1. p = Append(q, e)
        BY <1>2 DEF Send
    <2>2. Len(q) \in Nat /\ DOMAIN p = 1 .. Len(q) + 1 /\ p[Len(q) + 1] = e
        BY <2>1, AppendProperties, LenProperties
    <2> HIDE DEF p
    <2> QED
        BY <2>2 DEF Shows, Lists, p
<1> QED
    BY <1>1, <1>2

\* A page that takes the next event still ends with the same list.
LEMMA TailShows ==
    ASSUME NEW q \in Seq(Event), q # <<>>, NEW shown, NEW online, Shows(q, shown, online)
    PROVE  Shows(Tail(q), IF Head(q).kind = "presence" THEN Head(q).online ELSE shown, online)
<1> DEFINE p == Tail(q)
           now == IF Head(q).kind = "presence" THEN Head(q).online ELSE shown
<1>1. /\ Len(q) \in Nat \ {0} /\ DOMAIN q = 1 .. Len(q) /\ Head(q) = q[1]
      /\ DOMAIN p = 1 .. Len(q) - 1 /\ \A i \in DOMAIN p : p[i] = q[i + 1]
    BY EmptySeq, LenProperties, HeadTailProperties
<1> HIDE DEF p
<1>2. \A i \in Nat : i \in Lists(p) <=> i \in 1 .. Len(q) - 1 /\ i + 1 \in Lists(q)
    BY <1>1 DEF Lists
<1>3. Lists(p) \subseteq Nat /\ Lists(q) \subseteq Nat \ {0}
    BY <1>1 DEF Lists
<1>4. ASSUME Lists(p) = {} PROVE now = online
    <2>1. \A i \in Lists(q) : i = 1
        <3>1. ASSUME NEW i \in Lists(q), i # 1 PROVE FALSE
            <4>1. i - 1 \in 1 .. Len(q) - 1 /\ (i - 1) + 1 = i
                BY <1>1, <3>1 DEF Lists
            <4> QED
                BY <1>2, <1>4, <3>1, <4>1
        <3> QED
            BY <3>1
    <2>2. CASE Head(q).kind = "presence"
        <3>1. 1 \in Lists(q)
            BY <1>1, <2>2 DEF Lists
        <3> QED
            BY <1>1, <2>1, <2>2, <3>1 DEF Shows
    <2>3. CASE Head(q).kind # "presence"
        <3>1. Lists(q) = {}
            BY <1>1, <2>1, <2>3 DEF Lists
        <3> QED
            BY <2>3, <3>1 DEF Shows
    <2> QED
        BY <2>2, <2>3
<1>5. ASSUME NEW i \in Lists(p), \A j \in Lists(p) : j <= i PROVE p[i].online = online
    <2>1. i \in Nat /\ i \in 1 .. Len(q) - 1 /\ i + 1 \in Lists(q) /\ p[i] = q[i + 1]
        BY <1>1, <1>2, <1>3
    <2>2. ASSUME NEW j \in Lists(q) PROVE j <= i + 1
        <3>1. CASE j = 1
            BY <2>1, <3>1
        <3>2. CASE j # 1
            <4>1. j - 1 \in Nat /\ j - 1 \in 1 .. Len(q) - 1 /\ (j - 1) + 1 = j /\ j \in Nat
                BY <1>1, <3>2 DEF Lists
            <4>2. j - 1 <= i
                BY <1>2, <1>5, <4>1
            <4> QED
                BY <2>1, <4>1, <4>2
        <3> QED
            BY <3>1, <3>2
    <2> QED
        BY <2>1, <2>2 DEF Shows
<1> QED
    BY <1>4, <1>5 DEF Shows, p

\* A socket hears that it is in, and then who is.
LEMMA FirstList ==
    ASSUME NEW d \in Event, NEW e \in Event, d.kind = "connect", e.kind = "presence", NEW shown
    PROVE  Shows(<<d, e>>, shown, e.online)
<1>1. Lists(<<d, e>>) = {2}
    BY DEF Lists
<1> QED
    BY <1>1 DEF Shows

LEMMA OnlineSame ==
    ASSUME NEW k, NEW l, Joined(k) = Joined(l), \A s \in Joined(k) : k[s].user = l[s].user
    PROVE  OnlineIn(k) = OnlineIn(l)
BY DEF OnlineIn

\* PresenceCurrent, of one page.
PageCurrent(b) ==
    page[b].socket # None /\ sock[page[b].socket].phase = "open" => WillShow(b, OnlineIn(sock))

LEMMA EachPage == PresenceCurrent <=> \A b \in Browsers : PageCurrent(b)
BY DEF PresenceCurrent, PageCurrent

\* A step that changes neither who is joined nor what page b has or gets.
LEMMA PageKept ==
    ASSUME NEW b \in Browsers, PageCurrent(b), page'[b] = page[b], OnlineIn(sock') = OnlineIn(sock),
           page[b].socket # None /\ sock'[page[b].socket].phase = "open"
              => /\ sock[page[b].socket].phase = "open"
                 /\ inbox'[page[b].socket] = inbox[page[b].socket]
    PROVE  PageCurrent(b)'
BY DEF PageCurrent, WillShow

\* A step that tells the socket of page b who is joined now.
LEMMA PageTold ==
    ASSUME TypeOK, NEW b \in Browsers, page'[b] = page[b],
           sock' \in [Socks -> Sock], \A s \in Joined(sock') : sock'[s].user # NoUser,
           page[b].socket # None /\ sock'[page[b].socket].phase = "open"
              => inbox'[page[b].socket] = Send(inbox[page[b].socket], Presence(sock'))
    PROVE  PageCurrent(b)'
<1> SUFFICES ASSUME page[b].socket # None, sock'[page[b].socket].phase = "open"
             PROVE  Shows(inbox'[page[b].socket], page[b].online, OnlineIn(sock'))
    BY DEF PageCurrent, WillShow, Shows
<1>1. page[b].socket \in Socks /\ inbox[page[b].socket] \in Seq(Event)
    BY DEF TypeOK
<1>2. /\ Presence(sock') \in Event /\ Presence(sock').kind = "presence"
      /\ Presence(sock').online = OnlineIn(sock')
    BY PresenceType DEF Presence
<1> QED
    BY <1>1, <1>2, SendShows

LEMMA PresenceInit == Init => PresenceInv
<1> SUFFICES ASSUME Init PROVE PresenceInv
    OBVIOUS
<1>1. SocketsApart
    BY DEF Init, SocketsApart, Away, None
<1>2. PresenceCurrent
    BY DEF Init, PresenceCurrent, Away
<1> QED
    BY <1>1, <1>2 DEF PresenceInv

LEMMA PresenceConnect ==
    ASSUME TypeOK, Authenticated, PresenceInv, NEW s \in Socks, Connect(s)
    PROVE  PresenceInv'
<1>1. page' = page /\ opened' = opened /\ sock[s].phase = "handshake"
    BY DEF Connect
<1>2. sock \in [Socks -> Sock] /\ inbox \in [Socks -> Seq(Event)]
      /\ \A b \in Browsers : page[b].socket \in Socks \cup {None}
    BY SockType DEF TypeOK
<1>3. \A t \in Socks : t # s => sock'[t] = sock[t]
    BY <1>2 DEF Connect
<1>4. SocketsApart'
    BY <1>1, <1>3 DEF PresenceInv, SocketsApart
<1>5. CASE Authorized(s)
    <2> DEFINE k == [sock EXCEPT ![s].phase = "open"]
    <2>1. sock' = k /\ inbox' = [Broadcast(k) EXCEPT ![s] = <<Notice("connect"), Presence(k)>>]
        BY <1>5 DEF Connect
    <2>2. k \in [Socks -> Sock] /\ \A t \in Joined(k) : k[t].user # NoUser
        BY <1>2, <1>5 DEF Sock, Phases, Authenticated, Joined, Authorized
    <2> HIDE DEF k
    <2>3. /\ inbox'[s] = <<Notice("connect"), Presence(k)>>
          /\ \A t \in Socks : t # s /\ k[t].phase = "open" => inbox'[t] = Send(inbox[t], Presence(k))
        BY <2>1 DEF Broadcast
    <2>4. /\ Presence(k) \in Event /\ Presence(k).kind = "presence" /\ Presence(k).online = OnlineIn(k)
          /\ Notice("connect") \in Event /\ Notice("connect").kind = "connect"
        BY <2>2, PresenceType, Notices DEF Presence, Notice
    <2>5. ASSUME NEW b \in Browsers PROVE PageCurrent(b)'
        <3>1. CASE page[b].socket = s
            <4>1. Shows(inbox'[s], page[b].online, OnlineIn(k))
                BY <2>3, <2>4, FirstList
            <4> QED
                BY <1>1, <2>1, <3>1, <4>1 DEF PageCurrent, WillShow, Shows
        <3>2. CASE page[b].socket # s
            BY <1>1, <1>2, <2>1, <2>2, <2>3, <3>2, PageTold
        <3> QED
            BY <3>1, <3>2
    <2>6. PresenceCurrent'
        BY <2>5 DEF PresenceCurrent, PageCurrent
    <2> QED
        BY <1>4, <2>6 DEF PresenceInv
<1>6. CASE ~ Authorized(s)
    <2>1. sock' = [sock EXCEPT ![s] = Closed] /\ \A t \in Socks : t # s => inbox'[t] = inbox[t]
        BY <1>2, <1>6 DEF Connect
    <2>2. sock'[s].phase = "closed"
        BY <1>2, <2>1 DEF Closed
    <2>3. Joined(sock') = Joined(sock)
        BY <1>1, <1>3, <2>2 DEF Joined
    <2>4. OnlineIn(sock') = OnlineIn(sock)
        BY <1>1, <1>3, <2>3, OnlineSame DEF Joined
    <2>5. ASSUME NEW b \in Browsers PROVE PageCurrent(b)'
        BY <1>1, <1>2, <1>3, <2>1, <2>2, <2>4, PageKept, EachPage DEF PresenceInv
    <2>6. PresenceCurrent'
        BY <2>5 DEF PresenceCurrent, PageCurrent
    <2> QED
        BY <1>4, <2>6 DEF PresenceInv
<1> QED
    BY <1>5, <1>6

LEMMA PresenceServerNotices ==
    ASSUME TypeOK, Authenticated, PresenceInv, NEW s \in Socks, ServerNotices(s)
    PROVE  PresenceInv'
<1> DEFINE k == [sock EXCEPT ![s] = Closed]
<1>1. page' = page /\ opened' = opened /\ sock[s].phase = "dead" /\ sock' = k /\ inbox' = Broadcast(k)
    BY DEF ServerNotices
<1>2. k \in [Socks -> Sock] /\ \A t \in Socks : t # s => k[t] = sock[t]
    BY SockType DEF Sock, Closed, Phases
<1>3. \A t \in Joined(k) : k[t].user # NoUser
    BY SockType DEF Authenticated, Joined, Closed
<1> HIDE DEF k
<1>4. SocketsApart'
    BY <1>1, <1>2 DEF PresenceInv, SocketsApart
<1>5. ASSUME NEW b \in Browsers PROVE PageCurrent(b)'
    <2>1. page[b].socket # None /\ k[page[b].socket].phase = "open"
              => inbox'[page[b].socket] = Send(inbox[page[b].socket], Presence(k))
        BY <1>1 DEF Broadcast, TypeOK
    <2> QED
        BY <1>1, <1>2, <1>3, <2>1, PageTold
<1>6. PresenceCurrent'
    BY <1>5 DEF PresenceCurrent, PageCurrent
<1> QED
    BY <1>4, <1>6 DEF PresenceInv

LEMMA PresenceHandshake ==
    ASSUME TypeOK, PresenceInv, NEW b \in Browsers, Handshake(b)
    PROVE  PresenceInv'
<1> DEFINE n == opened + 1
<1>1. n \in Socks /\ opened' = n /\ opened \in Nat /\ Socks \subseteq Nat /\ n # None
    BY Numbers DEF Handshake, TypeOK, Socks
<1>2. \A t \in Socks : t # n => sock'[t] = sock[t]
    BY <1>1, SockType DEF Handshake
<1>3. sock'[n].phase = "handshake"
    BY <1>1, SockType DEF Handshake
<1>4. /\ \A c \in Browsers : c # b => page'[c] = page[c]
      /\ page'[b].socket = n
    BY <1>1, PageType DEF Handshake, Page
<1>5. \A c \in Browsers : page[c].socket \in Socks \cup {None} /\ page[c].socket <= opened
    BY PageType DEF Page, PresenceInv, SocketsApart
<1>6. sock[n].phase = "unused"
    BY <1>1 DEF PresenceInv, SocketsApart
<1>7. inbox' = inbox
    BY DEF Handshake
<1> HIDE DEF n
<1>8. ASSUME NEW c \in Browsers PROVE page[c].socket # n /\ page[c].socket \in Nat
    <2>1. n = opened + 1
        BY DEF n
    <2>2. page[c].socket \in Nat
        BY <1>1, <1>5 DEF None
    <2>3. page[c].socket <= opened
        BY <1>5
    <2> QED
        BY <1>1, <2>1, <2>2, <2>3
<1>9. SocketsApart'
    <2>1. n = opened + 1
        BY DEF n
    <2>2. \A c \in Browsers : page'[c].socket <= opened'
        BY <1>1, <1>4, <1>5, <1>8, <2>1
    <2>3. \A c, d \in Browsers : page'[c].socket = page'[d].socket /\ page'[c].socket # None => c = d
        BY <1>4, <1>8 DEF PresenceInv, SocketsApart
    <2>4. \A t \in Socks : t > opened' => sock'[t].phase = "unused"
        BY <1>1, <1>2, <2>1 DEF PresenceInv, SocketsApart
    <2> QED
        BY <2>2, <2>3, <2>4 DEF SocketsApart
<1>10. Joined(sock') = Joined(sock)
    BY <1>2, <1>3, <1>6 DEF Joined
<1>11. OnlineIn(sock') = OnlineIn(sock)
    BY <1>2, <1>3, <1>10, OnlineSame DEF Joined
<1>12. ASSUME NEW c \in Browsers PROVE PageCurrent(c)'
    <2>1. CASE c = b
        BY <1>3, <1>4, <2>1 DEF PageCurrent
    <2>2. CASE c # b
        BY <1>2, <1>4, <1>5, <1>7, <1>8, <1>11, <2>2, PageKept, EachPage DEF PresenceInv
    <2> QED
        BY <2>1, <2>2
<1>13. PresenceCurrent'
    BY <1>12 DEF PresenceCurrent, PageCurrent
<1> QED
    BY <1>9, <1>13 DEF PresenceInv

LEMMA PresenceDeliver ==
    ASSUME TypeOK, PresenceInv, NEW b \in Browsers, Deliver(b)
    PROVE  PresenceInv'
<1> DEFINE s == page[b].socket
           e == Head(inbox[s])
<1>1. s \in Socks /\ s # None /\ inbox[s] # <<>> /\ inbox[s] \in Seq(Event) /\ page[b] \in Page
    BY PageType DEF Deliver, TypeOK
<1>2. sock' = sock /\ opened' = opened
    BY DEF Deliver
<1>3. inbox'[s] = Tail(inbox[s]) /\ \A t \in Socks : t # s => inbox'[t] = inbox[t]
    BY <1>1 DEF Deliver, TypeOK
<1>4. page'[b] = Receive(b, e) /\ \A c \in Browsers : c # b => page'[c] = page[c]
    BY PageType DEF Deliver
<1>5. e \in Event
    BY <1>1, QueueTail
<1>6. /\ page'[b].socket \in {s, None}
      /\ page'[b].socket = s => page'[b].online = IF e.kind = "presence" THEN e.online ELSE page[b].online
    <2> HIDE DEF e
    <2>0. e.kind \in {"connect", "presence", "refused", "lost", "kicked"}
        BY <1>5 DEF Event
    <2>1. CASE e.kind = "connect"
        BY <1>4, <2>1 DEF Receive
    <2>2. CASE e.kind = "presence"
        <3>1. page'[b] = [page[b] EXCEPT !.online = e.online]
            BY <1>4, <2>2 DEF Receive
        <3> QED
            BY <1>1, <2>2, <3>1 DEF Page
    <2>3. CASE e.kind = "lost"
        <3>1. page'[b] = [page[b] EXCEPT !.socket = None]
            BY <1>4, <2>3 DEF Receive
        <3> QED
            BY <1>1, <3>1 DEF Page
    <2>4. CASE e.kind \in {"refused", "kicked"}
        <3>1. page'[b] = [page[b] EXCEPT !.socket = None, !.retry = FALSE]
            BY <1>4, <2>4 DEF Receive
        <3> QED
            BY <1>1, <3>1 DEF Page
    <2> QED
        BY <2>0, <2>1, <2>2, <2>3, <2>4
<1>7. SocketsApart'
    <2>1. opened \in Nat /\ \A c \in Browsers : page[c].socket <= opened
        BY DEF PresenceInv, SocketsApart, TypeOK
    <2>2. \A c \in Browsers : page'[c].socket = page[c].socket \/ page'[c].socket = None
        BY <1>4, <1>6
    <2>3. \A c \in Browsers : page'[c].socket <= opened
        BY <2>1, <2>2 DEF None
    <2>4. \A c, d \in Browsers : page'[c].socket = page'[d].socket /\ page'[c].socket # None => c = d
        BY <2>2 DEF PresenceInv, SocketsApart
    <2> QED
        BY <1>2, <2>3, <2>4 DEF PresenceInv, SocketsApart
<1>8. \A c \in Browsers : c # b => page[c].socket # s
    BY <1>1 DEF PresenceInv, SocketsApart
<1>9. ASSUME NEW c \in Browsers PROVE PageCurrent(c)'
    <2>1. CASE c = b
        <3> SUFFICES ASSUME page'[b].socket # None, sock[page'[b].socket].phase = "open"
                     PROVE  Shows(inbox'[s], page'[b].online, OnlineIn(sock))
            BY <1>2, <1>6, <2>1 DEF PageCurrent, WillShow, Shows
        <3>1. sock[s].phase = "open"
            BY <1>6
        <3>2. Shows(inbox[s], page[b].online, OnlineIn(sock))
            BY <1>1, <3>1 DEF PresenceInv, PresenceCurrent, WillShow, Shows
        <3>3. Shows(Tail(inbox[s]), IF e.kind = "presence" THEN e.online ELSE page[b].online,
                    OnlineIn(sock))
            BY <1>1, <3>2, TailShows
        <3> QED
            BY <1>3, <1>6, <3>3
    <2>2. CASE c # b
        BY <1>2, <1>3, <1>4, <1>8, <2>2, PageKept, EachPage, PageType DEF PresenceInv, Page
    <2> QED
        BY <2>1, <2>2
<1>10. PresenceCurrent'
    BY <1>9 DEF PresenceCurrent, PageCurrent
<1> QED
    BY <1>7, <1>10 DEF PresenceInv

LEMMA PresenceDrop ==
    ASSUME TypeOK, PresenceInv, NEW b \in Browsers, Drop(b)
    PROVE  PresenceInv'
<1> DEFINE s == page[b].socket
<1>1. s \in Socks /\ s # None /\ sock[s].phase = "open" /\ page' = page /\ opened' = opened
    BY DEF Drop, TypeOK
<1>2. sock'[s].phase = "dead" /\ sock'[s].user = sock[s].user
    BY <1>1, SockType DEF Drop, Sock
<1>3. \A t \in Socks : t # s => sock'[t] = sock[t] /\ inbox'[t] = inbox[t]
    BY <1>1, SockType DEF Drop, TypeOK
<1>4. SocketsApart'
    BY <1>1, <1>2, <1>3 DEF PresenceInv, SocketsApart
<1>5. Joined(sock') = Joined(sock)
    BY <1>1, <1>2, <1>3 DEF Joined
<1>6. OnlineIn(sock') = OnlineIn(sock)
    BY <1>2, <1>3, <1>5, OnlineSame DEF Joined
<1>7. ASSUME NEW c \in Browsers PROVE PageCurrent(c)'
    BY <1>1, <1>2, <1>3, <1>6, PageKept, EachPage, PageType DEF PresenceInv, Page
<1>8. PresenceCurrent'
    BY <1>7 DEF PresenceCurrent, PageCurrent
<1> QED
    BY <1>4, <1>8 DEF PresenceInv

LEMMA PresenceLeave ==
    ASSUME TypeOK, PresenceInv, NEW b \in Browsers, Leave(b)
    PROVE  PresenceInv'
<1>1. page'[b].socket = None /\ opened' = opened /\ \A c \in Browsers : c # b => page'[c] = page[c]
    BY PageType DEF Leave, Away
<1>2. \A t \in Socks : t # page[b].socket => sock'[t] = sock[t] /\ inbox'[t] = inbox[t]
    BY LeaveSock
<1>3. \A t \in Joined(sock) : sock'[t].user = sock[t].user
    BY LeaveSock DEF Joined, Closed
<1>4. OnlineIn(sock') = OnlineIn(sock)
    BY <1>3, LeaveSock, OnlineSame
<1>5. SocketsApart'
    <2>1. opened \in Nat /\ \A c \in Browsers : page'[c].socket <= opened
        BY <1>1 DEF PresenceInv, SocketsApart, TypeOK, None
    <2>2. \A c, d \in Browsers : page'[c].socket = page'[d].socket /\ page'[c].socket # None => c = d
        BY <1>1 DEF PresenceInv, SocketsApart
    <2>3. ASSUME NEW t \in Socks, t > opened PROVE sock'[t].phase = "unused"
        <3>1. t # page[b].socket
            BY <2>3, PageType DEF PresenceInv, SocketsApart, TypeOK, Socks, None
        <3> QED
            BY <1>2, <2>3, <3>1 DEF PresenceInv, SocketsApart
    <2> QED
        BY <1>1, <2>1, <2>2, <2>3 DEF SocketsApart
<1>6. ASSUME NEW c \in Browsers PROVE PageCurrent(c)'
    <2>1. CASE c = b
        BY <1>1, <2>1 DEF PageCurrent
    <2>2. CASE c # b
        <3>1. PageCurrent(c) /\ page[c].socket \in Socks \cup {None}
            BY EachPage, PageType DEF PresenceInv, Page
        <3>2. page[c].socket # None => page[c].socket # page[b].socket
            BY <2>2 DEF PresenceInv, SocketsApart
        <3> QED
            BY <1>1, <1>2, <1>4, <2>2, <3>1, <3>2, PageKept
    <2> QED
        BY <2>1, <2>2
<1>7. PresenceCurrent'
    BY <1>6 DEF PresenceCurrent, PageCurrent
<1> QED
    BY <1>5, <1>7 DEF PresenceInv

LEMMA PresenceRevoke ==
    ASSUME TypeOK, Authenticated, PresenceInv, NEW r \in Reqs, Revoke(r)
    PROVE  PresenceInv'
<1>1. page' = page /\ opened' = opened
    BY DEF Revoke
<1>2. \A s \in Socks : sock'[s] = IF s \in RoomOf(r) THEN Closed ELSE sock[s]
    BY RevokeSock
<1>3. \A s \in RoomOf(r) : s \in Socks /\ sock[s].phase # "unused" /\ sock'[s].phase = "closed"
    BY <1>2 DEF RoomOf, Joined, Closed
<1>4. SocketsApart'
    BY <1>1, <1>2, <1>3 DEF PresenceInv, SocketsApart
<1>5. ASSUME NEW b \in Browsers PROVE PageCurrent(b)'
    <2>1. page[b].socket \in Socks \cup {None} /\ PageCurrent(b)
        BY PageType, EachPage DEF Page, PresenceInv
    <2>2. CASE RoomOf(r) = {}
        <3>1. \A s \in Socks : sock'[s] = sock[s] /\ inbox'[s] = inbox[s]
            BY <1>2, <2>2, RevokeSock
        <3>2. OnlineIn(sock') = OnlineIn(sock)
            BY <3>1, OnlineSame DEF Joined
        <3> QED
            BY <1>1, <2>1, <3>1, <3>2, PageKept
    <2>3. CASE RoomOf(r) # {}
        <3>1. \A s \in Joined(sock') : sock'[s].user # NoUser
            BY TypedRevoke DEF Authenticated
        <3>2. page[b].socket # None /\ sock'[page[b].socket].phase = "open"
                  => inbox'[page[b].socket] = Send(inbox[page[b].socket], Presence(sock'))
            BY <1>3, <2>1, <2>3, RevokeSock DEF Broadcast
        <3> QED
            BY <1>1, <3>1, <3>2, RevokeSock, PageTold
    <2> QED
        BY <2>2, <2>3
<1>6. PresenceCurrent'
    BY <1>5 DEF PresenceCurrent, PageCurrent
<1> QED
    BY <1>4, <1>6 DEF PresenceInv

LEMMA PresenceStep ==
    ASSUME TypeOK, Authenticated, PresenceInv, [Next]_vars
    PROVE  PresenceInv'
<1>1. ASSUME sock' = sock, opened' = opened, inbox' = inbox, page' = page
      PROVE  PresenceInv'
    BY <1>1 DEF PresenceInv, SocketsApart, PresenceCurrent, WillShow, OnlineIn, Joined
<1>2. CASE UNCHANGED vars
    BY <1>1, <1>2 DEF vars
<1>3. CASE \E s \in Socks : Connect(s) \/ ServerNotices(s)
    BY <1>3, PresenceConnect, PresenceServerNotices
<1>4. CASE \E b \in Browsers : Handshake(b) \/ Deliver(b) \/ Drop(b) \/ Leave(b)
    BY <1>4, PresenceHandshake, PresenceDeliver, PresenceDrop, PresenceLeave
<1>5. CASE \E b \in Browsers : Login(b) \/ WithSession(b)
    BY <1>1, <1>5 DEF Login, WithSession, Start, socketVars
<1>6. CASE \E r \in Reqs : Regenerate(r) \/ Establish(r) \/ Save(r) \/ Destroy(r)
    BY <1>1, <1>6 DEF Regenerate, Establish, Save, Destroy, socketVars
<1>7. CASE \E r \in Reqs : Revoke(r)
    BY <1>7, PresenceRevoke
<1> QED
    BY <1>2, <1>3, <1>4, <1>5, <1>6, <1>7 DEF Next

\* Whatever sockets come, go, die and are kicked, in any order, a page that is
\* connected shows, once it has taken what is on its way, exactly the users who
\* hold a socket (realtime/index.ts:84-92).
THEOREM PresenceIsLive == Spec => []PresenceCurrent
<1> DEFINE Inv == TypeOK /\ Authenticated /\ PresenceInv
<1>1. Init => Inv
    BY TypedInit, PresenceInit
<1>2. Inv /\ [Next]_vars => Inv'
    BY TypedStep, PresenceStep
<1>3. Inv => PresenceCurrent
    BY DEF PresenceInv
<1> QED
    BY <1>1, <1>2, <1>3, PTL DEF Spec
=============================================================================
