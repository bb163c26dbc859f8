------------------------------ MODULE Realtime ------------------------------
(***************************************************************************)
(* Sessions and sockets: express-session over Redis (lib/session.ts), the  *)
(* routes that write sessions (routes/v1/auth.ts, routes/v1/users.ts), the *)
(* socket server (realtime/index.ts) and the connection half of the chat   *)
(* page (hooks/use-chat.ts).                                               *)
(*                                                                         *)
(* A handler works on the session its request loaded, and a socket on the  *)
(* one its handshake loaded; both may be gone from the store by the time   *)
(* they are used.  Events reach a page in the order the server sent them.  *)
(***************************************************************************)
EXTENDS Naturals, Sequences

CONSTANTS
    NBrowsers,  \* browsers, each with one cookie jar and at most one chat page
    Users,
    NoUser,     \* a session without an identity, or no session
    MaxSids,    \* bound: session ids that are ever generated
    MaxSocks,   \* bound: handshakes that are ever made
    MaxReqs,    \* bound: requests that write a session
    MaxWork     \* bound: handshakes and requests together

ASSUME NoUserAssumption == NoUser \notin Users
ASSUME BoundsAssumption ==
    /\ {NBrowsers, MaxSids, MaxSocks, MaxReqs, MaxWork} \subseteq Nat
    /\ NBrowsers <= MaxSids

Browsers == 1 .. NBrowsers
Sids == 1 .. MaxSids
Socks == 1 .. MaxSocks
Reqs == 1 .. MaxReqs
None == 0               \* no cookie, no socket

VARIABLES
    store,      \* store[i]: the identity in Redis under session id i
    issued,     \* session ids 1 .. issued have been generated
    jar,        \* jar[b]: the sid cookie of browser b
    sock,       \* sock[s]: what the server holds of socket s
    opened,     \* sockets 1 .. opened have been used
    inbox,      \* inbox[s]: events on their way to the page of s
    page,       \* page[b]: the chat page of browser b
    req,        \* req[r]: a request in progress
    sent,       \* requests 1 .. sent have been used
    loggedOut,  \* history: sessions a finished logout left destroyed
    overtaken,  \* history: sockets in a handshake when their session was destroyed
    abandoned   \* history: sessions ended by what ends no socket of theirs

sessionVars == <<store, issued, jar>>
socketVars == <<sock, opened, inbox, page>>
requestVars == <<req, sent>>
history == <<loggedOut, overtaken, abandoned>>
vars == <<store, issued, jar, sock, opened, inbox, page, req, sent,
          loggedOut, overtaken, abandoned>>

Phases == {"unused", "handshake", "open", "dead", "closed"}
Event == [kind : {"connect", "presence", "refused", "lost", "kicked"}, online : SUBSET Users]

TypeOK ==
    /\ store \in [Sids -> Users \cup {NoUser}]
    /\ issued \in NBrowsers .. MaxSids
    /\ jar \in [Browsers -> Sids \cup {None}]
    /\ sock \in [Socks -> [phase : Phases, sid : Sids \cup {None}, user : Users \cup {NoUser}]]
    /\ opened \in 0 .. MaxSocks
    /\ inbox \in [Socks -> Seq(Event)]
    /\ page \in [Browsers -> [mounted : BOOLEAN, online : SUBSET Users,
                              socket : Socks \cup {None}, retry : BOOLEAN]]
    /\ req \in [Reqs -> [kind : {"none", "login", "logout", "patch", "erase"},
                         pc : {"idle", "loaded", "destroyed", "done"},
                         browser : Browsers \cup {None}, sid : Sids \cup {None},
                         user : Users \cup {NoUser}]]
    /\ sent \in 0 .. MaxReqs
    /\ loggedOut \subseteq Sids
    /\ overtaken \subseteq Socks
    /\ abandoned \subseteq Sids

Away == [mounted |-> FALSE, online |-> {}, socket |-> None, retry |-> FALSE]
Closed == [phase |-> "closed", sid |-> None, user |-> NoUser]
Done == [kind |-> "none", pc |-> "done", browser |-> None, sid |-> None, user |-> NoUser]

\* Every browser is signed in, to anyone.
Init ==
    /\ \E who \in [Browsers -> Users] :
          store = [i \in Sids |-> IF i \in Browsers THEN who[i] ELSE NoUser]
    /\ issued = NBrowsers
    /\ jar = [b \in Browsers |-> b]
    /\ sock = [s \in Socks |-> [phase |-> "unused", sid |-> None, user |-> NoUser]]
    /\ opened = 0
    /\ inbox = [s \in Socks |-> <<>>]
    /\ page = [b \in Browsers |-> Away]
    /\ req = [r \in Reqs |-> [kind |-> "none", pc |-> "idle", browser |-> None,
                              sid |-> None, user |-> NoUser]]
    /\ sent = 0
    /\ loggedOut = {}
    /\ overtaken = {}
    /\ abandoned = {}

\* What sessionMiddleware puts on a request with cookie i.
Loaded(i) == IF i = None THEN NoUser ELSE store[i]

\* The sockets io.sockets.sockets holds: a dead one stays until the server
\* notices.
Joined(k) == { s \in Socks : k[s].phase \in {"open", "dead"} }

OnlineIn(k) == { k[s].user : s \in Joined(k) }

\* The sockets in a handshake that loaded session i.
Handshaking(i) == { s \in Socks : sock[s].phase = "handshake" /\ sock[s].sid = i }

\* Session i, if it is there to be ended.
Living(i) == { j \in Sids : j = i /\ store[j] # NoUser }

At(r, kind, pc) == req[r].kind = kind /\ req[r].pc = pc

Presence(k) == [kind |-> "presence", online |-> OnlineIn(k)]
Notice(kind) == [kind |-> kind, online |-> {}]

-----------------------------------------------------------------------------
(* Mutants: the bug each stands for is the one its name says. *)

ServerNoticesSilently(s) ==
    /\ sock[s].phase = "dead"
    /\ sock' = [sock EXCEPT ![s] = Closed]
    /\ UNCHANGED <<sessionVars, opened, inbox, page, requestVars, history>>

EstablishKeepsId(r) ==
    /\ At(r, "login", "destroyed")
    /\ req[r].sid # None
    /\ store' = [store EXCEPT ![req[r].sid] = req[r].user]
    /\ jar' = [jar EXCEPT ![req[r].browser] = req[r].sid]
    /\ req' = [req EXCEPT ![r] = Done]
    /\ UNCHANGED <<issued, socketVars, sent, history>>

RoomNeverJoined(r) == {}

ConnectWithoutSession(s) == TRUE

-----------------------------------------------------------------------------
(* Sockets on the server. *)

\* A list that is still on its way is replaced by the next one: the page keeps
\* only the last.
Send(queue, e) ==
    IF queue # <<>> /\ queue[Len(queue)].kind = "presence" /\ e.kind = "presence"
    THEN [queue EXCEPT ![Len(queue)] = e]
    ELSE Append(queue, e)

\* broadcastPresence: to every socket in the set, the live users, each once.
Broadcast(k) ==
    [s \in Socks |-> IF k[s].phase = "open" THEN Send(inbox[s], Presence(k)) ELSE inbox[s]]

\* io.use: the handshake guard reads the session the handshake loaded.
Authorized(s) == sock[s].user # NoUser

\* The CONNECT packet of s: the guard refuses, or the socket joins its user's
\* room, is told so, and everyone hears of it.
Connect(s) ==
    /\ sock[s].phase = "handshake"
    /\ IF Authorized(s)
       THEN LET k == [sock EXCEPT ![s].phase = "open"] IN
            /\ sock' = k
            /\ inbox' = [Broadcast(k) EXCEPT ![s] = <<Notice("connect"), Presence(k)>>]
       ELSE /\ sock' = [sock EXCEPT ![s] = Closed]
            /\ inbox' = [inbox EXCEPT ![s] = <<Notice("refused")>>]
    /\ UNCHANGED <<sessionVars, opened, page, requestVars, history>>

\* The `disconnect` handler: the server hears of a socket that left, or its
\* ping times out.
ServerNotices(s) ==
    /\ sock[s].phase = "dead"
    /\ LET k == [sock EXCEPT ![s] = Closed] IN
          /\ sock' = k
          /\ inbox' = Broadcast(k)
    /\ UNCHANGED <<sessionVars, opened, page, requestVars, history>>

\* The sockets in the room of the user who logs out.
RoomOf(r) == { s \in Joined(sock) : sock[s].user = req[r].user }

\* disconnectUser closes the sockets of the room one after the other; each
\* close runs the `disconnect` handler, and the last one leaves the set without
\* the user.
DisconnectUser(r) ==
    LET gone == RoomOf(r)
        k == [s \in Socks |-> IF s \in gone THEN Closed ELSE sock[s]]
    IN /\ sock' = k
       /\ inbox' = [s \in Socks |->
             IF s \in gone /\ sock[s].phase = "open" THEN Send(inbox[s], Notice("kicked"))
             ELSE IF gone = {} THEN inbox[s]
             ELSE Broadcast(k)[s]]

-----------------------------------------------------------------------------
(* The chat page. *)

\* The page mounts behind RequireAuth and connects, or its socket object
\* reconnects by itself after a lost transport; the session middleware runs on
\* the handshake request.
Handshake(b) ==
    /\ \/ ~page[b].mounted /\ jar[b] # None
       \/ page[b].mounted /\ page[b].socket = None /\ page[b].retry
    /\ opened < MaxSocks /\ opened + sent < MaxWork
    /\ opened' = opened + 1
    /\ sock' = [sock EXCEPT ![opened'] =
                   [phase |-> "handshake", sid |-> jar[b], user |-> Loaded(jar[b])]]
    /\ page' = [page EXCEPT ![b] = [@ EXCEPT !.mounted = TRUE, !.retry = TRUE, !.socket = opened']]
    /\ UNCHANGED <<sessionVars, inbox, requestVars, history>>

\* What the page and socket.io-client make of an event: the client reconnects
\* after a lost transport, never after the server refused or ended the socket.
Receive(b, e) ==
    CASE e.kind = "connect" -> page[b]
      [] e.kind = "presence" -> [page[b] EXCEPT !.online = e.online]
      [] e.kind = "lost" -> [page[b] EXCEPT !.socket = None]
      [] e.kind \in {"refused", "kicked"} -> [page[b] EXCEPT !.socket = None, !.retry = FALSE]

Deliver(b) ==
    LET s == page[b].socket IN
    /\ s # None
    /\ inbox[s] # <<>>
    /\ page' = [page EXCEPT ![b] = Receive(b, Head(inbox[s]))]
    /\ inbox' = [inbox EXCEPT ![s] = Tail(@)]
    /\ UNCHANGED <<sessionVars, sock, opened, requestVars, history>>

\* The transport of an open socket dies; what was on its way is lost.
Drop(b) ==
    LET s == page[b].socket IN
    /\ s # None
    /\ sock[s].phase = "open"
    /\ sock' = [sock EXCEPT ![s].phase = "dead"]
    /\ inbox' = [inbox EXCEPT ![s] = <<Notice("lost")>>]
    /\ UNCHANGED <<sessionVars, opened, page, requestVars, history>>

\* The effect's cleanup: listeners off, socket.disconnect().
Leave(b) ==
    /\ page[b].mounted
    /\ page' = [page EXCEPT ![b] = Away]
    /\ LET s == page[b].socket IN
          IF s = None THEN UNCHANGED <<sock, inbox>>
          ELSE /\ sock' = [sock EXCEPT ![s] =
                     CASE @.phase = "open" -> [@ EXCEPT !.phase = "dead"]
                       [] @.phase = "handshake" -> Closed
                       [] OTHER -> @]
               /\ inbox' = [inbox EXCEPT ![s] = <<>>]
    /\ UNCHANGED <<sessionVars, opened, requestVars, history>>

-----------------------------------------------------------------------------
(* Requests that write a session. *)

Start(b, kind, user) ==
    /\ sent < MaxReqs /\ opened + sent < MaxWork
    /\ sent' = sent + 1
    /\ req' = [req EXCEPT ![sent + 1] = [kind |-> kind, pc |-> "loaded", browser |-> b,
                                         sid |-> jar[b], user |-> user]]
    /\ UNCHANGED <<sessionVars, socketVars, history>>

\* POST /login, POST /signup or the OAuth callback, with valid credentials.
Login(b) == \E u \in Users : Start(b, "login", u)

\* POST /logout, PATCH and DELETE /users/:id behind requireAuth.
WithSession(b) ==
    /\ Loaded(jar[b]) # NoUser
    /\ \E kind \in {"logout", "patch", "erase"} : Start(b, kind, Loaded(jar[b]))

\* regenerateSession: the session the request came with, if any, is destroyed;
\* its sockets are not ended.
Regenerate(r) ==
    /\ At(r, "login", "loaded")
    /\ store' = [i \in Sids |-> IF i = req[r].sid THEN NoUser ELSE store[i]]
    /\ overtaken' = overtaken \cup Handshaking(req[r].sid)
    /\ abandoned' = abandoned \cup Living(req[r].sid)
    /\ req' = [req EXCEPT ![r].pc = "destroyed"]
    /\ UNCHANGED <<issued, jar, socketVars, sent, loggedOut>>

\* Back from Redis, the identity is written to a session with a new id, which
\* is saved before the response ends, with its cookie.
Establish(r) ==
    /\ At(r, "login", "destroyed")
    /\ issued < MaxSids
    /\ issued' = issued + 1
    /\ store' = [store EXCEPT ![issued'] = req[r].user]
    /\ jar' = [jar EXCEPT ![req[r].browser] = issued']
    /\ req' = [req EXCEPT ![r] = Done]
    /\ UNCHANGED <<socketVars, sent, history>>

\* The new username is written to the loaded session, and express-session
\* saves a session that was written to before it ends the response, with its
\* cookie, whether the store still has it or not.
Save(r) ==
    /\ At(r, "patch", "loaded")
    /\ store' = [store EXCEPT ![req[r].sid] = req[r].user]
    /\ jar' = [jar EXCEPT ![req[r].browser] = req[r].sid]
    /\ loggedOut' = loggedOut \ {req[r].sid}
    /\ abandoned' = abandoned \ {req[r].sid}
    /\ req' = [req EXCEPT ![r] = Done]
    /\ UNCHANGED <<issued, socketVars, sent, overtaken>>

\* destroySession, awaited by logout; the removal of an account does not wait
\* for it and ends no socket.
Destroy(r) ==
    /\ At(r, "logout", "loaded") \/ At(r, "erase", "loaded")
    /\ store' = [store EXCEPT ![req[r].sid] = NoUser]
    /\ overtaken' = overtaken \cup Handshaking(req[r].sid)
    /\ abandoned' = IF req[r].kind = "erase" THEN abandoned \cup Living(req[r].sid) ELSE abandoned
    /\ req' = [req EXCEPT ![r] = IF @.kind = "logout" THEN [@ EXCEPT !.pc = "destroyed"] ELSE Done]
    /\ UNCHANGED <<issued, jar, socketVars, sent, loggedOut>>

\* Back from Redis, logout clears the cookie and ends the user's sockets.
Revoke(r) ==
    /\ At(r, "logout", "destroyed")
    /\ DisconnectUser(r)
    /\ jar' = [jar EXCEPT ![req[r].browser] = None]
    /\ loggedOut' = IF store[req[r].sid] = NoUser THEN loggedOut \cup {req[r].sid} ELSE loggedOut
    /\ abandoned' = abandoned \ {req[r].sid}
    /\ req' = [req EXCEPT ![r] = Done]
    /\ UNCHANGED <<store, issued, opened, page, sent, overtaken>>

-----------------------------------------------------------------------------
Next ==
    \/ \E s \in Socks : Connect(s) \/ ServerNotices(s)
    \/ \E b \in Browsers :
          \/ Handshake(b) \/ Deliver(b) \/ Drop(b)
          \/ Leave(b) \/ Login(b) \/ WithSession(b)
    \/ \E r \in Reqs : Regenerate(r) \/ Establish(r) \/ Save(r) \/ Destroy(r) \/ Revoke(r)

Spec == Init /\ [][Next]_vars

-----------------------------------------------------------------------------
Lists(queue) == { i \in DOMAIN queue : queue[i].kind = "presence" }

\* The presence a page shows once its inbox is drained is `online`.
WillShow(b, online) ==
    LET queue == inbox[page[b].socket] IN
    /\ Lists(queue) = {} => page[b].online = online
    /\ \A i \in Lists(queue) :
          (\A j \in Lists(queue) : j <= i) => queue[i].online = online

\* What a connected page shows, or has on its way, is who holds a socket now:
\* the list cannot drift from the sockets (realtime/index.ts:84-92, "derived
\* from the live socket set, never stored"), whatever order sockets come, go,
\* die and are kicked in.
PresenceCurrent ==
    \A b \in Browsers :
        page[b].socket # None /\ sock[page[b].socket].phase = "open"
            => WillShow(b, OnlineIn(sock))

\* An open socket on a session that a finished logout destroyed was in its
\* handshake at that moment, between session load and CONNECT: the logout ends
\* every other one (auth.ts:126-130).
OnlyRacersOutlive ==
    \A s \in Socks :
        sock[s].phase = "open" /\ sock[s].sid \in loggedOut => s \in overtaken

\* A logout that has destroyed session i and not yet ended its sockets.
LoggingOut(i) == \E r \in Reqs : At(r, "logout", "destroyed") /\ req[r].sid = i

\* A socket in the live set speaks for the account its session is of, and never
\* for another: a sign-in over an old session takes a new id (auth.ts:73-75,
\* 109-115).  It speaks on for a session that is gone only if
\*   - a sign-in over that session or the removal of its account ended it, which
\*     end no socket (auth.ts:112, users.ts:51): it goes on under the account
\*     that left, until its transport goes or that account logs out;
\*   - it was in its handshake when the session was destroyed; or
\*   - a logout is about to end it (auth.ts:124-130).
\* A finished logout ends also what the first of these left.
SocketSpeaksForSession ==
    \A s \in Joined(sock) :
        \/ store[sock[s].sid] = sock[s].user
        \/ /\ store[sock[s].sid] = NoUser
           /\ sock[s].sid \in abandoned \/ s \in overtaken \/ LoggingOut(sock[s].sid)
=============================================================================
