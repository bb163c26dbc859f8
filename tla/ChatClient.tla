----------------------------- MODULE ChatClient -----------------------------
(***************************************************************************)
(* One chat page (hooks/use-chat.ts, components/patterns/ChatRoom.tsx)     *)
(* against the room that ChatLog promises and ChatBuffer implements.       *)
(*                                                                         *)
(* The page asks for the history over REST and, without waiting for it,    *)
(* connects its socket; it shows the answer, then what came live.  A       *)
(* message goes one way on the socket and comes back as everyone else's    *)
(* does; what is on its way when the transport dies is lost.               *)
(***************************************************************************)
EXTENDS Naturals, Sequences, SequencesExt

CONSTANTS
    Mine,       \* messages written on this page
    Theirs,     \* messages of other pages
    MaxVisits,  \* bound: how often the page mounts
    MaxJoins,   \* bound: how often its socket connects
    MaxKeys     \* bound: changes of the draft that wait to be sent

ASSUME DisjointAssumption == Mine \cap Theirs = {}
ASSUME BoundsAssumption == {MaxVisits, MaxJoins, MaxKeys} \subseteq Nat

VARIABLES
    stored, published, refused,  \* the room: see ChatLog
    received,   \* messages of this page whose handler is running
    relayed,    \* the other pages' "typing" line shows this page's user
    joined,     \* the server holds a socket of the page
    inbox,      \* events on their way to the page
    outbox,     \* events on their way to the server, or buffered until connect
    visits, joins,
    status,     \* the hook's status; "away" when the page is not mounted
    retry,      \* socket.io-client will try to connect again
    fetch,      \* the history request: <<>> when none runs
    snapshot,   \* bufferQuery.data, <<>> until there is any
    live,       \* liveMessages
    draft,      \* what the input holds
    sendError,  \* the hook's sendError is set
    told,       \* history: messages whose rejection this page was told of
    cut,        \* history: messages whose socket was gone before an answer
    unheard,    \* history: the last "typing" of the page never left it
    covered,    \* history: the socket was joined when the history was read
    beyond      \* history: messages stored before the history shown, not in it

roomVars == <<stored, published, refused>>
netVars == <<received, relayed, joined, inbox, outbox, joins>>
pageVars == <<visits, status, retry, snapshot, live, draft, sendError>>
history == <<told, cut, unheard, covered, beyond>>
vars == <<roomVars, netVars, pageVars, fetch, history>>

Room == INSTANCE ChatLog WITH Msgs <- Mine \cup Theirs

Statuses == {"away", "connecting", "connected", "reconnecting", "failed"}
Empty == "empty"
Blanks == "blanks"      \* no text, but blanks
TooLong == "tooLong"    \* more than the schema allows
Drafts == Mine \cup {Empty, Blanks, TooLong}

Typing(b) == [kind |-> "typing", on |-> b]
Message(m) == [kind |-> "message", msg |-> m]
Error(m) == [kind |-> "error", msg |-> m]
Connected == [kind |-> "connect"]
Kicked == [kind |-> "kicked"]

Asked == [state |-> "asked"]
Answer(s) == [state |-> "read", messages |-> s]
NoFetch == [state |-> "none"]

\* Messages sent whose rejection the page can no longer hear of without a socket.
Pending == { m \in Mine \ (told \cup cut) :
                \/ m \in received
                \/ Message(m) \in Range(outbox) }

TypeOK ==
    /\ stored \in Seq(Mine \cup Theirs) /\ published \in Seq(Mine \cup Theirs)
    /\ refused \subseteq Mine /\ received \subseteq Mine
    /\ {relayed, joined, retry, sendError, unheard, covered} \subseteq BOOLEAN
    /\ visits \in 0 .. MaxVisits /\ joins \in 0 .. MaxJoins
    /\ status \in Statuses
    /\ Range(outbox) \subseteq {Typing(b) : b \in BOOLEAN} \cup {Message(m) : m \in Mine}
    /\ Range(inbox) \subseteq {Connected, Kicked} \cup {Message(m) : m \in Mine \cup Theirs}
                              \cup {Error(m) : m \in Mine}
    /\ fetch \in {NoFetch, Asked} \/ fetch.state = "read"
    /\ snapshot \in Seq(Mine \cup Theirs) /\ live \in Seq(Mine \cup Theirs)
    /\ draft \in Drafts
    /\ told \subseteq refused /\ cut \subseteq Mine
    /\ beyond \subseteq Mine \cup Theirs

Init ==
    /\ Room!Init
    /\ received = {} /\ relayed = FALSE
    /\ joined = FALSE /\ inbox = <<>> /\ outbox = <<>>
    /\ visits = 0 /\ joins = 0
    /\ status = "away" /\ retry = FALSE
    /\ fetch = NoFetch /\ snapshot = <<>> /\ live = <<>>
    /\ draft = Empty /\ sendError = FALSE
    /\ told = {} /\ cut = {} /\ unheard = FALSE
    /\ covered = FALSE /\ beyond = {}

-----------------------------------------------------------------------------
(* Mutants: the bug each stands for is the one its name says. *)

MergeLiveFirst ==
    LET fresh == { i \in DOMAIN snapshot : snapshot[i] \notin Range(live) } IN
    [p \in ({1} \X DOMAIN live) \cup ({2} \X fresh) |->
        IF p[1] = 1 THEN live[p[2]] ELSE snapshot[p[2]]]

HistoryReplacesLive ==
    /\ fetch.state = "read"
    /\ snapshot' = IF status = "away" THEN <<>> ELSE fetch.messages
    /\ live' = <<>>
    /\ fetch' = NoFetch
    /\ UNCHANGED <<roomVars, netVars, visits, status, retry, draft, sendError, history>>

SubmitUnchecked ==
    /\ status = "connected" /\ draft \notin {Empty, Blanks}
    /\ sendError' = FALSE
    /\ draft' = Empty
    /\ outbox' = outbox \o <<Message(draft), Typing(FALSE)>>
    /\ unheard' = FALSE
    /\ UNCHANGED <<roomVars, received, relayed, joined, inbox, joins, visits, status, retry,
                   snapshot, live, fetch, told, cut, covered, beyond>>

SubmitKeepsTyping(m) == outbox' = Append(outbox, Message(m))

RefuseSilently(m) ==
    /\ m \in received
    /\ Room!Refuse({m})
    /\ m \notin refused
    /\ UNCHANGED <<netVars, pageVars, fetch, history>>

ConnectGivesUp ==
    /\ status \in {"connecting", "reconnecting"} /\ retry /\ ~joined
    /\ retry' = FALSE
    /\ UNCHANGED <<roomVars, netVars, visits, status, snapshot, live, draft, sendError, fetch,
                   history>>

-----------------------------------------------------------------------------
(* The room. *)

Emit(e) == inbox' = IF joined THEN Append(inbox, e) ELSE inbox

\* A message of another page is stored.
StoreTheirs(m) ==
    /\ m \in Theirs
    /\ Room!Store(m)
    /\ UNCHANGED <<netVars, pageVars, fetch, history>>

\* The socket server reads the next event of this page.
Hear ==
    /\ joined /\ status = "connected" /\ outbox # <<>>
    /\ outbox' = Tail(outbox)
    /\ LET e == Head(outbox) IN
          IF e.kind = "typing"
          THEN relayed' = e.on /\ UNCHANGED received
          ELSE received' = received \cup {e.msg} /\ UNCHANGED relayed
    /\ UNCHANGED <<roomVars, joined, inbox, joins, pageVars, fetch, history>>

StoreMine(m) ==
    /\ m \in received \ refused
    /\ Room!Store(m)
    /\ UNCHANGED <<netVars, pageVars, fetch, history>>

\* io.emit: every socket that is joined hears of a published message.
Publish(m) ==
    /\ Room!Publish(m)
    /\ Emit(Message(m))
    /\ UNCHANGED <<received, relayed, joined, outbox, joins, pageVars, fetch, history>>

\* The append failed: the error goes to the socket the message came on.
Refuse(m) ==
    /\ m \in received
    /\ Room!Refuse({m})
    /\ m \notin refused
    /\ IF m \in cut THEN UNCHANGED inbox ELSE Emit(Error(m))
    /\ UNCHANGED <<received, relayed, joined, outbox, joins, pageVars, fetch, history>>

\* GET /chat/messages reads the buffer: some suffix of the log.
ReadHistory ==
    /\ fetch = Asked
    /\ \E i \in 1 .. Len(stored) + 1 :
          LET answer == SubSeq(stored, i, Len(stored)) IN
          /\ fetch' = Answer(answer)
          /\ beyond' = Range(stored) \ Range(answer)
    /\ covered' = joined
    /\ UNCHANGED <<roomVars, netVars, pageVars, told, cut, unheard>>

-----------------------------------------------------------------------------
(* The connection. *)

\* The server accepts the socket.
Join ==
    /\ status \in {"connecting", "reconnecting", "failed"} /\ retry /\ ~joined
    /\ joins < MaxJoins
    /\ joins' = joins + 1
    /\ joined' = TRUE
    /\ inbox' = <<Connected>>
    /\ UNCHANGED <<roomVars, received, relayed, outbox, pageVars, fetch, history>>

\* connect_error: the transport fails and the client tries again, or the
\* server refused the handshake and it does not.
ConnectError ==
    /\ status \in {"connecting", "reconnecting", "failed"} /\ retry /\ ~joined
    /\ status' = "failed"
    /\ retry' \in BOOLEAN
    /\ UNCHANGED <<roomVars, netVars, visits, snapshot, live, draft, sendError, fetch, history>>

\* The socket is gone, with what was on its way to the page.
Disconnected ==
    /\ joined' = FALSE
    /\ inbox' = <<>>
    /\ cut' = cut \cup Pending

\* The `disconnect` listener, for a transport that is lost: with what was on its
\* way to the server, or before the page heard that it was connected, when the
\* client has sent nothing and keeps what it holds for the next connection.
Drop ==
    /\ retry
    /\ joined \/ status \in {"connecting", "failed"}
    /\ Disconnected
    /\ status' = "reconnecting"
    /\ IF status = "connected"
       THEN /\ outbox' = <<>>
            /\ unheard' = (unheard \/ \E b \in BOOLEAN : Typing(b) \in Range(outbox))
       ELSE UNCHANGED <<outbox, unheard>>
    /\ covered' = FALSE
    /\ UNCHANGED <<roomVars, received, relayed, joins, visits, retry, snapshot, live, draft,
                   sendError, fetch, told, beyond>>

\* disconnectUser ends the socket: a logout elsewhere.
Kick ==
    /\ joined /\ Kicked \notin Range(inbox)
    /\ inbox' = Append(inbox, Kicked)
    /\ UNCHANGED <<roomVars, received, relayed, joined, outbox, joins, pageVars, fetch, history>>

\* The listeners of the hook.
Deliver ==
    /\ inbox # <<>> /\ Head(inbox) # Kicked
    /\ LET e == Head(inbox) IN
          /\ status' = IF e = Connected THEN "connected" ELSE status
          /\ live' = IF e.kind = "message" THEN Append(live, e.msg) ELSE live
          /\ sendError' = (sendError \/ e.kind = "error")
          /\ told' = IF e.kind = "error" THEN told \cup {e.msg} ELSE told
    /\ inbox' = Tail(inbox)
    /\ UNCHANGED <<roomVars, received, relayed, joined, outbox, joins, visits, retry, snapshot,
                   draft, fetch, cut, unheard, covered, beyond>>

\* The server ended the socket: `disconnect` fires, and the client does not
\* reconnect.
DeliverKick ==
    /\ inbox # <<>> /\ Head(inbox) = Kicked
    /\ Disconnected /\ outbox' = <<>>
    /\ status' = "reconnecting" /\ retry' = FALSE
    /\ unheard' = TRUE
    /\ covered' = FALSE
    /\ UNCHANGED <<roomVars, received, relayed, joins, visits, snapshot, live, draft, sendError,
                   fetch, told, beyond>>

-----------------------------------------------------------------------------
(* The page. *)

\* The hook mounts: it connects, and asks for the history unless a request of
\* an earlier visit still runs, whose answer it will share.
Enter ==
    /\ status = "away" /\ visits < MaxVisits
    /\ visits' = visits + 1
    /\ status' = "connecting" /\ retry' = TRUE
    /\ fetch' = IF fetch = NoFetch THEN Asked ELSE fetch
    /\ UNCHANGED <<roomVars, netVars, snapshot, live, draft, sendError, history>>

\* The effect's cleanup, and gcTime 0: nothing of the visit is kept but a
\* request in flight.
Leave ==
    /\ status # "away"
    /\ Disconnected /\ outbox' = <<>>
    /\ status' = "away" /\ retry' = FALSE
    /\ snapshot' = <<>> /\ live' = <<>>
    /\ draft' = Empty /\ sendError' = FALSE
    /\ unheard' = TRUE
    /\ covered' = FALSE
    /\ UNCHANGED <<roomVars, received, relayed, joins, visits, fetch, told, beyond>>

\* The answer arrives: shown if the page is still there, collected if not.
HistoryArrives ==
    /\ fetch.state = "read"
    /\ snapshot' = IF status = "away" THEN <<>> ELSE fetch.messages
    /\ fetch' = NoFetch
    /\ UNCHANGED <<roomVars, netVars, visits, status, retry, live, draft, sendError, history>>

\* retry: false. The room works on without its history.
HistoryFails ==
    /\ fetch # NoFetch
    /\ fetch' = NoFetch
    /\ covered' = FALSE
    /\ UNCHANGED <<roomVars, netVars, pageVars, told, cut, unheard, beyond>>

\* onChange of the input.
Type(d) ==
    /\ status \notin {"away", "failed"}
    /\ d # draft
    /\ d \in Mine => /\ d \notin received \cup cut
                     /\ Message(d) \notin Range(outbox)
    /\ Len(outbox) < MaxKeys
    /\ draft' = d
    /\ outbox' = Append(outbox, Typing(d # Empty))
    /\ unheard' = FALSE
    /\ UNCHANGED <<roomVars, received, relayed, joined, inbox, joins, visits, status, retry,
                   snapshot, live, sendError, fetch, told, cut, covered, beyond>>

\* What submit emits for a message the schema accepts.
EmitMessage(m) == outbox' = outbox \o <<Message(m), Typing(FALSE)>>

\* submit of ChatRoom, send of the hook.
Submit ==
    /\ status = "connected" /\ draft \notin {Empty, Blanks}
    /\ IF draft = TooLong
       THEN /\ sendError' = TRUE
            /\ UNCHANGED <<draft, outbox, unheard>>
       ELSE /\ sendError' = FALSE
            /\ draft' = Empty
            /\ EmitMessage(draft)
            /\ unheard' = FALSE
    /\ UNCHANGED <<roomVars, received, relayed, joined, inbox, joins, visits, status, retry,
                   snapshot, live, fetch, told, cut, covered, beyond>>

-----------------------------------------------------------------------------
Next ==
    \/ \E m \in Mine : StoreMine(m) \/ Refuse(m)
    \/ \E m \in Theirs : StoreTheirs(m)
    \/ \E m \in Mine \cup Theirs : Publish(m)
    \/ Hear \/ ReadHistory
    \/ Join \/ ConnectError \/ Drop \/ Kick \/ Deliver \/ DeliverKick
    \/ Enter \/ Leave \/ HistoryArrives \/ HistoryFails
    \/ \E d \in Drafts : Type(d)
    \/ Submit

Spec == Init /\ [][Next]_vars

\* The client keeps trying to connect and hands over what arrives; the server
\* reads what it is sent and answers it.
FairSpec ==
    /\ Spec
    /\ WF_vars(Join \/ ConnectError)
    /\ WF_vars(Deliver \/ DeliverKick)
    /\ WF_vars(Hear)
    /\ \A m \in Mine : WF_vars(Publish(m) \/ Refuse(m))

-----------------------------------------------------------------------------
\* A place on the screen: 1 for the history, 2 for what came live, and where in it.
Above(p, q) == p[1] < q[1] \/ (p[1] = q[1] /\ p[2] < q[2])

\* The useMemo of the hook: the history, then what came live and is not in it.
Shown ==
    LET fresh == { i \in DOMAIN live : live[i] \notin Range(snapshot) } IN
    [p \in ({1} \X DOMAIN snapshot) \cup ({2} \X fresh) |->
        IF p[1] = 1 THEN snapshot[p[2]] ELSE live[p[2]]]

Position(m) == CHOOSE i \in DOMAIN stored : stored[i] = m

\* No message is shown twice (use-chat.ts:61-66), and messages are shown in the
\* order the room stored them, whichever of the history, a live event, a
\* reconnect or a second visit came first; only a live message that the history
\* no longer held may stand too late.
ShownInOrder ==
    /\ IsInjective(Shown)
    /\ \A p, q \in DOMAIN Shown :
          Above(p, q) /\ Position(Shown[q]) < Position(Shown[p]) => Shown[q] \in beyond

\* A page whose socket was joined before the history was read, and still is,
\* misses no message: each one published is shown, on its way, or was already
\* out of the buffer.
NothingMissed ==
    covered /\ fetch = NoFetch
        => Range(published) \subseteq
              Range(Shown) \cup { m \in Mine \cup Theirs : Message(m) \in Range(inbox) } \cup beyond

\* The others were last told that this user is typing just when the input holds
\* anything, be it blanks that cannot be sent, once everything was sent
\* (ChatRoom.tsx:26-29, 72-75, 78).
TypingCurrent ==
    status = "connected" /\ outbox = <<>> /\ ~unheard => relayed = (draft # Empty)

\* A message that was sent is shown, rejected aloud, or its socket is gone.
SentIsAnswered ==
    \A m \in Mine :
        m \in received ~> m \in Range(Shown) \cup told \cup cut

\* A page that is connecting, or reconnecting by itself, comes to a result and
\* says so (design §6, use-chat.ts:82-84).
StatusResolves ==
    status \in {"connecting", "reconnecting"} /\ retry
        ~> status \in {"connected", "failed", "away"}
=============================================================================
