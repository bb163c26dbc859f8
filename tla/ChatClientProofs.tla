-------------------------- MODULE ChatClientProofs --------------------------
(***************************************************************************)
(* What a chat page guarantees for every set of messages, however often it *)
(* mounts, connects and types: it shows the room in order, misses nothing  *)
(* it could have heard, and its typing line follows its input.             *)
(***************************************************************************)
EXTENDS ChatClient, SequenceTheorems, TLAPS

-----------------------------------------------------------------------------
(* Facts about the queues the steps work on. *)

\* Taking the head of a queue leaves the rest, moved down by one.
LEMMA TailOfQueue ==
    ASSUME NEW S, NEW q \in Seq(S), q # <<>>
    PROVE  /\ Head(q) \in S
           /\ Head(q) = q[1]
           /\ 1 \in DOMAIN q
           /\ Tail(q) \in Seq(S)
           /\ \A i \in DOMAIN Tail(q) : i + 1 \in DOMAIN q /\ Tail(q)[i] = q[i + 1]
           /\ \A i \in DOMAIN q : i = 1 \/ (i - 1 \in DOMAIN Tail(q) /\ q[i] = Tail(q)[i - 1])
           /\ DOMAIN q \subseteq Nat /\ DOMAIN Tail(q) \subseteq Nat
<1>1. Len(q) \in Nat \ {0} /\ DOMAIN q = 1 .. Len(q)
    BY EmptySeq, LenProperties
<1>2. Tail(q) \in Seq(S) /\ Len(Tail(q)) = Len(q) - 1 /\ Head(q) \in S
    BY HeadTailProperties
<1>3. DOMAIN Tail(q) = 1 .. Len(q) - 1
    BY <1>2, LenProperties
<1>4. \A i \in 1 .. Len(q) - 1 : Tail(q)[i] = q[i + 1]
    BY <1>2, HeadTailProperties
<1>5. Head(q) = q[1]
    OBVIOUS
<1>6. \A i \in DOMAIN q : i = 1 \/ (i - 1 \in DOMAIN Tail(q) /\ q[i] = Tail(q)[i - 1])
    <2> TAKE i \in DOMAIN q
    <2>1. i = 1 \/ i - 1 \in 1 .. Len(q) - 1
        BY <1>1
    <2>2. ASSUME i - 1 \in 1 .. Len(q) - 1
          PROVE  q[i] = Tail(q)[i - 1]
        <3>1. Tail(q)[i - 1] = q[(i - 1) + 1]
            BY <1>4, <2>2
        <3>2. (i - 1) + 1 = i
            BY <1>1
        <3> QED
            BY <3>1, <3>2
    <2> QED
        BY <1>3, <2>1, <2>2
<1> QED
    BY <1>1, <1>2, <1>3, <1>4, <1>5, <1>6

\* Appending to a queue adds one last entry.
LEMMA AppendToQueue ==
    ASSUME NEW S, NEW q \in Seq(S), NEW e \in S
    PROVE  /\ Append(q, e) \in Seq(S)
           /\ DOMAIN q = 1 .. Len(q)
           /\ Len(q) \in Nat
           /\ DOMAIN Append(q, e) = 1 .. Len(q) + 1
           /\ \A i \in DOMAIN q : Append(q, e)[i] = q[i]
           /\ Append(q, e)[Len(q) + 1] = e
BY AppendProperties, LenProperties

\* A submit puts two entries at once.
LEMMA AppendTwo ==
    ASSUME NEW S, NEW q \in Seq(S), NEW a \in S, NEW b \in S
    PROVE  q \o <<a, b>> = Append(Append(q, a), b)
<1>1. <<a>> \in Seq(S) /\ <<b>> \in Seq(S)
    OBVIOUS
<1>2. Append(q, a) \in Seq(S) /\ Append(q, a) = q \o <<a>>
    BY AppendProperties, AppendIsConcat
<1>3. Append(Append(q, a), b) = (q \o <<a>>) \o <<b>>
    BY <1>2, AppendIsConcat
<1>4. (q \o <<a>>) \o <<b>> = q \o (<<a>> \o <<b>>)
    BY <1>1, ConcatAssociative
<1>5. <<a>> \o <<b>> = <<a, b>>
    <2> DEFINE s == <<a>> \o <<b>>
               t == <<a, b>>
    <2>1. s \in Seq(S) /\ Len(s) = 2 /\ s[1] = a /\ s[2] = b
        BY <1>1, ConcatProperties
    <2>2. t \in Seq(S) /\ Len(t) = 2 /\ t[1] = a /\ t[2] = b
        OBVIOUS
    <2> HIDE DEF s, t
    <2>3. \A i \in 1 .. Len(s) : s[i] = t[i]
        BY <2>1, <2>2
    <2>4. s = t
        BY <2>1, <2>2, <2>3, SeqEqual
    <2> QED
        BY <2>4 DEF s, t
<1> QED
    BY <1>3, <1>4, <1>5

LEMMA RangeOfTail ==
    ASSUME NEW S, NEW q \in Seq(S), q # <<>>
    PROVE  Range(q) = {Head(q)} \cup Range(Tail(q))
<1>1. ASSUME NEW x \in Range(q)
      PROVE  x \in {Head(q)} \cup Range(Tail(q))
    <2>1. PICK i \in DOMAIN q : x = q[i]
        BY <1>1 DEF Range
    <2>2. x = Head(q) \/ (i - 1 \in DOMAIN Tail(q) /\ x = Tail(q)[i - 1])
        BY <2>1, TailOfQueue
    <2> QED
        BY <2>2 DEF Range
<1>2. ASSUME NEW x \in Range(Tail(q))
      PROVE  x \in Range(q)
    <2>1. PICK i \in DOMAIN Tail(q) : x = Tail(q)[i]
        BY <1>2 DEF Range
    <2>2. i + 1 \in DOMAIN q /\ q[i + 1] = x
        BY <2>1, TailOfQueue
    <2> QED
        BY <2>2 DEF Range
<1>3. Head(q) \in Range(q)
    BY TailOfQueue DEF Range
<1> QED
    BY <1>1, <1>2, <1>3

LEMMA RangeOfAppend ==
    ASSUME NEW S, NEW q \in Seq(S), NEW e \in S
    PROVE  Range(Append(q, e)) = Range(q) \cup {e}
BY AppendToQueue DEF Range

\* The end of a log from place i on.
LEMMA SuffixOfLog ==
    ASSUME NEW S, NEW q \in Seq(S), NEW i \in 1 .. Len(q) + 1
    PROVE  /\ SubSeq(q, i, Len(q)) \in Seq(S)
           /\ \A j \in DOMAIN SubSeq(q, i, Len(q)) :
                 i + j - 1 \in DOMAIN q /\ SubSeq(q, i, Len(q))[j] = q[i + j - 1]
           /\ \A j \in DOMAIN q :
                 j < i \/ (j - i + 1 \in DOMAIN SubSeq(q, i, Len(q))
                             /\ SubSeq(q, i, Len(q))[j - i + 1] = q[j])
<1> DEFINE t == SubSeq(q, i, Len(q))
<1>1. Len(q) \in Nat /\ DOMAIN q = 1 .. Len(q) /\ i \in Nat
    BY LenProperties
<1>2. \A j \in i .. Len(q) : q[j] \in S
    BY <1>1, ElementOfSeq
<1>3. /\ t \in Seq(S)
      /\ Len(t) = IF i <= Len(q) THEN Len(q) - i + 1 ELSE 0
      /\ \A j \in 1 .. Len(q) - i + 1 : t[j] = q[i + j - 1]
    <2>1. i \in Int /\ Len(q) \in Int
        BY <1>1
    <2> QED
        BY <1>2, <2>1, SubSeqProperties
<1>4. DOMAIN t = 1 .. Len(q) - i + 1
    <2>1. DOMAIN t = 1 .. Len(t)
        BY <1>3, LenProperties
    <2> HIDE DEF t
    <2>2. Len(t) = Len(q) - i + 1
        BY <1>1, <1>3
    <2> QED
        BY <2>1, <2>2
<1> HIDE DEF t
<1>5. \A j \in DOMAIN t : i + j - 1 \in DOMAIN q /\ t[j] = q[i + j - 1]
    BY <1>1, <1>3, <1>4
<1>6. \A j \in DOMAIN q : j < i \/ (j - i + 1 \in DOMAIN t /\ t[j - i + 1] = q[j])
    <2> TAKE j \in DOMAIN q
    <2>1. j < i \/ j - i + 1 \in 1 .. Len(q) - i + 1
        BY <1>1
    <2>2. ASSUME j - i + 1 \in 1 .. Len(q) - i + 1
          PROVE  t[j - i + 1] = q[j]
        <3>1. t[j - i + 1] = q[i + (j - i + 1) - 1]
            BY <1>3, <2>2
        <3>2. i + (j - i + 1) - 1 = j
            BY <1>1
        <3> QED
            BY <3>1, <3>2
    <2> QED
        BY <1>4, <2>1, <2>2
<1> QED
    BY <1>3, <1>5, <1>6 DEF t

-----------------------------------------------------------------------------
(* Types.  Beside its type, an error on its way is of a message the room    *)
(* has refused.                                                            *)

All == Mine \cup Theirs
ToServer == {Typing(b) : b \in BOOLEAN} \cup {Message(m) : m \in Mine}
ToPage == {Connected, Kicked} \cup {Message(m) : m \in All} \cup {Error(m) : m \in Mine}
Answers == {NoFetch, Asked} \cup {Answer(s) : s \in Seq(All)}

RoomTyped ==
    /\ stored \in Seq(All) /\ published \in Seq(All)
    /\ refused \subseteq Mine /\ received \subseteq Mine
    /\ told \subseteq refused /\ cut \subseteq Mine
    /\ \A m : Error(m) \in Range(inbox) => m \in refused

NetTyped ==
    /\ relayed \in BOOLEAN /\ joined \in BOOLEAN
    /\ joins \in 0 .. MaxJoins
    /\ outbox \in Seq(ToServer) /\ inbox \in Seq(ToPage)

PageTyped ==
    /\ retry \in BOOLEAN /\ sendError \in BOOLEAN
    /\ unheard \in BOOLEAN /\ covered \in BOOLEAN
    /\ visits \in 0 .. MaxVisits
    /\ status \in Statuses
    /\ fetch \in Answers
    /\ snapshot \in Seq(All) /\ live \in Seq(All)
    /\ draft \in Drafts
    /\ beyond \subseteq All

Typed == RoomTyped /\ NetTyped /\ PageTyped

LEMMA TypedIsTypeOK == Typed => TypeOK
<1> SUFFICES ASSUME Typed PROVE TypeOK
    OBVIOUS
<1>1. Range(outbox) \subseteq ToServer /\ Range(inbox) \subseteq ToPage
    BY RangeOfSeq DEF Typed, NetTyped
<1>2. fetch \in {NoFetch, Asked} \/ fetch.state = "read"
    BY DEF Typed, PageTyped, Answers, Answer
<1> QED
    BY <1>1, <1>2
    DEF Typed, RoomTyped, NetTyped, PageTyped, TypeOK, All, ToServer, ToPage, Statuses

\* The kinds of events do not mix.
LEMMA EventsApart ==
    /\ \A e \in ToServer : \/ e.kind = "typing" /\ e.on \in BOOLEAN /\ e = Typing(e.on)
                           \/ e.kind = "message" /\ e.msg \in Mine /\ e = Message(e.msg)
    /\ \A e \in ToPage : \/ e \in {Connected, Kicked} /\ e.kind \in {"connect", "kicked"}
                         \/ e.kind = "message" /\ e.msg \in All /\ e = Message(e.msg)
                         \/ e.kind = "error" /\ e.msg \in Mine /\ e = Error(e.msg)
    /\ \A m : Message(m).kind = "message" /\ Message(m).msg = m
    /\ \A m : Error(m).kind = "error" /\ Error(m).msg = m
    /\ \A b : Typing(b).kind = "typing" /\ Typing(b).on = b
    /\ Connected.kind = "connect" /\ Kicked.kind = "kicked"
BY DEF ToServer, ToPage, Typing, Message, Error, Connected, Kicked

LEMMA AnswersApart ==
    /\ NoFetch.state = "none" /\ Asked.state = "asked"
    /\ \A s : Answer(s).state = "read" /\ Answer(s).messages = s
    /\ \A f \in Answers : f.state = "read" => f.messages \in Seq(All)
    /\ \A f \in Answers : f = NoFetch \/ f = Asked \/ f.state = "read"
    /\ NoFetch # Asked
    /\ {NoFetch, Asked} \subseteq Answers
    /\ \A s \in Seq(All) : Answer(s) \in Answers
<1>1. NoFetch.state = "none" /\ Asked.state = "asked" /\ NoFetch # Asked
    BY DEF NoFetch, Asked
<1>2. \A s : Answer(s).state = "read" /\ Answer(s).messages = s
    BY DEF Answer
<1>3. \A f \in Answers : f = NoFetch \/ f = Asked \/ \E s \in Seq(All) : f = Answer(s)
    BY DEF Answers
<1>4. {NoFetch, Asked} \subseteq Answers /\ \A s \in Seq(All) : Answer(s) \in Answers
    BY DEF Answers
<1> QED
    BY <1>1, <1>2, <1>3, <1>4

LEMMA TypedInit == Init => Typed
<1> SUFFICES ASSUME Init PROVE Typed
    OBVIOUS
<1>1. <<>> \in Seq(All) /\ <<>> \in Seq(ToServer) /\ <<>> \in Seq(ToPage)
    BY EmptySeq
<1>2. Range(inbox) = {}
    BY DEF Init, Range
<1>3. 0 \in 0 .. MaxVisits /\ 0 \in 0 .. MaxJoins
    BY BoundsAssumption
<1>4. RoomTyped
    BY <1>1, <1>2 DEF Init, Room!Init, RoomTyped
<1>5. NetTyped
    BY <1>1, <1>3 DEF Init, NetTyped
<1>6. fetch \in Answers
    BY AnswersApart DEF Init
<1>7. PageTyped
    BY <1>1, <1>3, <1>6 DEF Init, PageTyped, Statuses, Drafts
<1> QED
    BY <1>4, <1>5, <1>7 DEF Typed

LEMMA TypedStutter == Typed /\ UNCHANGED vars => Typed'
BY DEF vars, roomVars, netVars, pageVars, history, Typed, RoomTyped, NetTyped, PageTyped, Range

\* Nothing an error event says changes when nothing is sent to the page.
LEMMA QuietRoom ==
    ASSUME RoomTyped, UNCHANGED <<stored, published, refused, received, told, cut>>,
           \A m : Error(m) \in Range(inbox') => Error(m) \in Range(inbox)
    PROVE  RoomTyped'
BY DEF RoomTyped

LEMMA TypedStore ==
    ASSUME Typed, NEW m \in All, StoreMine(m) \/ StoreTheirs(m)
    PROVE  Typed'
<1>1. stored' = Append(stored, m) /\ UNCHANGED <<published, refused, netVars, pageVars, fetch, history>>
    BY DEF StoreMine, StoreTheirs, Room!Store
<1>2. stored' \in Seq(All)
    BY <1>1, AppendToQueue DEF Typed, RoomTyped
<1> QED
    BY <1>1, <1>2
    DEF Typed, RoomTyped, NetTyped, PageTyped, netVars, pageVars, history, Range

LEMMA EmitTyped ==
    ASSUME Typed, NEW e \in ToPage, Emit(e)
    PROVE  /\ inbox' \in Seq(ToPage)
           /\ Range(inbox') \subseteq Range(inbox) \cup {e}
<1>0. inbox \in Seq(ToPage)
    BY DEF Typed, NetTyped
<1>1. CASE inbox' = inbox
    BY <1>0, <1>1
<1>2. CASE inbox' = Append(inbox, e)
    BY <1>0, <1>2, AppendToQueue, RangeOfAppend
<1> QED
    BY <1>1, <1>2 DEF Emit

LEMMA TypedPublish ==
    ASSUME Typed, NEW m \in All, Publish(m)
    PROVE  Typed'
<1>1. /\ published' = Append(published, m)
      /\ UNCHANGED <<stored, refused, received, relayed, joined, outbox, joins, pageVars, fetch, history>>
      /\ Emit(Message(m))
    BY DEF Publish, Room!Publish
<1>2. published' \in Seq(All)
    BY <1>1, AppendToQueue DEF Typed, RoomTyped
<1>3. Message(m) \in ToPage
    BY DEF ToPage
<1>4. inbox' \in Seq(ToPage) /\ Range(inbox') \subseteq Range(inbox) \cup {Message(m)}
    BY <1>1, <1>3, EmitTyped
<1>5. \A n : Error(n) \in Range(inbox') => Error(n) \in Range(inbox)
    BY <1>4, EventsApart
<1> QED
    BY <1>1, <1>2, <1>4, <1>5
    DEF Typed, RoomTyped, NetTyped, PageTyped, pageVars, history

LEMMA TypedRefuse ==
    ASSUME Typed, NEW m \in Mine, Refuse(m)
    PROVE  Typed'
<1>1. /\ refused' = refused \cup {m}
      /\ UNCHANGED <<stored, published, received, relayed, joined, outbox, joins, pageVars, fetch, history>>
      /\ inbox' = inbox \/ Emit(Error(m))
    BY DEF Refuse, Room!Refuse
<1>2. Error(m) \in ToPage
    BY DEF ToPage
<1>3. inbox' \in Seq(ToPage) /\ Range(inbox') \subseteq Range(inbox) \cup {Error(m)}
    BY <1>1, <1>2, EmitTyped DEF Typed, NetTyped
<1>4. \A n : Error(n) \in Range(inbox') => n \in refused'
    BY <1>1, <1>3, EventsApart DEF Typed, RoomTyped
<1> QED
    BY <1>1, <1>3, <1>4
    DEF Typed, RoomTyped, NetTyped, PageTyped, pageVars, history

LEMMA TypedHear == Typed /\ Hear => Typed'
<1> SUFFICES ASSUME Typed, Hear PROVE Typed'
    OBVIOUS
<1>1. /\ outbox # <<>> /\ outbox' = Tail(outbox)
      /\ UNCHANGED <<roomVars, joined, inbox, joins, pageVars, fetch, history>>
    BY DEF Hear
<1>2. Head(outbox) \in ToServer /\ outbox' \in Seq(ToServer)
    BY <1>1, TailOfQueue DEF Typed, NetTyped
<1>3. relayed' \in BOOLEAN /\ received' \subseteq Mine
    BY <1>2, EventsApart DEF Hear, Typed, NetTyped, RoomTyped
<1> QED
    BY <1>1, <1>2, <1>3
    DEF Typed, RoomTyped, NetTyped, PageTyped, roomVars, pageVars, history, Range

LEMMA TypedReadHistory == Typed /\ ReadHistory => Typed'
<1> SUFFICES ASSUME Typed, ReadHistory PROVE Typed'
    OBVIOUS
<1>1. /\ covered' = joined
      /\ UNCHANGED <<roomVars, netVars, pageVars, told, cut, unheard>>
    BY DEF ReadHistory
<1>2. PICK i \in 1 .. Len(stored) + 1 :
          /\ fetch' = Answer(SubSeq(stored, i, Len(stored)))
          /\ beyond' = Range(stored) \ Range(SubSeq(stored, i, Len(stored)))
    BY DEF ReadHistory
<1>3. stored \in Seq(All)
    BY DEF Typed, RoomTyped
<1>4. SubSeq(stored, i, Len(stored)) \in Seq(All) /\ Range(stored) \subseteq All
    BY <1>3, SuffixOfLog, RangeOfSeq
<1>5. fetch' \in Answers /\ beyond' \subseteq All
    BY <1>2, <1>4, AnswersApart
<1> QED
    BY <1>1, <1>5
    DEF Typed, RoomTyped, NetTyped, PageTyped, roomVars, netVars, pageVars, Range

LEMMA TypedJoin == Typed /\ Join => Typed'
<1> SUFFICES ASSUME Typed, Join PROVE Typed'
    OBVIOUS
<1>1. /\ joins < MaxJoins /\ joins' = joins + 1 /\ joined' = TRUE /\ inbox' = <<Connected>>
      /\ UNCHANGED <<roomVars, received, relayed, outbox, pageVars, fetch, history>>
    BY DEF Join
<1>2. Connected \in ToPage
    BY DEF ToPage
<1>3. inbox' \in Seq(ToPage) /\ Range(inbox') = {Connected}
    BY <1>1, <1>2 DEF Range
<1>4. joins' \in 0 .. MaxJoins
    BY <1>1, BoundsAssumption DEF Typed, NetTyped
<1>5. \A m : Error(m) \notin Range(inbox')
    BY <1>3, EventsApart
<1> QED
    BY <1>1, <1>3, <1>4, <1>5
    DEF Typed, RoomTyped, NetTyped, PageTyped, roomVars, pageVars, history

LEMMA TypedDisconnected ==
    ASSUME Typed, Disconnected, outbox' = <<>> \/ outbox' = outbox,
           UNCHANGED <<roomVars, received, relayed, joins, told>>
    PROVE  RoomTyped' /\ NetTyped'
<1>1. Pending \subseteq Mine
    BY DEF Pending
<1>2. inbox' = <<>> /\ joined' = FALSE /\ cut' = cut \cup Pending
    BY DEF Disconnected
<1>3. Range(inbox') = {}
    BY <1>2 DEF Range
<1>4. <<>> \in Seq(ToPage) /\ <<>> \in Seq(ToServer)
    BY EmptySeq
<1> QED
    BY <1>1, <1>2, <1>3, <1>4 DEF Typed, RoomTyped, NetTyped, roomVars

LEMMA TypedEnds == Typed /\ (Drop \/ DeliverKick \/ Leave) => Typed'
<1> SUFFICES ASSUME Typed, Drop \/ DeliverKick \/ Leave PROVE Typed'
    OBVIOUS
<1>1. /\ Disconnected /\ UNCHANGED <<roomVars, received, relayed, joins, told>>
      /\ UNCHANGED <<visits, fetch, beyond>> /\ covered' = FALSE
      /\ outbox' = <<>> \/ outbox' = outbox
    BY DEF Drop, DeliverKick, Leave
<1>2. <<>> \in Seq(All)
    BY EmptySeq
<1>3. /\ status' \in Statuses /\ unheard' \in BOOLEAN /\ retry' \in BOOLEAN
      /\ snapshot' \in Seq(All) /\ live' \in Seq(All)
      /\ draft' \in Drafts /\ sendError' \in BOOLEAN
    BY <1>2 DEF Drop, DeliverKick, Leave, Typed, PageTyped, Statuses, Drafts
<1> QED
    BY <1>1, <1>3, TypedDisconnected DEF Typed, PageTyped

LEMMA TypedKick == Typed /\ Kick => Typed'
<1> SUFFICES ASSUME Typed, Kick PROVE Typed'
    OBVIOUS
<1>1. /\ inbox' = Append(inbox, Kicked)
      /\ UNCHANGED <<roomVars, received, relayed, joined, outbox, joins, pageVars, fetch, history>>
    BY DEF Kick
<1>2. Kicked \in ToPage
    BY DEF ToPage
<1>3. inbox' \in Seq(ToPage) /\ Range(inbox') = Range(inbox) \cup {Kicked}
    BY <1>1, <1>2, AppendToQueue, RangeOfAppend DEF Typed, NetTyped
<1>4. \A n : Error(n) \in Range(inbox') => Error(n) \in Range(inbox)
    BY <1>3, EventsApart
<1> QED
    BY <1>1, <1>3, <1>4
    DEF Typed, RoomTyped, NetTyped, PageTyped, roomVars, pageVars, history

LEMMA TypedDeliver == Typed /\ Deliver => Typed'
<1> SUFFICES ASSUME Typed, Deliver PROVE Typed'
    OBVIOUS
<1> DEFINE e == Head(inbox)
<1>1. /\ inbox # <<>> /\ inbox' = Tail(inbox)
      /\ UNCHANGED <<roomVars, received, relayed, joined, outbox, joins, visits, retry, snapshot,
                     draft, fetch, cut, unheard, covered, beyond>>
      /\ status' = IF e = Connected THEN "connected" ELSE status
      /\ live' = IF e.kind = "message" THEN Append(live, e.msg) ELSE live
      /\ sendError' = (sendError \/ e.kind = "error")
      /\ told' = IF e.kind = "error" THEN told \cup {e.msg} ELSE told
    BY DEF Deliver
<1>2. e \in ToPage /\ inbox' \in Seq(ToPage) /\ Range(inbox) = {e} \cup Range(inbox')
    BY <1>1, TailOfQueue, RangeOfTail DEF Typed, NetTyped
<1> HIDE DEF e
<1>3. live' \in Seq(All)
    <2>1. e.kind = "message" => e.msg \in All
        BY <1>2, EventsApart
    <2> QED
        BY <1>1, <2>1, AppendToQueue DEF Typed, PageTyped
<1>4. told' \subseteq refused
    <2>1. e.kind = "error" => e = Error(e.msg)
        BY <1>2, EventsApart
    <2> QED
        BY <1>1, <1>2, <2>1 DEF Typed, RoomTyped
<1>5. status' \in Statuses /\ sendError' \in BOOLEAN
    BY <1>1 DEF Typed, PageTyped, Statuses
<1> QED
    BY <1>1, <1>2, <1>3, <1>4, <1>5 DEF Typed, RoomTyped, NetTyped, PageTyped, roomVars

LEMMA TypedPage ==
    Typed /\ (ConnectError \/ Enter \/ HistoryArrives \/ HistoryFails) => Typed'
<1> SUFFICES ASSUME Typed, ConnectError \/ Enter \/ HistoryArrives \/ HistoryFails PROVE Typed'
    OBVIOUS
<1>1. UNCHANGED <<roomVars, netVars, told, cut>>
    BY DEF ConnectError, Enter, HistoryArrives, HistoryFails, pageVars, history
<1>2. RoomTyped' /\ NetTyped'
    BY <1>1 DEF Typed, RoomTyped, NetTyped, roomVars, netVars, Range
<1>3. <<>> \in Seq(All)
    BY EmptySeq
<1>4. CASE ConnectError
    <2>1. /\ UNCHANGED <<visits, snapshot, live, draft, sendError, fetch, unheard, covered, beyond>>
          /\ status' = "failed" /\ retry' \in BOOLEAN
        BY <1>4 DEF ConnectError, history
    <2> QED
        BY <1>2, <2>1 DEF Typed, PageTyped, Statuses
<1>5. CASE Enter
    <2>1. /\ UNCHANGED <<snapshot, live, draft, sendError, unheard, covered, beyond>>
          /\ status' = "connecting" /\ retry' = TRUE
          /\ visits < MaxVisits /\ visits' = visits + 1
          /\ fetch' \in {Asked, fetch}
        BY <1>5 DEF Enter, history
    <2>2. visits' \in 0 .. MaxVisits
        BY <2>1, BoundsAssumption DEF Typed, PageTyped
    <2>3. fetch' \in Answers
        BY <2>1, AnswersApart DEF Typed, PageTyped
    <2> QED
        BY <1>2, <2>1, <2>2, <2>3 DEF Typed, PageTyped, Statuses
<1>6. CASE HistoryArrives
    <2>1. /\ UNCHANGED <<visits, status, retry, live, draft, sendError, unheard, covered, beyond>>
          /\ fetch.state = "read" /\ fetch' = NoFetch
          /\ snapshot' \in {<<>>, fetch.messages}
        BY <1>6 DEF HistoryArrives, history
    <2>2. fetch' \in Answers /\ fetch.messages \in Seq(All)
        BY <2>1, AnswersApart DEF Typed, PageTyped
    <2> QED
        BY <1>2, <1>3, <2>1, <2>2 DEF Typed, PageTyped
<1>7. CASE HistoryFails
    <2>1. /\ UNCHANGED <<pageVars, unheard, beyond>> /\ fetch' = NoFetch /\ covered' = FALSE
        BY <1>7 DEF HistoryFails
    <2>2. fetch' \in Answers
        BY <2>1, AnswersApart
    <2> QED
        BY <1>2, <2>1, <2>2 DEF Typed, PageTyped, pageVars
<1> QED
    BY <1>4, <1>5, <1>6, <1>7

LEMMA TypedInput ==
    ASSUME Typed, Submit \/ \E d \in Drafts : Type(d)
    PROVE  Typed'
<1>1. /\ UNCHANGED <<roomVars, received, relayed, joined, inbox, joins, visits, status, retry,
                     snapshot, live, fetch, told, cut, covered, beyond>>
    BY DEF Submit, Type
<1>2. RoomTyped'
    BY <1>1 DEF Typed, RoomTyped, roomVars, Range
<1>3. /\ Typing(FALSE) \in ToServer /\ Typing(TRUE) \in ToServer
      /\ \A m \in Mine : Message(m) \in ToServer
    BY DEF ToServer
<1>4. CASE Submit
    <2>1. draft \notin {Empty, Blanks} /\ draft # TooLong => draft \in Mine
        BY DEF Typed, PageTyped, Drafts
    <2>2. ASSUME NEW m \in Mine, EmitMessage(m)
          PROVE  outbox' \in Seq(ToServer)
        <3>0. \A x, y \in ToServer : <<x, y>> \in Seq(ToServer)
            OBVIOUS
        <3>1. <<Message(m), Typing(FALSE)>> \in Seq(ToServer)
            BY <1>3, <2>2, <3>0
        <3> QED
            BY <2>2, <3>1, ConcatProperties DEF EmitMessage, Typed, NetTyped
    <2>3. outbox' \in Seq(ToServer)
        BY <1>4, <2>1, <2>2 DEF Submit, Typed, NetTyped
    <2>4. /\ draft' \in Drafts
          /\ sendError' \in BOOLEAN /\ unheard' \in BOOLEAN
        BY <1>4 DEF Submit, Typed, PageTyped, Drafts
    <2> QED
        BY <1>1, <1>2, <2>3, <2>4 DEF Typed, NetTyped, PageTyped
<1>5. CASE \E d \in Drafts : Type(d)
    <2>1. PICK d \in Drafts : Type(d)
        BY <1>5
    <2>2. Typing(d # Empty) \in ToServer
        BY DEF ToServer
    <2>3. outbox' \in Seq(ToServer)
        BY <2>1, <2>2, AppendToQueue DEF Type, Typed, NetTyped
    <2> QED
        BY <1>1, <1>2, <2>1, <2>3 DEF Type, Typed, NetTyped, PageTyped
<1> QED
    BY <1>4, <1>5

LEMMA TypedStep == Typed /\ [Next]_vars => Typed'
<1> SUFFICES ASSUME Typed, [Next]_vars PROVE Typed'
    OBVIOUS
<1>1. CASE UNCHANGED vars
    BY <1>1, TypedStutter
<1>2. CASE \E m \in Mine : StoreMine(m) \/ Refuse(m)
    BY <1>2, TypedStore, TypedRefuse DEF All
<1>3. CASE \E m \in Theirs : StoreTheirs(m)
    BY <1>3, TypedStore DEF All
<1>4. CASE \E m \in Mine \cup Theirs : Publish(m)
    BY <1>4, TypedPublish DEF All
<1>5. CASE Hear \/ ReadHistory \/ Join \/ Kick \/ Deliver
    BY <1>5, TypedHear, TypedReadHistory, TypedJoin, TypedKick, TypedDeliver
<1>6. CASE Drop \/ DeliverKick \/ Leave
    BY <1>6, TypedEnds
<1>7. CASE ConnectError \/ Enter \/ HistoryArrives \/ HistoryFails
    BY <1>7, TypedPage
<1>8. CASE Submit \/ \E d \in Drafts : Type(d)
    BY <1>8, TypedInput
<1> QED
    BY <1>1, <1>2, <1>3, <1>4, <1>5, <1>6, <1>7, <1>8 DEF Next

LEMMA TypedAlways == Spec => []Typed
BY TypedInit, TypedStep, PTL DEF Spec

\* The hook, the room and the connection keep their types, and the page was told
\* only of rejections that the room made.
THEOREM TypeCorrect == Spec => []TypeOK
BY TypedAlways, TypedIsTypeOK, PTL

-----------------------------------------------------------------------------
(* The typing line. *)

NoTyping(q) == \A i \in DOMAIN q : q[i].kind # "typing"

\* The last typing event of a queue says b.
LastTyping(q, b) ==
    \A i \in DOMAIN q :
        /\ q[i].kind = "typing"
        /\ \A j \in DOMAIN q : i < j => q[j].kind # "typing"
        => q[i].on = b

\* What the others will know of this user's typing, once all that is on its way
\* has arrived.
TypingTracked ==
    ~unheard =>
        /\ LastTyping(outbox, draft # Empty)
        /\ NoTyping(outbox) => relayed = (draft # Empty)

LEMMA TypingKept ==
    ASSUME TypingTracked, UNCHANGED <<outbox, relayed, draft, unheard>>
    PROVE  TypingTracked'
BY DEF TypingTracked, LastTyping, NoTyping

\* A typing event put last is the last one.
LEMMA TypingLast ==
    ASSUME NEW S, NEW q \in Seq(S), NEW b, Typing(b) \in S
    PROVE  LastTyping(Append(q, Typing(b)), b) /\ ~NoTyping(Append(q, Typing(b)))
<1> DEFINE t == Append(q, Typing(b))
<1>1. /\ DOMAIN t = 1 .. Len(q) + 1 /\ Len(q) \in Nat
      /\ t[Len(q) + 1] = Typing(b)
    BY AppendToQueue
<1>2. t[Len(q) + 1].kind = "typing" /\ t[Len(q) + 1].on = b
    BY <1>1, EventsApart
<1> HIDE DEF t
<1>3. Len(q) + 1 \in DOMAIN t /\ \A i \in DOMAIN t : i = Len(q) + 1 \/ i < Len(q) + 1
    BY <1>1
<1> QED
    BY <1>2, <1>3 DEF LastTyping, NoTyping, t

LEMMA TypingStep ==
    ASSUME Typed, TypingTracked, [Next]_vars
    PROVE  TypingTracked'
<1>0. outbox \in Seq(ToServer)
    BY DEF Typed, NetTyped
<1>1. CASE Hear
    <2>1. /\ outbox # <<>> /\ outbox' = Tail(outbox) /\ UNCHANGED <<draft, unheard>>
          /\ IF Head(outbox).kind = "typing" THEN relayed' = Head(outbox).on ELSE relayed' = relayed
        BY <1>1 DEF Hear, pageVars, history
    <2>2. /\ Head(outbox) = outbox[1] /\ 1 \in DOMAIN outbox
          /\ \A i \in DOMAIN outbox' : i + 1 \in DOMAIN outbox /\ outbox'[i] = outbox[i + 1]
          /\ \A i \in DOMAIN outbox :
                i = 1 \/ (i - 1 \in DOMAIN outbox' /\ outbox[i] = outbox'[i - 1])
          /\ DOMAIN outbox \subseteq Nat /\ DOMAIN outbox' \subseteq Nat
        BY <1>0, <2>1, TailOfQueue
    <2> SUFFICES ASSUME ~unheard
                 PROVE  /\ LastTyping(outbox', (draft # Empty)')
                        /\ NoTyping(outbox') => relayed' = (draft # Empty)'
        BY <2>1 DEF TypingTracked
    <2>3. LastTyping(outbox, draft # Empty) /\ (NoTyping(outbox) => relayed = (draft # Empty))
        BY DEF TypingTracked
    <2>4. LastTyping(outbox', (draft # Empty)')
        <3> SUFFICES ASSUME NEW i \in DOMAIN outbox', outbox'[i].kind = "typing",
                            \A j \in DOMAIN outbox' : i < j => outbox'[j].kind # "typing"
                     PROVE  outbox'[i].on = (draft # Empty)
            BY <2>1 DEF LastTyping
        <3>1. \A j \in DOMAIN outbox : i + 1 < j => outbox[j].kind # "typing"
            <4> SUFFICES ASSUME NEW j \in DOMAIN outbox, i + 1 < j
                         PROVE  outbox[j].kind # "typing"
                OBVIOUS
            <4>1. j - 1 \in DOMAIN outbox' /\ outbox[j] = outbox'[j - 1] /\ i < j - 1
                BY <2>2
            <4> QED
                BY <4>1
        <3> QED
            BY <2>2, <2>3, <3>1 DEF LastTyping
    <2>5. ASSUME NoTyping(outbox')
          PROVE  relayed' = (draft # Empty)
        <3>1. \A j \in DOMAIN outbox : 1 < j => outbox[j].kind # "typing"
            BY <2>2, <2>5 DEF NoTyping
        <3>2. CASE Head(outbox).kind = "typing"
            BY <2>1, <2>2, <2>3, <3>1, <3>2 DEF LastTyping
        <3>3. CASE Head(outbox).kind # "typing"
            <4>1. NoTyping(outbox)
                BY <2>2, <3>1, <3>3 DEF NoTyping
            <4> QED
                BY <2>1, <2>3, <3>3, <4>1
        <3> QED
            BY <3>2, <3>3
    <2> QED
        BY <2>1, <2>4, <2>5
<1>2. CASE \E d \in Drafts : Type(d)
    <2>1. PICK d \in Drafts : Type(d)
        BY <1>2
    <2>2. Typing(d # Empty) \in ToServer
        BY DEF ToServer
    <2>3. LastTyping(outbox', d # Empty) /\ ~NoTyping(outbox')
        BY <1>0, <2>1, <2>2, TypingLast DEF Type
    <2> QED
        BY <2>1, <2>3 DEF Type, TypingTracked
<1>3. CASE Submit
    <2>1. CASE draft = TooLong
        BY <1>3, <2>1, TypingKept DEF Submit
    <2>2. CASE draft # TooLong
        <3>1. draft' = Empty /\ EmitMessage(draft) /\ draft \in Mine
            BY <1>3, <2>2 DEF Submit, Typed, PageTyped, Drafts
        <3>2. Message(draft) \in ToServer /\ Typing(FALSE) \in ToServer
            BY <3>1 DEF ToServer
        <3>3. outbox' = Append(Append(outbox, Message(draft)), Typing(FALSE))
            <4>1. PICK sent, off \in ToServer : sent = Message(draft) /\ off = Typing(FALSE)
                BY <3>2
            <4>2. outbox' = outbox \o <<sent, off>>
                BY <3>1, <4>1 DEF EmitMessage
            <4>3. outbox \o <<sent, off>> = Append(Append(outbox, sent), off)
                BY <1>0, AppendTwo
            <4> QED
                BY <4>1, <4>2, <4>3
        <3>4. Append(outbox, Message(draft)) \in Seq(ToServer)
            BY <1>0, <3>2, AppendToQueue
        <3>5. LastTyping(outbox', FALSE) /\ ~NoTyping(outbox')
            BY <3>2, <3>3, <3>4, TypingLast
        <3> QED
            BY <3>1, <3>5 DEF TypingTracked
    <2> QED
        BY <2>1, <2>2
<1>4. CASE Drop /\ status # "connected"
    BY <1>4, TypingKept DEF Drop
<1>5. CASE Drop /\ status = "connected"
    <2>1. /\ outbox' = <<>> /\ UNCHANGED <<relayed, draft>>
          /\ unheard' = (unheard \/ \E b \in BOOLEAN : Typing(b) \in Range(outbox))
        BY <1>5 DEF Drop
    <2>2. ASSUME ~unheard'
          PROVE  NoTyping(outbox)
        <3> SUFFICES ASSUME NEW i \in DOMAIN outbox, outbox[i].kind = "typing"
                     PROVE  FALSE
            BY DEF NoTyping
        <3>1. outbox[i] \in Range(outbox) /\ outbox[i] \in ToServer
            BY <1>0, RangeOfSeq DEF Range
        <3>2. outbox[i].on \in BOOLEAN /\ outbox[i] = Typing(outbox[i].on)
            BY <3>1, EventsApart
        <3> QED
            BY <2>1, <2>2, <3>1, <3>2
    <2>3. unheard => unheard'
        BY <2>1
    <2>4. LastTyping(outbox', (draft # Empty)')
        BY <2>1 DEF LastTyping
    <2>5. ~unheard' => relayed' = (draft # Empty)'
        <3> SUFFICES ASSUME ~unheard' PROVE relayed = (draft # Empty)
            BY <2>1
        <3> QED
            BY <2>2, <2>3 DEF TypingTracked
    <2> QED
        BY <2>4, <2>5 DEF TypingTracked
<1>6. CASE DeliverKick \/ Leave
    BY <1>6 DEF DeliverKick, Leave, TypingTracked
<1>7. CASE \/ UNCHANGED vars
           \/ \E m \in Mine : StoreMine(m) \/ Refuse(m)
           \/ \E m \in Theirs : StoreTheirs(m)
           \/ \E m \in Mine \cup Theirs : Publish(m)
           \/ ReadHistory \/ Join \/ ConnectError \/ Kick \/ Deliver
           \/ Enter \/ HistoryArrives \/ HistoryFails
    BY <1>7, TypingKept
    DEF StoreMine, Refuse, StoreTheirs, Publish, ReadHistory, Join, ConnectError, Kick, Deliver,
        Enter, HistoryArrives, HistoryFails, vars, roomVars, netVars, pageVars, history
<1> QED
    BY <1>1, <1>2, <1>3, <1>4, <1>5, <1>6, <1>7 DEF Next

\* Once everything was sent, the others are told that this user is typing just
\* when its input holds anything, blanks among it (ChatRoom.tsx:26-29, 72-75, 78),
\* however often the page typed, submitted and lost its socket.
THEOREM TypingFollowsInput == Spec => []TypingCurrent
<1>1. Init => TypingTracked
    <2> SUFFICES ASSUME Init PROVE TypingTracked
        OBVIOUS
    <2>1. (draft # Empty) = FALSE /\ relayed = FALSE
        BY DEF Init
    <2>2. LastTyping(outbox, draft # Empty)
        BY DEF Init, LastTyping
    <2> QED
        BY <2>1, <2>2 DEF TypingTracked
<1>2. TypingTracked => TypingCurrent
    BY DEF TypingTracked, TypingCurrent, NoTyping
<1> QED
    BY <1>1, <1>2, TypingStep, TypedAlways, PTL DEF Spec

-----------------------------------------------------------------------------
(* The history and the live messages against the log. *)

\* m stands before n in a log.
Earlier(log, m, n) == \E i, j \in DOMAIN log : i < j /\ log[i] = m /\ log[j] = n

\* A sequence is a run of a log, and what the log has before it is in B.
RunOf(s, log, B) ==
    \E k \in 0 .. Len(log) :
        /\ \A i \in DOMAIN s : k + i \in DOMAIN log /\ s[i] = log[k + i]
        /\ \A i \in DOMAIN log : i <= k => log[i] \in B

IsMessage(e) == e.kind = "message"
Coming == { inbox[i].msg : i \in { i \in DOMAIN inbox : IsMessage(inbox[i]) } }

Logged == IsInjective(stored) /\ Range(published) \subseteq Range(stored)

\* What came or comes live was published, and comes in the order of the log.
HeardInOrder ==
    /\ Range(live) \subseteq Range(published) /\ Coming \subseteq Range(published)
    /\ \A i, j \in DOMAIN live : i < j => Earlier(stored, live[i], live[j])
    /\ \A i, j \in DOMAIN inbox :
          i < j /\ IsMessage(inbox[i]) /\ IsMessage(inbox[j])
            => Earlier(stored, inbox[i].msg, inbox[j].msg)
    /\ \A i \in DOMAIN live, j \in DOMAIN inbox :
          IsMessage(inbox[j]) => Earlier(stored, live[i], inbox[j].msg)

\* A history, read or shown, is a run of the log, and there is one at a time.
HistoryIsRun ==
    /\ fetch.state = "read" => RunOf(fetch.messages, stored, beyond)
    /\ snapshot # <<>> => fetch = NoFetch /\ RunOf(snapshot, stored, beyond)
    /\ status = "away" => snapshot = <<>> /\ ~joined

\* A socket that was joined when the history was read still is, and between
\* them they have everything published.
CoveredWhole ==
    covered =>
        /\ joined /\ fetch # Asked
        /\ Range(published) \subseteq
              Range(IF fetch = NoFetch THEN snapshot ELSE fetch.messages)
                \cup Range(live) \cup Coming \cup beyond

Sight == Logged /\ HeardInOrder /\ HistoryIsRun /\ CoveredWhole

LEMMA EarlierStays ==
    ASSUME NEW S, NEW log \in Seq(S), NEW e \in S, NEW m, NEW n, Earlier(log, m, n)
    PROVE  Earlier(Append(log, e), m, n)
<1>1. PICK i, j \in DOMAIN log : i < j /\ log[i] = m /\ log[j] = n
    BY DEF Earlier
<1>2. i \in DOMAIN Append(log, e) /\ j \in DOMAIN Append(log, e)
    BY AppendToQueue
<1> QED
    BY <1>1, <1>2, AppendToQueue DEF Earlier

LEMMA RunStays ==
    ASSUME NEW S, NEW log \in Seq(S), NEW e \in S, NEW B, NEW s, RunOf(s, log, B)
    PROVE  RunOf(s, Append(log, e), B)
<1> DEFINE longer == Append(log, e)
<1>1. PICK k \in 0 .. Len(log) :
          /\ \A i \in DOMAIN s : k + i \in DOMAIN log /\ s[i] = log[k + i]
          /\ \A i \in DOMAIN log : i <= k => log[i] \in B
    BY DEF RunOf
<1>2. /\ DOMAIN log = 1 .. Len(log) /\ Len(log) \in Nat /\ DOMAIN longer = 1 .. Len(log) + 1
      /\ \A i \in DOMAIN log : longer[i] = log[i]
      /\ Len(longer) = Len(log) + 1
    BY AppendToQueue, AppendProperties
<1> HIDE DEF longer
<1>3. k \in 0 .. Len(longer)
    BY <1>1, <1>2
<1>4. \A i \in DOMAIN s : k + i \in DOMAIN longer /\ s[i] = longer[k + i]
    BY <1>1, <1>2
<1>5. \A i \in DOMAIN longer : i <= k => longer[i] \in B
    BY <1>1, <1>2
<1> QED
    BY <1>3, <1>4, <1>5 DEF RunOf, longer

\* Storing a message moves nothing in the log.
LEMMA SightStore ==
    ASSUME Typed, Sight, NEW m \in All, StoreMine(m) \/ StoreTheirs(m)
    PROVE  Sight'
<1>1. /\ stored' = Append(stored, m) /\ m \notin Room!Elements(stored)
      /\ UNCHANGED <<published, live, inbox, fetch, snapshot, beyond, status, joined, covered>>
    BY DEF StoreMine, StoreTheirs, Room!Store, netVars, pageVars, history
<1>2. stored \in Seq(All)
    BY DEF Typed, RoomTyped
<1>3. /\ DOMAIN stored = 1 .. Len(stored) /\ Len(stored) \in Nat
      /\ DOMAIN stored' = 1 .. Len(stored) + 1
      /\ \A i \in DOMAIN stored : stored'[i] = stored[i]
      /\ stored'[Len(stored) + 1] = m
    BY <1>1, <1>2, AppendToQueue
<1>4. Logged'
    <2>1. \A i \in DOMAIN stored : stored[i] # m
        BY <1>1 DEF Room!Elements
    <2>2. IsInjective(stored')
        BY <1>3, <2>1 DEF Sight, Logged, IsInjective
    <2>3. Range(stored) \subseteq Range(stored')
        BY <1>3 DEF Range
    <2> QED
        BY <1>1, <2>2, <2>3 DEF Sight, Logged
<1>5. \A a, b : Earlier(stored, a, b) => Earlier(stored', a, b)
    BY <1>1, <1>2, EarlierStays
<1>6. HeardInOrder'
    BY <1>1, <1>5 DEF Sight, HeardInOrder, Coming
<1>7. \A s : RunOf(s, stored, beyond) => RunOf(s, stored', beyond)
    BY <1>1, <1>2, RunStays
<1>8. HistoryIsRun'
    BY <1>1, <1>7 DEF Sight, HistoryIsRun
<1>9. CoveredWhole'
    BY <1>1 DEF Sight, CoveredWhole, Coming
<1> QED
    BY <1>4, <1>6, <1>8, <1>9 DEF Sight

\* What a page does beside its history, its socket and its list.
LEMMA SightKept ==
    ASSUME Sight,
           UNCHANGED <<stored, published, live, inbox, fetch, snapshot, beyond, status, joined, covered>>
    PROVE  Sight'
BY DEF Sight, Logged, HeardInOrder, HistoryIsRun, CoveredWhole, Coming

\* An event that is no message joins the queue of the page.
LEMMA SightNotice ==
    ASSUME Typed, Sight, NEW e \in ToPage, ~IsMessage(e),
           inbox' = inbox \/ inbox' = Append(inbox, e),
           UNCHANGED <<stored, published, live, fetch, snapshot, beyond, status, joined, covered>>
    PROVE  Sight'
<1>0. inbox \in Seq(ToPage)
    BY DEF Typed, NetTyped
<1>1. CASE inbox' = inbox
    BY <1>1, SightKept
<1>2. CASE inbox' = Append(inbox, e)
    <2>1. /\ DOMAIN inbox = 1 .. Len(inbox) /\ Len(inbox) \in Nat
          /\ DOMAIN inbox' = 1 .. Len(inbox) + 1
          /\ \A i \in DOMAIN inbox : inbox'[i] = inbox[i]
          /\ inbox'[Len(inbox) + 1] = e
        BY <1>0, <1>2, AppendToQueue
    <2>2. \A i \in DOMAIN inbox' : IsMessage(inbox'[i]) => i \in DOMAIN inbox /\ inbox'[i] = inbox[i]
        BY <2>1
    <2>3. \A i \in DOMAIN inbox : i \in DOMAIN inbox' /\ inbox'[i] = inbox[i]
        BY <2>1
    <2>4. Coming' = Coming
        BY <2>2, <2>3 DEF Coming
    <2>5. HeardInOrder'
        BY <2>2, <2>4 DEF Sight, HeardInOrder
    <2> QED
        BY <2>4, <2>5 DEF Sight, Logged, HistoryIsRun, CoveredWhole
<1> QED
    BY <1>1, <1>2

\* A message that is published lies in the log behind all that were.
LEMMA SightPublish ==
    ASSUME Typed, Sight, NEW m \in All, Publish(m)
    PROVE  Sight'
<1>1. /\ published' = Append(published, m)
      /\ UNCHANGED <<stored, live, fetch, snapshot, beyond, status, joined, covered>>
      /\ Emit(Message(m))
    BY DEF Publish, Room!Publish, pageVars, history
<1>2. PICK p \in DOMAIN stored :
          /\ stored[p] = m
          /\ \A j \in p .. Len(stored) : stored[j] \notin Room!Elements(published)
    BY DEF Publish, Room!Publish
<1>3. /\ stored \in Seq(All) /\ published \in Seq(All) /\ inbox \in Seq(ToPage)
      /\ DOMAIN stored = 1 .. Len(stored) /\ Len(stored) \in Nat
    BY LenProperties DEF Typed, RoomTyped, NetTyped
<1>4. Range(published') = Range(published) \cup {m}
    BY <1>1, <1>3, RangeOfAppend
<1>5. \A n \in Range(published) : Earlier(stored, n, m)
    <2> TAKE n \in Range(published)
    <2>1. PICK j \in DOMAIN stored : stored[j] = n
        BY DEF Sight, Logged, Range
    <2>2. n \in Room!Elements(published)
        BY DEF Range, Room!Elements
    <2>3. ~(j \in p .. Len(stored))
        BY <1>2, <2>1, <2>2
    <2>4. j < p
        BY <1>3, <2>3
    <2> QED
        BY <1>2, <2>1, <2>4 DEF Earlier
<1>6. Logged'
    BY <1>1, <1>2, <1>4 DEF Sight, Logged, Range
<1>7. HistoryIsRun'
    BY <1>1 DEF Sight, HistoryIsRun
<1>8. Message(m) \in ToPage /\ IsMessage(Message(m)) /\ Message(m).msg = m
    BY EventsApart DEF ToPage, IsMessage
<1>9. CASE joined
    <2>1. inbox' = Append(inbox, Message(m))
        BY <1>1, <1>9 DEF Emit
    <2>2. /\ DOMAIN inbox = 1 .. Len(inbox) /\ Len(inbox) \in Nat
          /\ DOMAIN inbox' = 1 .. Len(inbox) + 1
          /\ \A i \in DOMAIN inbox : inbox'[i] = inbox[i]
          /\ inbox'[Len(inbox) + 1] = Message(m)
        BY <1>3, <1>8, <2>1, AppendToQueue
    <2>3. Coming' = Coming \cup {m}
        <3>1. \A x \in Coming' : x \in Coming \cup {m}
            BY <1>8, <2>2 DEF Coming
        <3>2. \A x \in Coming : x \in Coming'
            BY <2>2 DEF Coming
        <3>3. m \in Coming'
            <4>1. Len(inbox) + 1 \in DOMAIN inbox'
                BY <2>2
            <4> QED
                BY <1>8, <2>2, <4>1 DEF Coming
        <3> QED
            BY <3>1, <3>2, <3>3
    <2>4. \A i \in DOMAIN inbox : IsMessage(inbox[i]) => Earlier(stored, inbox[i].msg, m)
        BY <1>5 DEF Sight, HeardInOrder, Coming
    <2>5. \A i \in DOMAIN live : Earlier(stored, live[i], m)
        BY <1>5 DEF Sight, HeardInOrder, Range
    <2>6. \A i, j \in DOMAIN inbox' :
              i < j /\ IsMessage(inbox'[i]) /\ IsMessage(inbox'[j])
                => Earlier(stored, inbox'[i].msg, inbox'[j].msg)
        <3> SUFFICES ASSUME NEW i \in DOMAIN inbox', NEW j \in DOMAIN inbox',
                            i < j, IsMessage(inbox'[i]), IsMessage(inbox'[j])
                     PROVE  Earlier(stored, inbox'[i].msg, inbox'[j].msg)
            OBVIOUS
        <3>1. i \in DOMAIN inbox /\ inbox'[i] = inbox[i]
            BY <2>2
        <3>2. CASE j \in DOMAIN inbox
            BY <2>2, <3>1, <3>2 DEF Sight, HeardInOrder
        <3>3. CASE j = Len(inbox) + 1
            BY <1>8, <2>2, <2>4, <3>1, <3>3
        <3> QED
            BY <2>2, <3>2, <3>3
    <2>7. \A i \in DOMAIN live, j \in DOMAIN inbox' :
              IsMessage(inbox'[j]) => Earlier(stored, live[i], inbox'[j].msg)
        <3> SUFFICES ASSUME NEW i \in DOMAIN live, NEW j \in DOMAIN inbox', IsMessage(inbox'[j])
                     PROVE  Earlier(stored, live[i], inbox'[j].msg)
            OBVIOUS
        <3>1. CASE j \in DOMAIN inbox
            BY <2>2, <3>1 DEF Sight, HeardInOrder
        <3>2. CASE j = Len(inbox) + 1
            BY <1>8, <2>2, <2>5, <3>2
        <3> QED
            BY <2>2, <3>1, <3>2
    <2>8. HeardInOrder'
        BY <1>1, <1>4, <2>3, <2>6, <2>7 DEF Sight, HeardInOrder
    <2>9. CoveredWhole'
        BY <1>1, <1>4, <2>3 DEF Sight, CoveredWhole
    <2> QED
        BY <1>6, <1>7, <2>8, <2>9 DEF Sight
<1>10. CASE ~joined
    <2>1. inbox' = inbox
        BY <1>1, <1>10 DEF Emit
    <2>2. HeardInOrder'
        BY <1>1, <1>4, <2>1 DEF Sight, HeardInOrder, Coming
    <2>3. CoveredWhole'
        BY <1>1, <1>10 DEF Sight, CoveredWhole
    <2> QED
        BY <1>6, <1>7, <2>2, <2>3 DEF Sight
<1> QED
    BY <1>9, <1>10

\* A message leaves the queue for the list.
LEMMA SightDeliver ==
    ASSUME Typed, Sight, Deliver
    PROVE  Sight'
<1> DEFINE e == Head(inbox)
<1>1. /\ inbox # <<>> /\ inbox' = Tail(inbox)
      /\ UNCHANGED <<stored, published, fetch, snapshot, beyond, joined, covered>>
      /\ status' = IF e = Connected THEN "connected" ELSE status
      /\ live' = IF IsMessage(e) THEN Append(live, e.msg) ELSE live
    BY DEF Deliver, roomVars, IsMessage
<1>2. inbox \in Seq(ToPage) /\ live \in Seq(All)
    BY DEF Typed, NetTyped, PageTyped
<1>3. /\ e = inbox[1] /\ 1 \in DOMAIN inbox /\ e \in ToPage
      /\ \A i \in DOMAIN inbox' : i + 1 \in DOMAIN inbox /\ inbox'[i] = inbox[i + 1]
      /\ \A i \in DOMAIN inbox : i = 1 \/ (i - 1 \in DOMAIN inbox' /\ inbox[i] = inbox'[i - 1])
      /\ DOMAIN inbox \subseteq Nat /\ DOMAIN inbox' \subseteq Nat
      /\ \A i \in DOMAIN inbox' : i >= 1
    <2>1. inbox' \in Seq(ToPage)
        BY <1>1, <1>2, TailOfQueue
    <2>2. \A i \in DOMAIN inbox' : i >= 1
        BY <2>1, LenProperties
    <2> QED
        BY <1>1, <1>2, <2>2, TailOfQueue
<1> HIDE DEF e
<1>4. Coming \subseteq Coming' \cup {e.msg} /\ (IsMessage(e) \/ Coming \subseteq Coming')
    <2> SUFFICES ASSUME NEW i \in DOMAIN inbox, IsMessage(inbox[i])
                 PROVE  inbox[i].msg \in Coming' \/ (IsMessage(e) /\ inbox[i].msg = e.msg)
        BY DEF Coming
    <2> QED
        BY <1>3 DEF Coming
<1>5. Coming' \subseteq Coming
    BY <1>3 DEF Coming
<1>6. \A i, j \in DOMAIN inbox' :
          i < j /\ IsMessage(inbox'[i]) /\ IsMessage(inbox'[j])
            => Earlier(stored, inbox'[i].msg, inbox'[j].msg)
    <2> SUFFICES ASSUME NEW i \in DOMAIN inbox', NEW j \in DOMAIN inbox',
                        i < j, IsMessage(inbox'[i]), IsMessage(inbox'[j])
                 PROVE  Earlier(stored, inbox'[i].msg, inbox'[j].msg)
        OBVIOUS
    <2>1. i + 1 \in DOMAIN inbox /\ j + 1 \in DOMAIN inbox /\ i + 1 < j + 1
        BY <1>3
    <2> QED
        BY <1>3, <2>1 DEF Sight, HeardInOrder
<1>7. \A i \in DOMAIN live, j \in DOMAIN inbox' :
          IsMessage(inbox'[j]) => Earlier(stored, live[i], inbox'[j].msg)
    BY <1>3 DEF Sight, HeardInOrder
<1>8. HistoryIsRun'
    <2>1. status = "away" => joined' = FALSE /\ snapshot' = <<>>
        BY <1>1 DEF Sight, HistoryIsRun, Typed, NetTyped
    <2> QED
        BY <1>1, <2>1 DEF Sight, HistoryIsRun
<1>9. CASE ~IsMessage(e)
    <2>1. HeardInOrder'
        BY <1>1, <1>5, <1>6, <1>7, <1>9 DEF Sight, HeardInOrder
    <2>2. CoveredWhole'
        BY <1>1, <1>4, <1>9 DEF Sight, CoveredWhole
    <2> QED
        BY <1>1, <1>8, <2>1, <2>2 DEF Sight, Logged
<1>10. CASE IsMessage(e)
    <2>1. e.msg \in All /\ e.msg \in Coming
        BY <1>3, <1>10, EventsApart DEF Coming, IsMessage
    <2>2. live' = Append(live, e.msg)
        BY <1>1, <1>10
    <2>3. /\ DOMAIN live = 1 .. Len(live) /\ Len(live) \in Nat
          /\ DOMAIN live' = 1 .. Len(live) + 1
          /\ \A i \in DOMAIN live : live'[i] = live[i]
          /\ live'[Len(live) + 1] = e.msg
        BY <1>2, <2>1, <2>2, AppendToQueue
    <2>4. Range(live') = Range(live) \cup {e.msg}
        BY <1>2, <2>1, <2>2, RangeOfAppend
    <2>5. \A i \in DOMAIN live : Earlier(stored, live[i], e.msg)
        BY <1>3, <1>10 DEF Sight, HeardInOrder
    <2>6. \A i, j \in DOMAIN live' : i < j => Earlier(stored, live'[i], live'[j])
        <3> SUFFICES ASSUME NEW i \in DOMAIN live', NEW j \in DOMAIN live', i < j
                     PROVE  Earlier(stored, live'[i], live'[j])
            OBVIOUS
        <3>1. i \in DOMAIN live
            BY <2>3
        <3>2. CASE j \in DOMAIN live
            BY <2>3, <3>1, <3>2 DEF Sight, HeardInOrder
        <3>3. CASE j = Len(live) + 1
            BY <2>3, <2>5, <3>1, <3>3
        <3> QED
            BY <2>3, <3>2, <3>3
    <2>7. \A j \in DOMAIN inbox' : IsMessage(inbox'[j]) => Earlier(stored, e.msg, inbox'[j].msg)
        <3> SUFFICES ASSUME NEW j \in DOMAIN inbox', IsMessage(inbox'[j])
                     PROVE  Earlier(stored, e.msg, inbox'[j].msg)
            OBVIOUS
        <3>1. j + 1 \in DOMAIN inbox /\ inbox'[j] = inbox[j + 1] /\ 1 < j + 1
            BY <1>3
        <3> QED
            BY <1>3, <1>10, <3>1 DEF Sight, HeardInOrder
    <2>8. \A i \in DOMAIN live', j \in DOMAIN inbox' :
              IsMessage(inbox'[j]) => Earlier(stored, live'[i], inbox'[j].msg)
        <3> SUFFICES ASSUME NEW i \in DOMAIN live', NEW j \in DOMAIN inbox', IsMessage(inbox'[j])
                     PROVE  Earlier(stored, live'[i], inbox'[j].msg)
            OBVIOUS
        <3>1. CASE i \in DOMAIN live
            BY <1>7, <2>3, <3>1
        <3>2. CASE i = Len(live) + 1
            BY <2>3, <2>7, <3>2
        <3> QED
            BY <2>3, <3>1, <3>2
    <2>9. HeardInOrder'
        BY <1>1, <1>5, <1>6, <2>1, <2>4, <2>6, <2>8 DEF Sight, HeardInOrder
    <2>10. CoveredWhole'
        BY <1>1, <1>4, <2>4 DEF Sight, CoveredWhole
    <2> QED
        BY <1>1, <1>8, <2>9, <2>10 DEF Sight, Logged
<1> QED
    BY <1>9, <1>10

\* The history that is read is the end of the log; the rest of what was
\* published is beyond it.
LEMMA SightReadHistory ==
    ASSUME Typed, Sight, ReadHistory
    PROVE  Sight'
<1>1. /\ fetch = Asked /\ covered' = joined
      /\ UNCHANGED <<stored, published, live, inbox, snapshot, status, joined>>
    BY DEF ReadHistory, roomVars, netVars, pageVars
<1>2. PICK i \in 1 .. Len(stored) + 1 :
          /\ fetch' = Answer(SubSeq(stored, i, Len(stored)))
          /\ beyond' = Range(stored) \ Range(SubSeq(stored, i, Len(stored)))
    BY DEF ReadHistory
<1> DEFINE t == SubSeq(stored, i, Len(stored))
<1>3. /\ DOMAIN stored = 1 .. Len(stored) /\ Len(stored) \in Nat
      /\ t \in Seq(All) /\ DOMAIN t = 1 .. Len(t) /\ Len(t) \in Nat
      /\ \A j \in DOMAIN t : i + j - 1 \in DOMAIN stored /\ t[j] = stored[i + j - 1]
      /\ \A j \in DOMAIN stored :
            j < i \/ (j - i + 1 \in DOMAIN t /\ t[j - i + 1] = stored[j])
    <2>1. stored \in Seq(All)
        BY DEF Typed, RoomTyped
    <2>2. t \in Seq(All)
        BY <2>1, SuffixOfLog
    <2> QED
        BY <2>1, <2>2, SuffixOfLog, LenProperties
<1>4. fetch' = Answer(t) /\ beyond' = Range(stored) \ Range(t)
    BY <1>2
<1> HIDE DEF t
<1>5. fetch'.state = "read" /\ fetch'.messages = t /\ fetch' # NoFetch /\ fetch' # Asked
    BY <1>4, AnswersApart
<1>6. RunOf(t, stored, beyond')
    <2>1. i - 1 \in 0 .. Len(stored)
        BY <1>2, <1>3
    <2>2. \A j \in DOMAIN t : (i - 1) + j \in DOMAIN stored /\ t[j] = stored[(i - 1) + j]
        <3> TAKE j \in DOMAIN t
        <3>1. i + j - 1 = (i - 1) + j
            BY <1>2, <1>3
        <3> QED
            BY <1>3, <3>1
    <2>3. \A j \in DOMAIN stored : j <= i - 1 => stored[j] \in beyond'
        <3> SUFFICES ASSUME NEW j \in DOMAIN stored, j <= i - 1, stored[j] \in Range(t)
                     PROVE  FALSE
            BY <1>4 DEF Range
        <3>1. PICK n \in DOMAIN t : t[n] = stored[j]
            BY DEF Range
        <3>2. i + n - 1 \in DOMAIN stored /\ stored[i + n - 1] = stored[j] /\ n >= 1
            BY <1>3, <3>1
        <3>3. i + n - 1 = j
            BY <3>2 DEF Sight, Logged, IsInjective
        <3> QED
            BY <1>2, <1>3, <3>2, <3>3
    <2> QED
        BY <2>1, <2>2, <2>3 DEF RunOf
<1>7. snapshot = <<>>
    BY <1>1, AnswersApart DEF Sight, HistoryIsRun
<1>8. HistoryIsRun'
    BY <1>1, <1>5, <1>6, <1>7 DEF Sight, HistoryIsRun
<1>9. Range(published) \subseteq Range(t) \cup beyond'
    BY <1>4 DEF Sight, Logged
<1>10. CoveredWhole'
    BY <1>1, <1>5, <1>9 DEF CoveredWhole
<1>11. HeardInOrder'
    BY <1>1 DEF Sight, HeardInOrder, Coming
<1> QED
    BY <1>1, <1>8, <1>10, <1>11 DEF Sight, Logged

LEMMA SightJoin ==
    ASSUME Typed, Sight, Join
    PROVE  Sight'
<1>1. /\ ~joined /\ status # "away" /\ joined' = TRUE /\ inbox' = <<Connected>>
      /\ UNCHANGED <<stored, published, live, fetch, snapshot, beyond, status, covered>>
    BY DEF Join, roomVars, pageVars, history
<1>2. \A i \in DOMAIN inbox' : ~IsMessage(inbox'[i])
    BY <1>1, EventsApart DEF IsMessage
<1>3. Coming' = {}
    BY <1>2 DEF Coming
<1>4. HeardInOrder'
    BY <1>1, <1>2, <1>3 DEF Sight, HeardInOrder
<1>5. HistoryIsRun'
    BY <1>1 DEF Sight, HistoryIsRun
<1>6. CoveredWhole'
    BY <1>1 DEF Sight, CoveredWhole
<1> QED
    BY <1>1, <1>4, <1>5, <1>6 DEF Sight, Logged

\* The end of a socket takes what was on its way, and what covered the history.
LEMMA SightEnds ==
    ASSUME Typed, Sight, Drop \/ DeliverKick \/ Leave
    PROVE  Sight'
<1>1. /\ joined' = FALSE /\ inbox' = <<>> /\ covered' = FALSE
      /\ UNCHANGED <<stored, published, fetch, beyond>>
      /\ \/ snapshot' = <<>> /\ live' = <<>>
         \/ status' = "reconnecting" /\ UNCHANGED <<snapshot, live>>
    BY DEF Drop, DeliverKick, Leave, Disconnected, roomVars
<1>2. Coming' = {} /\ DOMAIN inbox' = {}
    BY <1>1 DEF Coming
<1>3. HeardInOrder'
    <2>1. CASE live' = <<>>
        BY <1>1, <1>2, <2>1 DEF HeardInOrder, Range
    <2>2. CASE live' = live
        BY <1>1, <1>2, <2>2 DEF Sight, HeardInOrder
    <2> QED
        BY <1>1, <2>1, <2>2
<1>4. HistoryIsRun'
    BY <1>1 DEF Sight, HistoryIsRun
<1>5. CoveredWhole'
    BY <1>1 DEF CoveredWhole
<1> QED
    BY <1>1, <1>3, <1>4, <1>5 DEF Sight, Logged

LEMMA SightPage ==
    ASSUME Typed, Sight, ConnectError \/ Enter \/ HistoryArrives \/ HistoryFails
    PROVE  Sight'
<1>1. UNCHANGED <<stored, published, live, inbox, beyond, joined>>
    BY DEF ConnectError, Enter, HistoryArrives, HistoryFails, roomVars, netVars, pageVars, history
<1>2. Logged' /\ HeardInOrder' /\ Coming' = Coming
    BY <1>1 DEF Sight, Logged, HeardInOrder, Coming
<1>3. CASE ConnectError
    <2>1. status' = "failed" /\ UNCHANGED <<snapshot, fetch, covered>>
        BY <1>3 DEF ConnectError, history
    <2> QED
        BY <1>1, <1>2, <2>1 DEF Sight, HistoryIsRun, CoveredWhole
<1>4. CASE Enter
    <2>1. /\ status = "away" /\ status' = "connecting" /\ UNCHANGED <<snapshot, covered>>
          /\ fetch' = IF fetch = NoFetch THEN Asked ELSE fetch
        BY <1>4 DEF Enter, history
    <2>2. snapshot = <<>> /\ ~joined
        BY <2>1 DEF Sight, HistoryIsRun
    <2>3. HistoryIsRun'
        BY <1>1, <2>1, <2>2, AnswersApart DEF Sight, HistoryIsRun
    <2>4. CoveredWhole'
        BY <1>1, <2>1, <2>2 DEF Sight, CoveredWhole
    <2> QED
        BY <1>2, <2>3, <2>4 DEF Sight
<1>5. CASE HistoryArrives
    <2>1. /\ fetch.state = "read" /\ fetch' = NoFetch /\ UNCHANGED <<status, covered>>
          /\ snapshot' = IF status = "away" THEN <<>> ELSE fetch.messages
        BY <1>5 DEF HistoryArrives, history
    <2>2. HistoryIsRun'
        BY <1>1, <2>1, AnswersApart DEF Sight, HistoryIsRun
    <2>3. CoveredWhole'
        <3>1. covered => status # "away" /\ fetch # NoFetch
            BY <2>1, AnswersApart DEF Sight, CoveredWhole, HistoryIsRun
        <3> QED
            BY <1>1, <1>2, <2>1, <3>1, AnswersApart DEF Sight, CoveredWhole
    <2> QED
        BY <1>2, <2>2, <2>3 DEF Sight
<1>6. CASE HistoryFails
    <2>1. fetch' = NoFetch /\ covered' = FALSE /\ UNCHANGED <<status, snapshot>>
        BY <1>6 DEF HistoryFails, pageVars
    <2>2. HistoryIsRun'
        BY <1>1, <2>1, AnswersApart DEF Sight, HistoryIsRun
    <2> QED
        BY <1>2, <2>1, <2>2 DEF Sight, CoveredWhole
<1> QED
    BY <1>3, <1>4, <1>5, <1>6

LEMMA SightStep ==
    ASSUME Typed, Sight, [Next]_vars
    PROVE  Sight'
<1>1. CASE UNCHANGED vars
    BY <1>1, SightKept DEF vars, roomVars, netVars, pageVars, history
<1>2. CASE \E m \in Mine : StoreMine(m)
    BY <1>2, SightStore DEF All
<1>3. CASE \E m \in Theirs : StoreTheirs(m)
    BY <1>3, SightStore DEF All
<1>4. CASE \E m \in Mine : Refuse(m)
    <2>1. PICK m \in Mine : Refuse(m)
        BY <1>4
    <2>2. Error(m) \in ToPage /\ ~IsMessage(Error(m))
        BY EventsApart DEF ToPage, IsMessage
    <2>3. /\ inbox' = inbox \/ inbox' = Append(inbox, Error(m))
          /\ UNCHANGED <<stored, published, live, fetch, snapshot, beyond, status, joined, covered>>
        BY <2>1 DEF Refuse, Room!Refuse, Emit, pageVars, history
    <2> QED
        BY <2>2, <2>3, SightNotice
<1>5. CASE \E m \in Mine \cup Theirs : Publish(m)
    BY <1>5, SightPublish DEF All
<1>6. CASE Hear
    BY <1>6, SightKept DEF Hear, roomVars, pageVars, history
<1>7. CASE Kick
    <2>1. Kicked \in ToPage /\ ~IsMessage(Kicked)
        BY EventsApart DEF ToPage, IsMessage
    <2>2. /\ inbox' = Append(inbox, Kicked)
          /\ UNCHANGED <<stored, published, live, fetch, snapshot, beyond, status, joined, covered>>
        BY <1>7 DEF Kick, roomVars, pageVars, history
    <2> QED
        BY <2>1, <2>2, SightNotice
<1>8. CASE ReadHistory \/ Join \/ Deliver
    BY <1>8, SightReadHistory, SightJoin, SightDeliver
<1>9. CASE Drop \/ DeliverKick \/ Leave
    BY <1>9, SightEnds
<1>10. CASE ConnectError \/ Enter \/ HistoryArrives \/ HistoryFails
    BY <1>10, SightPage
<1>11. CASE Submit \/ \E d \in Drafts : Type(d)
    BY <1>11, SightKept DEF Submit, Type, roomVars
<1> QED
    BY <1>1, <1>2, <1>3, <1>4, <1>5, <1>6, <1>7, <1>8, <1>9, <1>10, <1>11 DEF Next

LEMMA SightInit == Init => Sight
<1> SUFFICES ASSUME Init PROVE Sight
    OBVIOUS
<1>1. /\ stored = <<>> /\ published = <<>> /\ live = <<>> /\ inbox = <<>> /\ snapshot = <<>>
      /\ fetch = NoFetch /\ ~joined /\ ~covered
    BY DEF Init, Room!Init
<1>2. Coming = {} /\ Range(published) = {} /\ Range(live) = {}
    BY <1>1 DEF Coming, Range
<1>3. Logged
    BY <1>1, <1>2 DEF Logged, IsInjective
<1>4. HeardInOrder
    BY <1>1, <1>2 DEF HeardInOrder
<1>5. HistoryIsRun
    BY <1>1, AnswersApart DEF HistoryIsRun
<1> QED
    BY <1>1, <1>3, <1>4, <1>5 DEF Sight, CoveredWhole

LEMMA SightAlways == Spec => []Sight
BY SightInit, SightStep, TypedAlways, PTL DEF Spec

-----------------------------------------------------------------------------
(* The list on the screen. *)

Fresh == { i \in DOMAIN live : live[i] \notin Range(snapshot) }

LEMMA ShownPlaces ==
    /\ DOMAIN Shown = ({1} \X DOMAIN snapshot) \cup ({2} \X Fresh)
    /\ \A i \in DOMAIN snapshot : <<1, i>> \in DOMAIN Shown /\ Shown[<<1, i>>] = snapshot[i]
    /\ \A i \in Fresh : <<2, i>> \in DOMAIN Shown /\ Shown[<<2, i>>] = live[i]
    /\ \A p \in DOMAIN Shown : \/ \E i \in DOMAIN snapshot : p = <<1, i>>
                               \/ \E i \in Fresh : p = <<2, i>>
BY DEF Shown, Fresh

\* Two messages of the log are in the order of their positions.
LEMMA Positions ==
    ASSUME Typed, Sight, NEW i \in DOMAIN stored
    PROVE  Position(stored[i]) = i
BY DEF Position, Sight, Logged, IsInjective

LEMMA SightShows ==
    ASSUME Typed, Sight
    PROVE  ShownInOrder
<1>0. /\ DOMAIN stored = 1 .. Len(stored) /\ Len(stored) \in Nat
      /\ DOMAIN snapshot = 1 .. Len(snapshot) /\ Len(snapshot) \in Nat
      /\ DOMAIN live = 1 .. Len(live) /\ Len(live) \in Nat
    BY LenProperties DEF Typed, RoomTyped, PageTyped
<1>1. PICK k \in 0 .. Len(stored) :
          /\ \A i \in DOMAIN snapshot : k + i \in DOMAIN stored /\ snapshot[i] = stored[k + i]
          /\ snapshot # <<>> => \A i \in DOMAIN stored : i <= k => stored[i] \in beyond
    <2>1. CASE snapshot = <<>>
        BY <1>0, <2>1
    <2>2. CASE snapshot # <<>>
        BY <2>2 DEF Sight, HistoryIsRun, RunOf
    <2> QED
        BY <2>1, <2>2
<1>2. \A i \in DOMAIN snapshot : Position(snapshot[i]) = k + i
    BY <1>1, Positions
<1>3. \A i \in DOMAIN live : \E b \in DOMAIN stored : live[i] = stored[b] /\ Position(live[i]) = b
    <2> TAKE i \in DOMAIN live
    <2>1. live[i] \in Range(stored)
        BY DEF Sight, HeardInOrder, Logged, Range
    <2> QED
        BY <2>1, Positions DEF Range
<1>4. \A i, j \in DOMAIN live : i < j => Position(live[i]) < Position(live[j])
    <2> SUFFICES ASSUME NEW i \in DOMAIN live, NEW j \in DOMAIN live, i < j
                 PROVE  Position(live[i]) < Position(live[j])
        OBVIOUS
    <2>1. PICK a, b \in DOMAIN stored : a < b /\ stored[a] = live[i] /\ stored[b] = live[j]
        BY DEF Sight, HeardInOrder, Earlier
    <2> QED
        BY <2>1, Positions
<1>5. ASSUME NEW i \in DOMAIN snapshot, NEW j \in Fresh, Position(live[j]) < Position(snapshot[i])
      PROVE  live[j] \in beyond
    <2>1. j \in DOMAIN live /\ live[j] \notin Range(snapshot)
        BY DEF Fresh
    <2>2. PICK b \in DOMAIN stored : live[j] = stored[b] /\ Position(live[j]) = b
        BY <1>3, <2>1
    <2>3. b < k + i
        BY <1>2, <1>5, <2>2
    <2>4. CASE b <= k
        <3>1. snapshot # <<>>
            BY <1>5
        <3> QED
            BY <1>1, <2>2, <2>4, <3>1
    <2>5. CASE k < b
        <3>1. b - k \in DOMAIN snapshot /\ k + (b - k) = b
            BY <1>0, <1>1, <2>3, <2>5
        <3>2. snapshot[b - k] = stored[b]
            BY <1>1, <3>1
        <3> QED
            BY <2>1, <2>2, <3>1, <3>2 DEF Range
    <2> QED
        BY <1>0, <1>1, <2>4, <2>5
<1>6. IsInjective(Shown)
    <2> SUFFICES ASSUME NEW p \in DOMAIN Shown, NEW q \in DOMAIN Shown, Shown[p] = Shown[q]
                 PROVE  p = q
        BY DEF IsInjective
    <2>1. CASE \E i, j \in DOMAIN snapshot : p = <<1, i>> /\ q = <<1, j>>
        <3>1. PICK i, j \in DOMAIN snapshot : p = <<1, i>> /\ q = <<1, j>>
            BY <2>1
        <3>2. k + i = k + j
            BY <1>2, <3>1, ShownPlaces
        <3> QED
            BY <1>0, <1>1, <3>1, <3>2
    <2>2. CASE \E i, j \in Fresh : p = <<2, i>> /\ q = <<2, j>>
        <3>1. PICK i, j \in Fresh : p = <<2, i>> /\ q = <<2, j>>
            BY <2>2
        <3>2. i \in DOMAIN live /\ j \in DOMAIN live /\ live[i] = live[j]
            BY <3>1, ShownPlaces DEF Fresh
        <3>3. Position(live[i]) \in Nat /\ ~(i < j) /\ ~(j < i)
            BY <1>0, <1>3, <1>4, <3>2
        <3> QED
            BY <1>0, <3>1, <3>2, <3>3
    <2>3. ASSUME NEW i \in DOMAIN snapshot, NEW j \in Fresh
          PROVE  snapshot[i] # live[j]
        BY DEF Fresh, Range
    <2> QED
        BY <2>1, <2>2, <2>3, ShownPlaces
<1>7. ASSUME NEW p \in DOMAIN Shown, NEW q \in DOMAIN Shown,
             Above(p, q), Position(Shown[q]) < Position(Shown[p])
      PROVE  Shown[q] \in beyond
    <2>1. CASE \E i, j \in DOMAIN snapshot : p = <<1, i>> /\ q = <<1, j>>
        <3>1. PICK i, j \in DOMAIN snapshot : p = <<1, i>> /\ q = <<1, j>>
            BY <2>1
        <3>2. i < j /\ k + j < k + i
            BY <1>2, <1>7, <3>1, ShownPlaces DEF Above
        <3> QED
            BY <1>0, <1>1, <3>2
    <2>2. CASE \E i, j \in Fresh : p = <<2, i>> /\ q = <<2, j>>
        <3>1. PICK i, j \in Fresh : p = <<2, i>> /\ q = <<2, j>>
            BY <2>2
        <3>2. i \in DOMAIN live /\ j \in DOMAIN live
            BY DEF Fresh
        <3>3. i < j /\ Position(live[j]) < Position(live[i])
            BY <1>7, <3>1, ShownPlaces DEF Above
        <3>4. PICK a, b \in DOMAIN stored : Position(live[i]) = a /\ Position(live[j]) = b
            BY <1>3, <3>2
        <3> QED
            BY <1>0, <1>4, <3>2, <3>3, <3>4
    <2>3. CASE \E i \in DOMAIN snapshot, j \in Fresh : p = <<1, i>> /\ q = <<2, j>>
        BY <1>5, <1>7, <2>3, ShownPlaces
    <2>4. CASE \E i \in Fresh, j \in DOMAIN snapshot : p = <<2, i>> /\ q = <<1, j>>
        BY <1>7, <2>4 DEF Above
    <2> QED
        BY <2>1, <2>2, <2>3, <2>4, ShownPlaces
<1> QED
    BY <1>6, <1>7 DEF ShownInOrder

\* Whatever the order of the history, live events, reconnects and visits, no
\* message is on the screen twice, and those that the history still held stand
\* in the order of the room (use-chat.ts:57-76).
THEOREM InOrder == Spec => []ShownInOrder
BY SightShows, SightAlways, TypedAlways, PTL

\* A page whose socket was joined before its history was read, and still is,
\* misses no message that was published (use-chat.ts:99-106).
THEOREM MissesNothing == Spec => []NothingMissed
<1>1. Typed /\ Sight => NothingMissed
    <2> SUFFICES ASSUME Typed, Sight, covered, fetch = NoFetch
                 PROVE  Range(published) \subseteq
                          Range(Shown) \cup { m \in Mine \cup Theirs : Message(m) \in Range(inbox) }
                            \cup beyond
        BY DEF NothingMissed
    <2>1. Range(published) \subseteq Range(snapshot) \cup Range(live) \cup Coming \cup beyond
        BY DEF Sight, CoveredWhole
    <2>2. Range(snapshot) \cup Range(live) \subseteq Range(Shown)
        <3>1. ASSUME NEW i \in DOMAIN snapshot
              PROVE  snapshot[i] \in Range(Shown)
            BY ShownPlaces DEF Range
        <3>2. ASSUME NEW i \in DOMAIN live
              PROVE  live[i] \in Range(Shown)
            <4>1. CASE i \in Fresh
                BY <4>1, ShownPlaces DEF Range
            <4>2. CASE live[i] \in Range(snapshot)
                BY <3>1, <4>2 DEF Range
            <4> QED
                BY <4>1, <4>2 DEF Fresh
        <3> QED
            BY <3>1, <3>2 DEF Range
    <2>3. ASSUME NEW i \in DOMAIN inbox, IsMessage(inbox[i])
          PROVE  inbox[i].msg \in Mine \cup Theirs /\ Message(inbox[i].msg) \in Range(inbox)
        <3>1. inbox[i] \in ToPage /\ inbox[i] \in Range(inbox)
            BY RangeOfSeq DEF Typed, NetTyped, Range
        <3> QED
            BY <2>3, <3>1, EventsApart DEF IsMessage, All
    <2>4. Coming \subseteq { m \in Mine \cup Theirs : Message(m) \in Range(inbox) }
        BY <2>3 DEF Coming
    <2> QED
        BY <2>1, <2>2, <2>4
<1> QED
    BY <1>1, SightAlways, TypedAlways, PTL
=============================================================================
