-------------------------- MODULE ChatBufferProofs --------------------------
(***************************************************************************)
(* What ChatBuffer guarantees for every set of messages and every cap.     *)
(***************************************************************************)
EXTENDS ChatBuffer, SequenceTheorems, TLAPS

-----------------------------------------------------------------------------
(* Facts about the queues the steps work on. *)

\* Taking the head of a queue of S leaves a queue of S, moved down by one.
LEMMA TailOfQueue ==
    ASSUME NEW S, NEW q \in Seq(S), q # <<>>
    PROVE  /\ Head(q) \in S
           /\ Head(q) = q[1]
           /\ 1 \in DOMAIN q
           /\ Tail(q) \in Seq(S)
           /\ \A i \in DOMAIN Tail(q) : i + 1 \in DOMAIN q /\ Tail(q)[i] = q[i + 1]
<1>1. Len(q) \in Nat \ {0} /\ DOMAIN q = 1 .. Len(q)
  BY EmptySeq, LenProperties
<1>2. Tail(q) \in Seq(S) /\ Len(Tail(q)) = Len(q) - 1 /\ Head(q) \in S
  BY HeadTailProperties
<1>3. DOMAIN Tail(q) = 1 .. Len(q) - 1
  BY <1>2, LenProperties
<1>4. \A i \in 1 .. Len(q) - 1 : Tail(q)[i] = q[i + 1]
  BY <1>2, HeadTailProperties
<1>5. Head(q) = q[1]
  OBVIOUS
<1> QED
  BY <1>1, <1>2, <1>3, <1>4, <1>5

\* Appending to a queue of S adds one last entry.
LEMMA AppendToQueue ==
    ASSUME NEW S, NEW q \in Seq(S), NEW e \in S
    PROVE  /\ Append(q, e) \in Seq(S)
           /\ DOMAIN q = 1 .. Len(q)
           /\ Len(q) \in Nat
           /\ DOMAIN Append(q, e) = 1 .. Len(q) + 1
           /\ \A i \in DOMAIN q : Append(q, e)[i] = q[i]
           /\ Append(q, e)[Len(q) + 1] = e
  BY AppendProperties, LenProperties

\* Dropping the first k entries of a queue of S leaves a queue of S.
LEMMA DropFromQueue ==
    ASSUME NEW S, NEW q \in Seq(S), NEW k \in 0 .. Len(q)
    PROVE  /\ SubSeq(q, k + 1, Len(q)) \in Seq(S)
           /\ DOMAIN SubSeq(q, k + 1, Len(q)) = 1 .. Len(q) - k
           /\ \A i \in DOMAIN SubSeq(q, k + 1, Len(q)) :
                 /\ i + k \in DOMAIN q
                 /\ i + k > k
                 /\ SubSeq(q, k + 1, Len(q))[i] = q[i + k]
<1> DEFINE t == SubSeq(q, k + 1, Len(q))
<1>1. Len(q) \in Nat /\ DOMAIN q = 1 .. Len(q)
  BY LenProperties
<1>2. \A i \in k + 1 .. Len(q) : q[i] \in S
  BY <1>1, ElementOfSeq
<1>3. /\ t \in Seq(S)
      /\ Len(t) = IF k + 1 <= Len(q) THEN Len(q) - (k + 1) + 1 ELSE 0
      /\ \A i \in 1 .. Len(q) - (k + 1) + 1 : t[i] = q[(k + 1) + i - 1]
  <2>1. k + 1 \in Int /\ Len(q) \in Int
    BY <1>1
  <2> QED
    BY <1>2, <2>1, SubSeqProperties
<1>4. Len(t) = Len(q) - k
  <2>1. \A n \in Nat : \A j \in 0 .. n : j + 1 <= n => n - (j + 1) + 1 = n - j
    OBVIOUS
  <2>2. \A n \in Nat : \A j \in 0 .. n : ~ (j + 1 <= n) => n - j = 0
    OBVIOUS
  <2>3. CASE k + 1 <= Len(q)
    <3>1. Len(t) = Len(q) - (k + 1) + 1
      BY <1>3, <2>3
    <3>2. Len(q) - (k + 1) + 1 = Len(q) - k
      BY <1>1, <2>1, <2>3, Zenon
    <3> HIDE DEF t
    <3> QED
      BY <3>1, <3>2
  <2>4. CASE ~ (k + 1 <= Len(q))
    <3>1. Len(t) = 0
      BY <1>3, <2>4
    <3>2. Len(q) - k = 0
      BY <1>1, <2>2, <2>4, Zenon
    <3> HIDE DEF t
    <3> QED
      BY <3>1, <3>2
  <2> QED
    BY <2>3, <2>4
<1>5. DOMAIN t = 1 .. Len(q) - k
  BY <1>3, <1>4, LenProperties
<1>6. ASSUME NEW i \in DOMAIN t
      PROVE  i + k \in DOMAIN q /\ i + k > k /\ t[i] = q[i + k]
  BY <1>1, <1>3, <1>5
<1> QED
  BY <1>3, <1>5, <1>6

-----------------------------------------------------------------------------
(* Type correctness. *)

LEMMA TypeInit == Init => TypeOK
<1>1. <<>> \in Seq(Command) /\ <<>> \in Seq(Reply) /\ <<>> \in Seq(Msgs)
  BY EmptySeq
<1>2. Init => ttl \in BOOLEAN
  BY DEF Init
<1>3. ASSUME Init
      PROVE  /\ handler \in [Msgs -> {"new"} \cup Commands \cup Ended]
             /\ done \in [Msgs -> {"none"} \cup Commands]
             /\ epoch \in Nat
  BY <1>3 DEF Init
<1> QED
  BY <1>1, <1>2, <1>3, Zenon DEF Init, TypeOK

LEMMA TypeOnMessage ==
    ASSUME TypeOK, NEW m \in Msgs, OnMessage(m)
    PROVE  TypeOK'
<1>1. [msg |-> m, cmd |-> "lPush"] \in Command
  BY DEF Command, Commands
<1>2. wire' \in Seq(Command)
  <2>1. wire \in Seq(Command) /\ Append(wire, [msg |-> m, cmd |-> "lPush"]) \in Seq(Command)
    BY <1>1, AppendProperties DEF TypeOK
  <2> QED
    BY <2>1, Zenon DEF OnMessage
<1>3. handler' \in [Msgs -> {"new"} \cup Commands \cup Ended]
  BY DEF TypeOK, OnMessage, Commands, Ended
<1> QED
  BY <1>2, <1>3 DEF TypeOK, OnMessage, redisVars

LEMMA TypeOnReply ==
    ASSUME TypeOK, OnReply
    PROVE  TypeOK'
<1> DEFINE r == Head(replies)
<1>1. /\ r \in Reply
      /\ Tail(replies) \in Seq(Reply)
  BY TailOfQueue DEF TypeOK, OnReply
<1>2. r.msg \in Msgs /\ r.cmd \in Commands /\ r.ok \in BOOLEAN
  BY <1>1 DEF Reply
<1>3. /\ handler' \in [Msgs -> {"new"} \cup Commands \cup Ended]
      /\ wire' \in Seq(Command)
      /\ room' \in Seq(Msgs)
  <2>1. CASE r.ok /\ r.cmd = "expire"
    <3>1. /\ handler' = [handler EXCEPT ![r.msg] = "sent"]
          /\ room' = Append(room, r.msg)
          /\ wire' = wire
      BY <2>1 DEF OnReply, Resume
    <3> QED
      BY <1>2, <3>1, AppendProperties DEF TypeOK, Ended
  <2>2. CASE r.ok /\ r.cmd # "expire"
    <3> DEFINE next == IF r.cmd = "lPush" THEN "lTrim" ELSE "expire"
    <3>1. next \in Commands /\ [msg |-> r.msg, cmd |-> next] \in Command
      BY <1>2 DEF Command, Commands
    <3>2. /\ handler' = [handler EXCEPT ![r.msg] = next]
          /\ wire' = Append(wire, [msg |-> r.msg, cmd |-> next])
          /\ room' = room
      BY <2>2 DEF OnReply, Resume
    <3> HIDE DEF next
    <3> QED
      BY <1>2, <3>1, <3>2, AppendProperties DEF TypeOK
  <2>3. CASE ~r.ok
    BY <1>2, <2>3 DEF TypeOK, OnReply, Abandon, Ended
  <2> QED
    BY <2>1, <2>2, <2>3
<1>4. UNCHANGED redisVars /\ replies' = Tail(replies)
  BY DEF OnReply
<1> QED
  BY <1>1, <1>3, <1>4 DEF TypeOK, redisVars

LEMMA TypeExecute ==
    ASSUME TypeOK, Execute
    PROVE  TypeOK'
<1> DEFINE c == Head(wire)
<1>1. c \in Command /\ Tail(wire) \in Seq(Command)
  BY TailOfQueue DEF TypeOK, Execute
<1>2. c.msg \in Msgs /\ c.cmd \in Commands
  BY <1>1 DEF Command
<1>3. replies' \in Seq(Reply)
  <2>1. [msg |-> c.msg, cmd |-> c.cmd, ok |-> TRUE] \in Reply
    BY <1>2 DEF Reply
  <2> QED
    BY <2>1, AppendProperties DEF TypeOK, Execute
<1>4. done' \in [Msgs -> {"none"} \cup Commands]
  BY <1>2 DEF TypeOK, Execute
<1>5. list' \in Seq(Msgs) /\ ttl' \in BOOLEAN /\ log' \in Seq(Msgs)
  <2>1. CASE LPush(c.msg)
    <3>1. <<c.msg>> \in Seq(Msgs)
      BY <1>2
    <3> QED
      BY <1>2, <2>1, <3>1, ConcatProperties, AppendProperties DEF TypeOK, LPush
  <2>2. CASE LTrim
    <3>1. ASSUME Len(list) > Cap PROVE SubSeq(list, 1, Cap) \in Seq(Msgs)
      <4>1. \A i \in 1 .. Cap : list[i] \in Msgs
        BY <3>1, CapAssumption, LenProperties, ElementOfSeq DEF TypeOK
      <4> QED
        BY <4>1, CapAssumption, SubSeqProperties
    <3> QED
      BY <2>2, <3>1 DEF TypeOK, LTrim
  <2>3. CASE ExpireAt
    BY <2>3 DEF TypeOK, ExpireAt
  <2> QED
    BY <2>1, <2>2, <2>3 DEF Execute
<1> QED
  BY <1>1, <1>3, <1>4, <1>5 DEF TypeOK, Execute

LEMMA TypeReplyError ==
    ASSUME TypeOK, ReplyError
    PROVE  TypeOK'
<1>1. Head(wire) \in Command /\ Tail(wire) \in Seq(Command)
  BY TailOfQueue DEF TypeOK, ReplyError
<1>2. [msg |-> Head(wire).msg, cmd |-> Head(wire).cmd, ok |-> FALSE] \in Reply
  BY <1>1 DEF Command, Reply
<1>3. replies' \in Seq(Reply)
  BY <1>2, AppendProperties DEF TypeOK, ReplyError
<1> QED
  BY <1>1, <1>3 DEF TypeOK, ReplyError, redisVars

LEMMA TypeDisconnect ==
    ASSUME TypeOK, Disconnect
    PROVE  TypeOK'
<1>1. PICK k \in 0 .. Len(wire) : wire' = SubSeq(wire, k + 1, Len(wire))
  BY DEF Disconnect
<1>2. wire' \in Seq(Command)
  BY <1>1, DropFromQueue DEF TypeOK
<1>3. handler' \in [Msgs -> {"new"} \cup Commands \cup Ended]
  BY DEF TypeOK, Disconnect, Ended
<1>4. replies' \in Seq(Reply)
  BY DEF Disconnect
<1> QED
  BY <1>2, <1>3, <1>4 DEF TypeOK, Disconnect, redisVars

\* Every behaviour of the buffer keeps the types of its state.
THEOREM TypeCorrect == Spec => []TypeOK
<1>1. ASSUME TypeOK, [Next]_vars
      PROVE  TypeOK'
  <2>1. ASSUME NEW m \in Msgs, OnMessage(m) PROVE TypeOK'
    BY <1>1, <2>1, TypeOnMessage
  <2>2. CASE OnReply
    BY <1>1, <2>2, TypeOnReply
  <2>3. CASE Crash
    <3>1. handler' \in [Msgs -> {"new"} \cup Commands \cup Ended]
      BY <1>1, <2>3 DEF TypeOK, Crash, Ended
    <3>2. wire' \in Seq(Command) /\ replies' \in Seq(Reply)
      BY <2>3 DEF Crash
    <3> QED
      BY <1>1, <2>3, <3>1, <3>2 DEF TypeOK, Crash, redisVars
  <2>4. CASE Execute
    BY <1>1, <2>4, TypeExecute
  <2>5. CASE ReplyError
    BY <1>1, <2>5, TypeReplyError
  <2>6. CASE Disconnect
    BY <1>1, <2>6, TypeDisconnect
  <2>7. CASE KeyExpires
    <3>1. Len(log) \in Nat /\ <<>> \in Seq(Msgs)
      BY <1>1, LenProperties, EmptySeq DEF TypeOK
    <3> QED
      BY <1>1, <2>7, <3>1 DEF TypeOK, KeyExpires
  <2>8. CASE UNCHANGED vars
    BY <1>1, <2>8 DEF TypeOK, vars
  <2> QED
    BY <1>1, <2>1, <2>2, <2>3, <2>4, <2>5, <2>6, <2>7, <2>8 DEF Next
<1> QED
  BY <1>1, TypeInit, PTL DEF Spec

-----------------------------------------------------------------------------
(* One command in flight for each handler. *)

LEMMA OwnInit == Init => OneCommandEach
  BY DEF Init, OneCommandEach, NewUntouched, WireOwned, RepliesOwned, NoneTwice

\* What the queues hold, in the terms the steps need.
LEMMA QueueEntries ==
    ASSUME TypeOK
    PROVE  /\ \A i \in DOMAIN wire : wire[i].msg \in Msgs /\ wire[i].cmd \in Commands
           /\ \A i \in DOMAIN replies :
                 /\ replies[i].msg \in Msgs
                 /\ replies[i].cmd \in Commands
                 /\ replies[i].ok \in BOOLEAN
<1>1. ASSUME NEW i \in DOMAIN wire PROVE wire[i] \in Command
  BY LenProperties, ElementOfSeq DEF TypeOK
<1>2. ASSUME NEW i \in DOMAIN replies PROVE replies[i] \in Reply
  BY LenProperties, ElementOfSeq DEF TypeOK
<1> QED
  BY <1>1, <1>2 DEF Command, Reply

\* Putting the next command of a handler with nothing in flight on the wire.
LEMMA OwnSend ==
    ASSUME TypeOK, OneCommandEach, NEW m \in Msgs, NEW c \in Commands,
           done[m] = Before(c),
           NEW reps \in Seq(Reply),
           replies' = reps,
           \A i \in DOMAIN reps : \E j \in DOMAIN replies : reps[i] = replies[j],
           \A i, j \in DOMAIN reps : reps[i].msg = reps[j].msg => i = j,
           \A i \in DOMAIN wire : wire[i].msg # m,
           \A i \in DOMAIN reps : reps[i].msg # m,
           handler' = [handler EXCEPT ![m] = c],
           wire' = Append(wire, [msg |-> m, cmd |-> c]),
           done' = done
    PROVE  OneCommandEach'
<1> DEFINE e == [msg |-> m, cmd |-> c]
<1>1. e \in Command /\ e.msg = m /\ e.cmd = c
  BY DEF Command
<1>2. /\ DOMAIN wire' = 1 .. Len(wire) + 1
      /\ DOMAIN wire = 1 .. Len(wire)
      /\ Len(wire) \in Nat
      /\ \A i \in DOMAIN wire : wire'[i] = wire[i]
      /\ wire'[Len(wire) + 1] = e
  BY <1>1, AppendToQueue DEF TypeOK
<1>3. \A i \in DOMAIN wire' : i \in DOMAIN wire \/ (i = Len(wire) + 1 /\ wire'[i] = e)
  BY <1>2
<1>4. handler \in [Msgs -> {"new"} \cup Commands \cup Ended]
  BY DEF TypeOK
<1> HIDE DEF e
<1>5. NewUntouched'
  BY <1>4 DEF OneCommandEach, NewUntouched, Commands
<1>6. WireOwned'
  BY <1>1, <1>2, <1>3, <1>4, QueueEntries DEF OneCommandEach, WireOwned
<1>7. RepliesOwned'
  BY <1>4, QueueEntries DEF OneCommandEach, RepliesOwned
<1>8. NoneTwice'
  <2>1. \A i, j \in DOMAIN wire' : wire'[i].msg = wire'[j].msg => i = j
    BY <1>1, <1>2, <1>3 DEF OneCommandEach, NoneTwice
  <2>2. \A i \in DOMAIN wire', j \in DOMAIN reps : wire'[i].msg # reps[j].msg
    BY <1>1, <1>2, <1>3 DEF OneCommandEach, NoneTwice
  <2> QED
    BY <2>1, <2>2 DEF NoneTwice
<1> QED
  BY <1>5, <1>6, <1>7, <1>8 DEF OneCommandEach

LEMMA OwnOnMessage ==
    ASSUME TypeOK, OneCommandEach, NEW m \in Msgs, OnMessage(m)
    PROVE  OneCommandEach'
<1>1. handler[m] = "new" /\ UNCHANGED <<done, replies>>
  BY DEF OnMessage, redisVars
<1>2. \A i \in DOMAIN wire : wire[i].msg # m
  BY <1>1, QueueEntries DEF OneCommandEach, WireOwned, Commands
<1>3. \A i \in DOMAIN replies : replies[i].msg # m
  BY <1>1, QueueEntries DEF OneCommandEach, RepliesOwned, Commands
<1>4. handler \in [Msgs -> {"new"} \cup Commands \cup Ended]
  BY DEF TypeOK
<1>5. CASE handler' = [handler EXCEPT ![m] = "failed"] /\ wire' = wire
  <2>1. NewUntouched'
    BY <1>1, <1>4, <1>5 DEF OneCommandEach, NewUntouched
  <2>2. WireOwned'
    BY <1>1, <1>2, <1>4, <1>5, QueueEntries DEF OneCommandEach, WireOwned
  <2>3. RepliesOwned'
    BY <1>1, <1>3, <1>4, <1>5, QueueEntries DEF OneCommandEach, RepliesOwned
  <2>4. NoneTwice'
    BY <1>1, <1>5 DEF OneCommandEach, NoneTwice
  <2> QED
    BY <2>1, <2>2, <2>3, <2>4 DEF OneCommandEach
<1>6. CASE /\ handler' = [handler EXCEPT ![m] = "lPush"]
           /\ wire' = Append(wire, [msg |-> m, cmd |-> "lPush"])
  <2>1. "lPush" \in Commands /\ done[m] = Before("lPush")
    BY <1>1 DEF Commands, Before, OneCommandEach, NewUntouched
  <2>2. /\ replies \in Seq(Reply)
        /\ \A i, j \in DOMAIN replies : replies[i].msg = replies[j].msg => i = j
    BY DEF TypeOK, OneCommandEach, NoneTwice
  <2> QED
    BY <1>1, <1>2, <1>3, <1>6, <2>1, <2>2, OwnSend
<1> QED
  BY <1>5, <1>6 DEF OnMessage

\* Where the replies behind the first one came from.
LEMMA RepliesBehindHead ==
    ASSUME TypeOK, OneCommandEach, replies # <<>>
    PROVE  /\ Tail(replies) \in Seq(Reply)
           /\ \A i \in DOMAIN Tail(replies) :
                 \E j \in DOMAIN replies : Tail(replies)[i] = replies[j]
           /\ \A i, j \in DOMAIN Tail(replies) :
                 Tail(replies)[i].msg = Tail(replies)[j].msg => i = j
           /\ \A i \in DOMAIN Tail(replies) : Tail(replies)[i].msg # Head(replies).msg
           /\ \A i \in DOMAIN wire : wire[i].msg # Head(replies).msg
<1>1. /\ Head(replies) = replies[1]
      /\ 1 \in DOMAIN replies
      /\ Tail(replies) \in Seq(Reply)
      /\ \A i \in DOMAIN Tail(replies) :
            i + 1 \in DOMAIN replies /\ Tail(replies)[i] = replies[i + 1]
  BY TailOfQueue DEF TypeOK
<1>2. \A i \in DOMAIN Tail(replies) : i \in Nat /\ i >= 1
  BY <1>1, LenProperties
<1> QED
  BY <1>1, <1>2 DEF OneCommandEach, NoneTwice

LEMMA OwnOnReply ==
    ASSUME TypeOK, OneCommandEach, OnReply
    PROVE  OneCommandEach'
<1> DEFINE r == Head(replies)
<1>1. /\ r = replies[1]
      /\ 1 \in DOMAIN replies
      /\ r.msg \in Msgs /\ r.cmd \in Commands /\ r.ok \in BOOLEAN
  BY TailOfQueue, QueueEntries DEF TypeOK, OnReply
<1>2. /\ handler[r.msg] = r.cmd
      /\ done[r.msg] = IF r.ok THEN r.cmd ELSE Before(r.cmd)
  BY <1>1 DEF OneCommandEach, RepliesOwned
<1>3. UNCHANGED done /\ replies' = Tail(replies)
  BY DEF OnReply, redisVars
<1>4. handler \in [Msgs -> {"new"} \cup Commands \cup Ended]
  BY DEF TypeOK
<1>5. replies # <<>>
  BY DEF OnReply
<1>6. ASSUME NEW end \in Ended,
             handler' = [handler EXCEPT ![r.msg] = end], wire' = wire
      PROVE  OneCommandEach'
  <2>1. NewUntouched'
    BY <1>1, <1>3, <1>4, <1>6 DEF OneCommandEach, NewUntouched, Ended
  <2>2. WireOwned'
    BY <1>1, <1>3, <1>4, <1>5, <1>6, RepliesBehindHead, QueueEntries
       DEF OneCommandEach, WireOwned
  <2>3. RepliesOwned'
    BY <1>1, <1>3, <1>4, <1>5, <1>6, RepliesBehindHead, QueueEntries
       DEF OneCommandEach, RepliesOwned
  <2>4. NoneTwice'
    BY <1>3, <1>5, <1>6, RepliesBehindHead DEF OneCommandEach, NoneTwice
  <2> QED
    BY <2>1, <2>2, <2>3, <2>4 DEF OneCommandEach
<1>7. CASE r.ok /\ r.cmd = "expire"
  BY <1>6, <1>7 DEF OnReply, Resume, Ended
<1>8. CASE r.ok /\ r.cmd # "expire"
  <2> DEFINE next == IF r.cmd = "lPush" THEN "lTrim" ELSE "expire"
  <2>1. /\ handler' = [handler EXCEPT ![r.msg] = next]
        /\ wire' = Append(wire, [msg |-> r.msg, cmd |-> next])
    BY <1>8 DEF OnReply, Resume
  <2>2. next \in Commands /\ done[r.msg] = Before(next)
    BY <1>1, <1>2, <1>8 DEF Commands, Before
  <2> HIDE DEF next
  <2> QED
    BY <1>1, <1>3, <1>5, <2>1, <2>2, OwnSend, RepliesBehindHead
<1>9. CASE ~r.ok
  BY <1>6, <1>9 DEF OnReply, Abandon, Ended
<1> QED
  BY <1>1, <1>7, <1>8, <1>9

\* The first command leaves the wire and its outcome joins the replies.
LEMMA OwnAnswer ==
    ASSUME TypeOK, OneCommandEach, wire # <<>>, NEW ok \in BOOLEAN,
           wire' = Tail(wire),
           replies' = Append(replies, [msg |-> Head(wire).msg, cmd |-> Head(wire).cmd, ok |-> ok]),
           handler' = handler,
           done' = IF ok THEN [done EXCEPT ![Head(wire).msg] = Head(wire).cmd] ELSE done
    PROVE  OneCommandEach'
<1> DEFINE c == Head(wire)
           r == [msg |-> c.msg, cmd |-> c.cmd, ok |-> ok]
<1>1. /\ c = wire[1]
      /\ 1 \in DOMAIN wire
      /\ \A i \in DOMAIN wire' : i + 1 \in DOMAIN wire /\ wire'[i] = wire[i + 1]
      /\ Tail(wire) \in Seq(Command)
  BY TailOfQueue DEF TypeOK
<1>2. \A i \in DOMAIN wire' : i \in Nat /\ i >= 1
  BY <1>1, LenProperties
<1>3. c.msg \in Msgs /\ c.cmd \in Commands
  BY <1>1, QueueEntries
<1>4. handler[c.msg] = c.cmd /\ done[c.msg] = Before(c.cmd)
  BY <1>1 DEF OneCommandEach, WireOwned
<1>5. /\ \A i \in DOMAIN wire' : wire'[i].msg # c.msg
      /\ \A i \in DOMAIN replies : replies[i].msg # c.msg
  BY <1>1, <1>2 DEF OneCommandEach, NoneTwice
<1>6. r \in Reply /\ r.msg = c.msg /\ r.cmd = c.cmd /\ r.ok = ok
  BY <1>3 DEF Reply
<1>7. /\ DOMAIN replies' = 1 .. Len(replies) + 1
      /\ DOMAIN replies = 1 .. Len(replies)
      /\ Len(replies) \in Nat
      /\ \A i \in DOMAIN replies : replies'[i] = replies[i]
      /\ replies'[Len(replies) + 1] = r
  BY <1>6, AppendToQueue DEF TypeOK
<1>8. \A i \in DOMAIN replies' :
         i \in DOMAIN replies \/ (i = Len(replies) + 1 /\ replies'[i] = r)
  BY <1>7
<1>9. /\ done \in [Msgs -> {"none"} \cup Commands]
      /\ done' = IF ok THEN [done EXCEPT ![c.msg] = c.cmd] ELSE done
  BY DEF TypeOK
<1> HIDE DEF c, r
<1>10. /\ done'[c.msg] = IF ok THEN c.cmd ELSE Before(c.cmd)
       /\ \A m \in Msgs \ {c.msg} : done'[m] = done[m]
  BY <1>3, <1>4, <1>9
<1>11. NewUntouched'
  BY <1>3, <1>4, <1>10 DEF OneCommandEach, NewUntouched, Commands
<1>12. WireOwned'
  BY <1>1, <1>5, <1>10, QueueEntries DEF OneCommandEach, WireOwned
<1>13. RepliesOwned'
  BY <1>4, <1>5, <1>6, <1>7, <1>8, <1>10, QueueEntries DEF OneCommandEach, RepliesOwned
<1>14. NoneTwice'
  <2>1. \A i, j \in DOMAIN wire' : wire'[i].msg = wire'[j].msg => i = j
    BY <1>1, <1>2 DEF OneCommandEach, NoneTwice
  <2>2. \A i, j \in DOMAIN replies' : replies'[i].msg = replies'[j].msg => i = j
    BY <1>5, <1>6, <1>7, <1>8 DEF OneCommandEach, NoneTwice
  <2>3. \A i \in DOMAIN wire', j \in DOMAIN replies' : wire'[i].msg # replies'[j].msg
    BY <1>1, <1>5, <1>6, <1>7, <1>8 DEF OneCommandEach, NoneTwice
  <2> QED
    BY <2>1, <2>2, <2>3 DEF NoneTwice
<1> QED
  BY <1>11, <1>12, <1>13, <1>14 DEF OneCommandEach

LEMMA OwnDisconnect ==
    ASSUME TypeOK, OneCommandEach, Disconnect
    PROVE  OneCommandEach'
<1> DEFINE rejected(k) == { replies[i].msg : i \in DOMAIN replies }
                            \cup { wire[i].msg : i \in 1 .. k }
<1>1. PICK k \in 0 .. Len(wire) :
         /\ handler' = [m \in Msgs |-> IF m \in rejected(k) THEN "failed" ELSE handler[m]]
         /\ wire' = SubSeq(wire, k + 1, Len(wire))
  BY DEF Disconnect
<1>2. \A i \in DOMAIN wire' :
         /\ i + k \in DOMAIN wire
         /\ i + k > k
         /\ wire'[i] = wire[i + k]
  BY <1>1, DropFromQueue DEF TypeOK
<1>3. /\ DOMAIN wire = 1 .. Len(wire) /\ Len(wire) \in Nat
      /\ DOMAIN wire' \subseteq Nat
  BY <1>1, DropFromQueue, LenProperties DEF TypeOK
<1>4. done' = done /\ replies' = <<>>
  BY DEF Disconnect, redisVars
<1>5. NewUntouched'
  BY <1>1, <1>4 DEF OneCommandEach, NewUntouched
<1>6. WireOwned'
  <2> SUFFICES ASSUME NEW i \in DOMAIN wire'
               PROVE  /\ handler'[wire'[i].msg] = wire'[i].cmd
                      /\ done[wire'[i].msg] = Before(wire'[i].cmd)
    BY <1>4 DEF WireOwned
  <2>1. i + k \in DOMAIN wire /\ i + k > k /\ wire'[i] = wire[i + k]
    BY <1>2
  <2>2. wire[i + k].msg \notin rejected(k)
    <3>1. \A j \in 1 .. k : j \in DOMAIN wire /\ j # i + k
      BY <1>3, <2>1
    <3> QED
      BY <2>1, <3>1 DEF OneCommandEach, NoneTwice
  <2> HIDE DEF rejected
  <2>3. handler'[wire[i + k].msg] = handler[wire[i + k].msg]
    BY <1>1, <2>1, <2>2, QueueEntries
  <2> QED
    BY <2>1, <2>3 DEF OneCommandEach, WireOwned
<1>7. RepliesOwned'
  BY <1>4 DEF RepliesOwned
<1>8. NoneTwice'
  <2>1. \A i, j \in DOMAIN wire' : wire'[i].msg = wire'[j].msg => i = j
    <3> SUFFICES ASSUME NEW i \in DOMAIN wire', NEW j \in DOMAIN wire',
                        wire'[i].msg = wire'[j].msg
                 PROVE  i = j
      OBVIOUS
    <3>1. i + k = j + k
      BY <1>2 DEF OneCommandEach, NoneTwice
    <3>2. i \in Nat /\ j \in Nat /\ k \in Nat
      BY <1>3
    <3> QED
      BY <3>1, <3>2
  <2> QED
    BY <1>4, <2>1 DEF NoneTwice
<1> QED
  BY <1>5, <1>6, <1>7, <1>8 DEF OneCommandEach

\* Inductive step: no action of Node, of Redis or of the connection breaks it.
LEMMA OwnStep ==
    ASSUME TypeOK, OneCommandEach, [Next]_vars
    PROVE  OneCommandEach'
<1>1. ASSUME NEW m \in Msgs, OnMessage(m) PROVE OneCommandEach'
  BY <1>1, OwnOnMessage
<1>2. CASE OnReply
  BY <1>2, OwnOnReply
<1>3. CASE Crash
  <2>1. handler' = [m \in Msgs |-> IF handler[m] \in Commands THEN "lost" ELSE handler[m]]
    BY <1>3 DEF Crash
  <2>2. done' = done /\ wire' = <<>> /\ replies' = <<>>
    BY <1>3 DEF Crash, redisVars
  <2>3. NewUntouched'
    BY <2>1, <2>2 DEF OneCommandEach, NewUntouched
  <2> QED
    BY <2>2, <2>3 DEF OneCommandEach, WireOwned, RepliesOwned, NoneTwice
<1>4. CASE Execute
  BY <1>4, OwnAnswer DEF Execute
<1>5. CASE ReplyError
  BY <1>5, OwnAnswer DEF ReplyError, redisVars
<1>6. CASE Disconnect
  BY <1>6, OwnDisconnect
<1>7. CASE KeyExpires
  BY <1>7 DEF KeyExpires, OneCommandEach, NewUntouched, WireOwned, RepliesOwned, NoneTwice
<1>8. CASE UNCHANGED vars
  BY <1>8 DEF vars, OneCommandEach, NewUntouched, WireOwned, RepliesOwned, NoneTwice
<1> QED
  BY <1>1, <1>2, <1>3, <1>4, <1>5, <1>6, <1>7, <1>8 DEF Next

\* Concurrent appends never get ahead of their own replies: each handler has at
\* most one command between Node and Redis, the one after those executed for it.
THEOREM OneCommandEachHolds == Spec => []OneCommandEach
<1>1. TypeOK /\ OneCommandEach /\ [Next]_vars => OneCommandEach'
  BY OwnStep
<1> QED
  BY <1>1, OwnInit, TypeCorrect, PTL DEF Spec

-----------------------------------------------------------------------------
(* The length of the list. *)

\* What each command does to the list's length.
LEMMA ListLength ==
    ASSUME TypeOK, Execute
    PROVE  /\ Len(list) \in Nat
           /\ Len(list') \in Nat
           /\ Head(wire).cmd = "lPush" => Len(list') = Len(list) + 1
           /\ Head(wire).cmd = "lTrim" => Len(list') <= Cap
           /\ Head(wire).cmd = "expire" => list' = list
<1>1. Head(wire).msg \in Msgs
  <2>1. Head(wire) \in Command
    BY TailOfQueue DEF TypeOK, Execute
  <2> QED
    BY <2>1 DEF Command
<1>2. Len(list) \in Nat /\ Len(list') \in Nat
  BY TypeExecute, LenProperties DEF TypeOK
<1>3. ASSUME Head(wire).cmd = "lPush" PROVE Len(list') = Len(list) + 1
  <2>1. list' = <<Head(wire).msg>> \o list
    BY <1>3 DEF Execute, LPush
  <2>2. <<Head(wire).msg>> \in Seq(Msgs) /\ Len(<<Head(wire).msg>>) = 1
    BY <1>1
  <2> HIDE <1>3
  <2> QED
    BY <1>2, <2>1, <2>2, ConcatProperties DEF TypeOK
<1>4. ASSUME Head(wire).cmd = "lTrim" PROVE Len(list') <= Cap
  <2>1. list' = IF Len(list) > Cap THEN SubSeq(list, 1, Cap) ELSE list
    BY <1>4 DEF Execute, LTrim
  <2>2. ASSUME Len(list) > Cap PROVE Len(SubSeq(list, 1, Cap)) = Cap
    <3>1. \A i \in 1 .. Cap : list[i] \in Msgs
      BY <1>2, <2>2, CapAssumption, ElementOfSeq DEF TypeOK
    <3> QED
      BY <3>1, CapAssumption, SubSeqProperties
  <2> QED
    BY <1>2, <2>1, <2>2, CapAssumption
<1>5. ASSUME Head(wire).cmd = "expire" PROVE list' = list
  BY <1>5 DEF Execute, ExpireAt
<1> QED
  BY <1>2, <1>3, <1>4, <1>5

\* A message that was pushed is the head of the list, the others follow it.
LEMMA PushedFirst ==
    ASSUME TypeOK, Execute, Head(wire).cmd = "lPush"
    PROVE  /\ list'[1] = Head(wire).msg
           /\ \A i \in 2 .. Len(list) + 1 : list'[i] = list[i - 1]
<1>1. Head(wire).msg \in Msgs
  <2>1. Head(wire) \in Command
    BY TailOfQueue DEF TypeOK, Execute
  <2> QED
    BY <2>1 DEF Command
<1>2. list' = <<Head(wire).msg>> \o list
  BY DEF Execute, LPush
<1>3. <<Head(wire).msg>> \in Seq(Msgs) /\ Len(<<Head(wire).msg>>) = 1
  BY <1>1
<1> QED
  BY <1>2, <1>3, ConcatProperties DEF TypeOK

LEMMA BoundExecute ==
    ASSUME TypeOK, OneCommandEach, BufferBound, Execute
    PROVE  BufferBound'
<1> DEFINE c == Head(wire)
<1>1. c = wire[1] /\ 1 \in DOMAIN wire /\ c.msg \in Msgs /\ c.cmd \in Commands
  BY TailOfQueue, QueueEntries DEF TypeOK, Execute
<1>2. done[c.msg] = Before(c.cmd)
  BY <1>1 DEF OneCommandEach, WireOwned
<1>3. done' = [done EXCEPT ![c.msg] = c.cmd] /\ done \in [Msgs -> {"none"} \cup Commands]
  BY DEF Execute, TypeOK
<1>4. Len(list) \in Nat /\ Len(list') \in Nat /\ Cap \in Nat
  BY ListLength, CapAssumption
<1> SUFFICES ASSUME NEW i \in 1 .. Len(list') - Cap
             PROVE  list'[i] \in Untrimmed'
  BY DEF BufferBound
<1>5. CASE c.cmd = "lPush"
  <2>1. /\ Len(list') = Len(list) + 1 /\ list'[1] = c.msg
        /\ \A j \in 2 .. Len(list) + 1 : list'[j] = list[j - 1]
    BY <1>5, ListLength, PushedFirst
  <2>2. Untrimmed \subseteq Untrimmed' /\ c.msg \in Untrimmed'
    BY <1>1, <1>2, <1>3, <1>5 DEF Untrimmed, Before
  <2>3. CASE i = 1
    BY <2>1, <2>2, <2>3
  <2>4. CASE i # 1
    <3>1. i \in 2 .. Len(list) + 1 /\ i - 1 \in 1 .. Len(list) - Cap
      BY <1>4, <2>1, <2>4
    <3> HIDE DEF c
    <3> QED
      BY <2>1, <2>2, <3>1 DEF BufferBound
  <2> QED
    BY <2>3, <2>4
<1>6. CASE c.cmd = "lTrim"
  BY <1>4, <1>6, ListLength
<1>7. CASE c.cmd = "expire"
  <2>1. Untrimmed' = Untrimmed
    BY <1>1, <1>2, <1>3, <1>7 DEF Untrimmed, Before
  <2> QED
    BY <1>7, <2>1, ListLength DEF BufferBound
<1> QED
  BY <1>1, <1>5, <1>6, <1>7 DEF Commands

\* However many appends overlap or fail half-way, the list exceeds the cap by no
\* more than its newest messages, those that were pushed since any trim ran.
THEOREM BufferBoundHolds == Spec => []BufferBound
<1>1. Init => BufferBound
  <2> SUFFICES ASSUME Init PROVE BufferBound
    OBVIOUS
  <2>1. Len(list) = 0
    BY EmptySeq DEF Init
  <2> QED
    BY <2>1, CapAssumption DEF BufferBound
<1>2. TypeOK /\ OneCommandEach /\ BufferBound /\ [Next]_vars => BufferBound'
  <2> SUFFICES ASSUME TypeOK, OneCommandEach, BufferBound, [Next]_vars
               PROVE  BufferBound'
    OBVIOUS
  <2>1. CASE Execute
    BY <2>1, BoundExecute
  <2>2. CASE KeyExpires
    <3>1. Len(list') = 0
      BY <2>2, EmptySeq DEF KeyExpires
    <3> QED
      BY <3>1, CapAssumption DEF BufferBound
  <2>3. CASE ~ Execute /\ ~ KeyExpires
    <3>1. list' = list /\ done' = done
      BY <2>3 DEF Next, vars, redisVars, OnMessage, OnReply, Crash, ReplyError, Disconnect
    <3> QED
      BY <3>1 DEF BufferBound, Untrimmed
  <2> QED
    BY <2>1, <2>2, <2>3
<1> QED
  BY <1>1, <1>2, TypeCorrect, OneCommandEachHolds, PTL DEF Spec

-----------------------------------------------------------------------------
(* The expiry of the key. *)

LEMMA ExpiryExecute ==
    ASSUME TypeOK, ExpiryTracked, Execute
    PROVE  ExpiryTracked'
<1> DEFINE c == Head(wire)
<1>1. c.msg \in Msgs /\ c.cmd \in Commands
  <2>1. c \in Command
    BY TailOfQueue DEF TypeOK, Execute
  <2> QED
    BY <2>1 DEF Command
<1>2. done' = [done EXCEPT ![c.msg] = c.cmd] /\ done \in [Msgs -> {"none"} \cup Commands]
  BY DEF Execute, TypeOK
<1>3. CASE c.cmd = "expire"
  <2>1. ttl' = (list' # <<>>)
    BY <1>3 DEF Execute, ExpireAt
  <2> QED
    BY <2>1 DEF ExpiryTracked
<1>4. CASE c.cmd \in {"lPush", "lTrim"}
  <2>1. done'[c.msg] \in {"lPush", "lTrim"}
    BY <1>1, <1>2, <1>4
  <2> QED
    BY <1>1, <2>1 DEF ExpiryTracked
<1> QED
  BY <1>1, <1>3, <1>4 DEF Commands

\* A buffer without an expiry can always be traced to an append that is
\* unfinished or was cut off between its push and its expire.
THEOREM ExpiryTrackedHolds == Spec => []ExpiryTracked
<1>1. Init => ExpiryTracked
  BY DEF Init, ExpiryTracked
<1>2. TypeOK /\ ExpiryTracked /\ [Next]_vars => ExpiryTracked'
  <2> SUFFICES ASSUME TypeOK, ExpiryTracked, [Next]_vars
               PROVE  ExpiryTracked'
    OBVIOUS
  <2>1. CASE Execute
    BY <2>1, ExpiryExecute
  <2>2. CASE KeyExpires
    BY <2>2 DEF KeyExpires, ExpiryTracked
  <2>3. CASE ~ Execute /\ ~ KeyExpires
    <3>1. UNCHANGED <<list, ttl, done>>
      BY <2>3 DEF Next, vars, redisVars, OnMessage, OnReply, Crash, ReplyError, Disconnect
    <3> QED
      BY <3>1 DEF ExpiryTracked
  <2> QED
    BY <2>1, <2>2, <2>3
<1> QED
  BY <1>1, <1>2, TypeCorrect, PTL DEF Spec

-----------------------------------------------------------------------------
(* What a joiner is shown. *)

\* TranscriptIsSuffix, said of the list itself.
SuffixOfLog ==
    /\ epoch \in Nat
    /\ Len(list) \in Nat
    /\ Len(log) \in Nat
    /\ Len(list) <= Len(log) - epoch
    /\ Len(list) >= Smaller(Cap, Len(log) - epoch)
    /\ \A i \in 1 .. Len(list) : list[i] = log[Len(log) + 1 - i]

LEMMA SuffixIffTranscript ==
    ASSUME TypeOK
    PROVE  SuffixOfLog <=> TranscriptIsSuffix
<1>1. epoch \in Nat /\ Len(list) \in Nat /\ Len(log) \in Nat
  BY LenProperties DEF TypeOK
<1>2. \A i \in 1 .. Len(list) : Transcript[i] = list[Len(list) + 1 - i]
  BY DEF Transcript
<1>3. ASSUME \A i \in 1 .. Len(list) : list[i] = log[Len(log) + 1 - i],
             NEW i \in 1 .. Len(list)
      PROVE  Transcript[i] = log[Len(log) - Len(list) + i]
  <2>1. /\ Len(list) + 1 - i \in 1 .. Len(list)
        /\ Len(log) + 1 - (Len(list) + 1 - i) = Len(log) - Len(list) + i
    BY <1>1
  <2> QED
    BY <1>2, <1>3, <2>1
<1>4. ASSUME \A i \in 1 .. Len(list) : Transcript[i] = log[Len(log) - Len(list) + i],
             NEW i \in 1 .. Len(list)
      PROVE  list[i] = log[Len(log) + 1 - i]
  <2> DEFINE j == Len(list) + 1 - i
  <2>1. /\ j \in 1 .. Len(list)
        /\ Len(list) + 1 - j = i
        /\ Len(log) - Len(list) + j = Len(log) + 1 - i
    BY <1>1
  <2> HIDE DEF j
  <2> QED
    BY <1>2, <1>4, <2>1
<1> QED
  BY <1>1, <1>3, <1>4 DEF SuffixOfLog, TranscriptIsSuffix

LEMMA SuffixLPush ==
    ASSUME TypeOK, SuffixOfLog, NEW m \in Msgs, LPush(m), epoch' = epoch
    PROVE  SuffixOfLog'
<1>1. <<m>> \in Seq(Msgs) /\ Len(<<m>>) = 1 /\ <<m>>[1] = m
  OBVIOUS
<1>2. /\ Len(list') = Len(list) + 1
      /\ \A i \in 1 .. Len(list) + 1 : list'[i] = IF i = 1 THEN m ELSE list[i - 1]
  <2>1. list' = <<m>> \o list
    BY DEF LPush
  <2>2. /\ Len(<<m>> \o list) = 1 + Len(list)
        /\ \A i \in 1 .. 1 + Len(list) :
              (<<m>> \o list)[i] = IF i <= 1 THEN <<m>>[i] ELSE list[i - 1]
    BY <1>1, ConcatProperties DEF TypeOK
  <2> QED
    BY <1>1, <2>1, <2>2 DEF SuffixOfLog
<1>3. /\ Len(log') = Len(log) + 1
      /\ log'[Len(log) + 1] = m
      /\ \A i \in 1 .. Len(log) : log'[i] = log[i]
  BY AppendProperties DEF TypeOK, LPush
<1>4. ASSUME NEW i \in 1 .. Len(list')
      PROVE  list'[i] = log'[Len(log') + 1 - i]
  <2>1. CASE i = 1
    BY <1>2, <1>3, <2>1 DEF SuffixOfLog
  <2>2. CASE i # 1
    <3>1. /\ i - 1 \in 1 .. Len(list)
          /\ Len(log) + 1 - (i - 1) \in 1 .. Len(log)
          /\ Len(log') + 1 - i = Len(log) + 1 - (i - 1)
      BY <1>2, <1>3, <2>2 DEF SuffixOfLog
    <3>2. list'[i] = list[i - 1]
      BY <1>2, <2>2
    <3>3. log'[Len(log) + 1 - (i - 1)] = log[Len(log) + 1 - (i - 1)]
      BY <1>3, <3>1
    <3> QED
      BY <3>1, <3>2, <3>3 DEF SuffixOfLog
  <2> QED
    BY <2>1, <2>2
<1>5. /\ Len(list') <= Len(log') - epoch'
      /\ Len(list') >= Smaller(Cap, Len(log') - epoch')
      /\ epoch' \in Nat /\ Len(list') \in Nat /\ Len(log') \in Nat
  BY <1>2, <1>3, CapAssumption DEF SuffixOfLog, Smaller
<1> QED
  BY <1>4, <1>5 DEF SuffixOfLog

LEMMA SuffixLTrim ==
    ASSUME TypeOK, SuffixOfLog, LTrim, epoch' = epoch
    PROVE  SuffixOfLog'
<1>1. CASE Len(list) > Cap
  <2>1. \A i \in 1 .. Cap : list[i] \in Msgs
    BY <1>1, CapAssumption, ElementOfSeq DEF TypeOK, SuffixOfLog
  <2>2. /\ Len(SubSeq(list, 1, Cap)) = Cap
        /\ \A i \in 1 .. Cap : SubSeq(list, 1, Cap)[i] = list[i]
    BY <2>1, CapAssumption, SubSeqProperties
  <2>3. list' = SubSeq(list, 1, Cap) /\ log' = log
    BY <1>1 DEF LTrim
  <2> QED
    BY <1>1, <2>2, <2>3, CapAssumption DEF SuffixOfLog, Smaller
<1>2. CASE ~ (Len(list) > Cap)
  BY <1>2 DEF LTrim, SuffixOfLog
<1> QED
  BY <1>1, <1>2

\* However the appends interleave, fail or expire, a joiner is shown the newest
\* messages of the room's log, without a gap and oldest first, and never fewer
\* than the cap when the key has seen that many.
THEOREM TranscriptHolds == Spec => []TranscriptIsSuffix
<1>1. Init => SuffixOfLog
  BY CapAssumption, EmptySeq DEF Init, SuffixOfLog, Smaller
<1>2. TypeOK /\ SuffixOfLog /\ [Next]_vars => SuffixOfLog'
  <2> SUFFICES ASSUME TypeOK, SuffixOfLog, [Next]_vars
               PROVE  SuffixOfLog'
    OBVIOUS
  <2>1. CASE Execute
    <3>1. Head(wire).msg \in Msgs
      <4>1. Head(wire) \in Command
        BY <2>1, TailOfQueue DEF TypeOK, Execute
      <4> QED
        BY <4>1 DEF Command
    <3>2. epoch' = epoch
      BY <2>1 DEF Execute
    <3>3. CASE ExpireAt
      BY <3>2, <3>3 DEF ExpireAt, SuffixOfLog
    <3> QED
      BY <2>1, <3>1, <3>2, <3>3, SuffixLPush, SuffixLTrim DEF Execute
  <2>2. CASE KeyExpires
    <3>1. Len(list') = 0 /\ log' = log /\ epoch' = Len(log)
      BY <2>2, EmptySeq DEF KeyExpires
    <3> QED
      BY <3>1, CapAssumption DEF SuffixOfLog, Smaller
  <2>3. CASE ~ Execute /\ ~ KeyExpires
    <3>1. UNCHANGED <<list, log, epoch>>
      BY <2>3 DEF Next, vars, redisVars, OnMessage, OnReply, Crash, ReplyError, Disconnect
    <3> QED
      BY <3>1 DEF SuffixOfLog
  <2> QED
    BY <2>1, <2>2, <2>3
<1>3. TypeOK /\ SuffixOfLog => TranscriptIsSuffix
  BY SuffixIffTranscript
<1> QED
  BY <1>1, <1>2, <1>3, TypeCorrect, PTL DEF Spec

-----------------------------------------------------------------------------
(* The refinement of ChatLog.  The connection is first in, first out, and a *)
(* handler takes its next place only when its reply came, so a message that *)
(* was stored first stays first for as long as it lives.                    *)

InFlight(m) ==
    \/ \E i \in DOMAIN wire : wire[i].msg = m
    \/ \E i \in DOMAIN replies : replies[i].msg = m

\* The command of b is answered before that of a.
InFront(b, a) ==
    \/ \E i, j \in DOMAIN replies : i < j /\ replies[i].msg = b /\ replies[j].msg = a
    \/ \E i, j \in DOMAIN wire : i < j /\ wire[i].msg = b /\ wire[j].msg = a
    \/ \E i \in DOMAIN replies, j \in DOMAIN wire : replies[i].msg = b /\ wire[j].msg = a

Stage(c) == CASE c = "lPush" -> 1 [] c = "lTrim" -> 2 [] OTHER -> 3

\* a was stored before b.
Earlier(a, b) == \E i, j \in DOMAIN log : i < j /\ log[i] = a /\ log[j] = b

\* An append that is waiting waits for a command.
AllInFlight == \A m \in Msgs : handler[m] \in Commands => InFlight(m)

\* The log holds, once each, the messages whose lPush was executed; the room
\* those whose handler came to its end.
Logged ==
    /\ \A m \in Msgs : done[m] # "none" <=> \E i \in DOMAIN log : log[i] = m
    /\ \A i, j \in DOMAIN log : log[i] = log[j] => i = j

RoomSent == \A m \in Msgs : (\E i \in DOMAIN room : room[i] = m) <=> handler[m] = "sent"

\* While a is unfinished, nothing stored after it is finished or further on.
NoOvertaking ==
    \A a, b \in Msgs :
        Earlier(a, b) /\ handler[a] \in Commands
            => /\ handler[b] # "sent"
               /\ handler[b] \in Commands
                     => /\ Stage(handler[b]) <= Stage(handler[a])
                        /\ handler[b] = handler[a] => ~ InFront(b, a)

Pipeline == AllInFlight /\ Logged /\ RoomSent /\ NoOvertaking

LEMMA PipelineInit == Init => Pipeline
<1>1. Init => \A m \in Msgs : handler[m] = "new" /\ done[m] = "none"
  BY DEF Init
<1> QED
  BY <1>1 DEF Init, Pipeline, AllInFlight, Logged, RoomSent, NoOvertaking, Earlier, Commands

\* A message in the log was pushed, one in the room was sent.
LEMMA LogMsgs ==
    ASSUME TypeOK
    PROVE  /\ DOMAIN log = 1 .. Len(log) /\ Len(log) \in Nat
           /\ DOMAIN room = 1 .. Len(room) /\ Len(room) \in Nat
           /\ \A i \in DOMAIN log : log[i] \in Msgs
           /\ \A i \in DOMAIN room : room[i] \in Msgs
           /\ \A a, b : Earlier(a, b) => a \in Msgs /\ b \in Msgs
<1>1. \A i \in DOMAIN log : log[i] \in Msgs
  BY LenProperties, ElementOfSeq DEF TypeOK
<1> QED
  BY <1>1, LenProperties, ElementOfSeq DEF TypeOK, Earlier

\* A message waiting at the head of the replies is in front of every other one.
LEMMA HeadInFront ==
    ASSUME TypeOK, replies # <<>>, NEW a \in Msgs, InFlight(a), a # Head(replies).msg
    PROVE  InFront(Head(replies).msg, a)
<1>1. Head(replies) = replies[1] /\ 1 \in DOMAIN replies /\ DOMAIN replies \subseteq Nat \ {0}
  BY TailOfQueue, LenProperties DEF TypeOK
<1>2. CASE \E i \in DOMAIN wire : wire[i].msg = a
  BY <1>1, <1>2 DEF InFront
<1>3. CASE \E i \in DOMAIN replies : replies[i].msg = a
  <2>1. PICK i \in DOMAIN replies : replies[i].msg = a
    BY <1>3
  <2>2. 1 < i
    BY <1>1, <2>1
  <2> QED
    BY <1>1, <2>1, <2>2 DEF InFront
<1> QED
  BY <1>2, <1>3 DEF InFlight

\* How the connection moves when the head of the replies is taken and, or not,
\* the same message goes to the end of the wire.
LEMMA ResumeQueues ==
    ASSUME TypeOK, OneCommandEach, replies # <<>>, replies' = Tail(replies),
           NEW e \in Command, e.msg = Head(replies).msg,
           wire' = Append(wire, e)
    PROVE  /\ \A m \in Msgs : InFlight(m) => InFlight(m)'
           /\ \A a, b \in Msgs : InFront(b, a)' => b # e.msg /\ (InFront(b, a) \/ a = e.msg)
<1>1. /\ DOMAIN wire' = 1 .. Len(wire) + 1
      /\ DOMAIN wire = 1 .. Len(wire)
      /\ Len(wire) \in Nat
      /\ \A i \in DOMAIN wire : wire'[i] = wire[i]
      /\ wire'[Len(wire) + 1] = e
  BY AppendToQueue DEF TypeOK
<1>2. /\ DOMAIN replies = 1 .. Len(replies) /\ Len(replies) \in Nat \ {0}
      /\ DOMAIN replies' = 1 .. Len(replies) - 1
      /\ \A i \in DOMAIN replies' : i + 1 \in DOMAIN replies /\ replies'[i] = replies[i + 1]
  BY EmptySeq, LenProperties, HeadTailProperties DEF TypeOK
<1>3. Head(replies) = replies[1]
  BY TailOfQueue DEF TypeOK
<1>4. ASSUME NEW m \in Msgs, InFlight(m) PROVE InFlight(m)'
  <2>1. CASE m = e.msg
    BY <1>1, <2>1 DEF InFlight
  <2>2. CASE m # e.msg /\ \E i \in DOMAIN wire : wire[i].msg = m
    BY <1>1, <2>2 DEF InFlight
  <2>3. CASE m # e.msg /\ \E i \in DOMAIN replies : replies[i].msg = m
    <3>1. PICK i \in DOMAIN replies : replies[i].msg = m
      BY <2>3
    <3>2. i # 1
      BY <1>3, <2>3, <3>1
    <3>3. i - 1 \in DOMAIN replies' /\ (i - 1) + 1 = i
      BY <1>2, <3>2
    <3>4. replies'[i - 1].msg = m
      BY <1>2, <3>1, <3>3
    <3> QED
      BY <3>3, <3>4 DEF InFlight
  <2> QED
    BY <1>4, <2>1, <2>2, <2>3 DEF InFlight
<1>5. ASSUME NEW a \in Msgs, NEW b \in Msgs, InFront(b, a)'
      PROVE  b # e.msg /\ (InFront(b, a) \/ a = e.msg)
  <2>1. \A i \in DOMAIN replies' : replies'[i].msg # e.msg
    BY RepliesBehindHead
  <2>2. \A i \in DOMAIN wire : wire[i].msg # e.msg
    BY RepliesBehindHead
  <2>3. CASE \E i, j \in DOMAIN replies' : i < j /\ replies'[i].msg = b /\ replies'[j].msg = a
    <3>1. PICK i \in DOMAIN replies', j \in DOMAIN replies' :
             i < j /\ replies'[i].msg = b /\ replies'[j].msg = a
      BY <2>3
    <3>2. i + 1 < j + 1 /\ i + 1 \in DOMAIN replies /\ j + 1 \in DOMAIN replies
      BY <1>2, <3>1
    <3>3. InFront(b, a)
      BY <1>2, <3>1, <3>2 DEF InFront
    <3> QED
      BY <2>1, <3>1, <3>3
  <2>4. CASE \E i, j \in DOMAIN wire' : i < j /\ wire'[i].msg = b /\ wire'[j].msg = a
    <3>1. PICK i \in DOMAIN wire', j \in DOMAIN wire' :
             i < j /\ wire'[i].msg = b /\ wire'[j].msg = a
      BY <2>4
    <3>2. i \in DOMAIN wire /\ wire[i].msg = b
      BY <1>1, <3>1
    <3>3. (j \in DOMAIN wire /\ wire[j].msg = a) \/ a = e.msg
      BY <1>1, <3>1
    <3> QED
      BY <2>2, <3>1, <3>2, <3>3 DEF InFront
  <2>5. CASE \E i \in DOMAIN replies', j \in DOMAIN wire' :
                replies'[i].msg = b /\ wire'[j].msg = a
    <3>1. PICK i \in DOMAIN replies', j \in DOMAIN wire' :
             replies'[i].msg = b /\ wire'[j].msg = a
      BY <2>5
    <3>2. i + 1 \in DOMAIN replies /\ replies[i + 1].msg = b
      BY <1>2, <3>1
    <3>3. (j \in DOMAIN wire /\ wire[j].msg = a) \/ a = e.msg
      BY <1>1, <3>1
    <3> QED
      BY <2>1, <3>1, <3>2, <3>3 DEF InFront
  <2> QED
    BY <1>5, <2>3, <2>4, <2>5 DEF InFront
<1> QED
  BY <1>4, <1>5

LEMMA EndQueues ==
    ASSUME TypeOK, OneCommandEach, replies # <<>>, replies' = Tail(replies), wire' = wire
    PROVE  /\ \A m \in Msgs : InFlight(m) /\ m # Head(replies).msg => InFlight(m)'
           /\ \A a, b \in Msgs : InFront(b, a)' => InFront(b, a)
<1>1. /\ DOMAIN replies = 1 .. Len(replies) /\ Len(replies) \in Nat \ {0}
      /\ DOMAIN replies' = 1 .. Len(replies) - 1
      /\ \A i \in DOMAIN replies' : i + 1 \in DOMAIN replies /\ replies'[i] = replies[i + 1]
      /\ Head(replies) = replies[1]
  BY EmptySeq, LenProperties, HeadTailProperties DEF TypeOK
<1>2. ASSUME NEW i \in DOMAIN replies, replies[i].msg # Head(replies).msg
      PROVE  i - 1 \in DOMAIN replies' /\ replies'[i - 1] = replies[i]
  <2>1. i - 1 \in DOMAIN replies' /\ (i - 1) + 1 = i
    BY <1>1, <1>2
  <2> QED
    BY <1>1, <2>1
<1>3. \A m \in Msgs : InFlight(m) /\ m # Head(replies).msg => InFlight(m)'
  BY <1>2 DEF InFlight
<1>4. ASSUME NEW a \in Msgs, NEW b \in Msgs, InFront(b, a)'
      PROVE  InFront(b, a)
  <2>1. \A i, j \in DOMAIN replies' : i < j => i + 1 < j + 1
    BY <1>1
  <2> QED
    BY <1>1, <1>4, <2>1 DEF InFront
<1> QED
  BY <1>3, <1>4

\* A command that is answered moves from the head of the wire to the end of the
\* replies: nothing changes places.
LEMMA AnswerQueues ==
    ASSUME TypeOK, wire # <<>>, wire' = Tail(wire),
           NEW e \in Reply, e.msg = Head(wire).msg,
           replies' = Append(replies, e)
    PROVE  /\ \A m \in Msgs : InFlight(m) => InFlight(m)'
           /\ \A a, b \in Msgs : InFront(b, a)' => InFront(b, a)
           /\ \A a \in Msgs : InFront(e.msg, a)' =>
                 \/ \E j \in DOMAIN wire : wire[j].msg = a
                 \/ \E i \in DOMAIN replies : replies[i].msg = e.msg
<1>1. /\ DOMAIN replies' = 1 .. Len(replies) + 1
      /\ DOMAIN replies = 1 .. Len(replies)
      /\ Len(replies) \in Nat
      /\ \A i \in DOMAIN replies : replies'[i] = replies[i]
      /\ replies'[Len(replies) + 1] = e
  BY AppendToQueue DEF TypeOK
<1>2. /\ DOMAIN wire = 1 .. Len(wire) /\ Len(wire) \in Nat \ {0}
      /\ DOMAIN wire' = 1 .. Len(wire) - 1
      /\ \A i \in DOMAIN wire' : i + 1 \in DOMAIN wire /\ wire'[i] = wire[i + 1]
      /\ Head(wire) = wire[1] /\ 1 \in DOMAIN wire
  BY EmptySeq, LenProperties, HeadTailProperties DEF TypeOK
<1>3. ASSUME NEW m \in Msgs, InFlight(m) PROVE InFlight(m)'
  <2>1. CASE m = e.msg
    BY <1>1, <2>1 DEF InFlight
  <2>2. CASE \E i \in DOMAIN replies : replies[i].msg = m
    BY <1>1, <2>2 DEF InFlight
  <2>3. CASE m # e.msg /\ \E i \in DOMAIN wire : wire[i].msg = m
    <3>1. PICK i \in DOMAIN wire : wire[i].msg = m
      BY <2>3
    <3>2. i - 1 \in DOMAIN wire' /\ (i - 1) + 1 = i
      BY <1>2, <2>3, <3>1
    <3>3. wire'[i - 1].msg = m
      BY <1>2, <3>1, <3>2
    <3> QED
      BY <3>2, <3>3 DEF InFlight
  <2> QED
    BY <1>3, <2>1, <2>2, <2>3 DEF InFlight
<1>4. ASSUME NEW a \in Msgs, NEW b \in Msgs, InFront(b, a)'
      PROVE  /\ InFront(b, a)
             /\ b = e.msg => \/ \E j \in DOMAIN wire : wire[j].msg = a
                             \/ \E i \in DOMAIN replies : replies[i].msg = b
  <2>1. CASE \E i, j \in DOMAIN replies' : i < j /\ replies'[i].msg = b /\ replies'[j].msg = a
    <3>1. PICK i \in DOMAIN replies', j \in DOMAIN replies' :
             i < j /\ replies'[i].msg = b /\ replies'[j].msg = a
      BY <2>1
    <3>2. i \in DOMAIN replies /\ replies[i].msg = b
      BY <1>1, <3>1
    <3>3. CASE j \in DOMAIN replies
      BY <1>1, <3>1, <3>2, <3>3 DEF InFront
    <3>4. CASE j \notin DOMAIN replies
      <4>1. a = wire[1].msg
        BY <1>1, <1>2, <3>1, <3>4
      <4> QED
        BY <1>2, <3>2, <4>1 DEF InFront
    <3> QED
      BY <3>3, <3>4
  <2>2. CASE \E i, j \in DOMAIN wire' : i < j /\ wire'[i].msg = b /\ wire'[j].msg = a
    <3>1. PICK i \in DOMAIN wire', j \in DOMAIN wire' :
             i < j /\ wire'[i].msg = b /\ wire'[j].msg = a
      BY <2>2
    <3>2. i + 1 < j + 1 /\ i + 1 \in DOMAIN wire /\ j + 1 \in DOMAIN wire
      BY <1>2, <3>1
    <3> QED
      BY <1>2, <3>1, <3>2 DEF InFront
  <2>3. CASE \E i \in DOMAIN replies', j \in DOMAIN wire' :
                replies'[i].msg = b /\ wire'[j].msg = a
    <3>1. PICK i \in DOMAIN replies', j \in DOMAIN wire' :
             replies'[i].msg = b /\ wire'[j].msg = a
      BY <2>3
    <3>2. j + 1 \in DOMAIN wire /\ wire[j + 1].msg = a /\ 1 < j + 1
      BY <1>2, <3>1
    <3>3. CASE i \in DOMAIN replies
      BY <1>1, <3>1, <3>2, <3>3 DEF InFront
    <3>4. CASE i \notin DOMAIN replies
      <4>1. b = wire[1].msg
        BY <1>1, <1>2, <3>1, <3>4
      <4> QED
        BY <1>2, <3>2, <4>1 DEF InFront
    <3> QED
      BY <3>3, <3>4
  <2> QED
    BY <1>4, <2>1, <2>2, <2>3 DEF InFront
<1> QED
  BY <1>3, <1>4, QueueEntries, <1>2

LEMMA DropQueues ==
    ASSUME TypeOK, NEW k \in 0 .. Len(wire), replies' = <<>>,
           wire' = SubSeq(wire, k + 1, Len(wire))
    PROVE  /\ \A m \in Msgs : InFlight(m) =>
                 \/ InFlight(m)'
                 \/ \E i \in DOMAIN replies : replies[i].msg = m
                 \/ \E i \in 1 .. k : wire[i].msg = m
           /\ \A a, b \in Msgs : InFront(b, a)' => InFront(b, a)
<1>1. /\ Len(wire) \in Nat /\ DOMAIN wire = 1 .. Len(wire)
      /\ \A i \in DOMAIN wire' : i + k \in DOMAIN wire /\ wire'[i] = wire[i + k]
      /\ DOMAIN wire' \subseteq Nat
  BY DropFromQueue, LenProperties DEF TypeOK
<1>2. DOMAIN wire' = 1 .. Len(wire) - k
  BY DropFromQueue DEF TypeOK
<1>3. ASSUME NEW m \in Msgs, NEW i \in DOMAIN wire, wire[i].msg = m, i \notin 1 .. k
      PROVE  InFlight(m)'
  <2>1. i - k \in DOMAIN wire' /\ (i - k) + k = i
    BY <1>1, <1>2, <1>3
  <2>2. wire'[i - k].msg = m
    BY <1>1, <1>3, <2>1
  <2> QED
    BY <2>1, <2>2 DEF InFlight
<1>4. ASSUME NEW a \in Msgs, NEW b \in Msgs, InFront(b, a)'
      PROVE  InFront(b, a)
  <2>1. PICK i \in DOMAIN wire', j \in DOMAIN wire' : i < j /\ wire'[i].msg = b /\ wire'[j].msg = a
    BY <1>4 DEF InFront
  <2>2. i + k < j + k
    BY <1>1, <2>1
  <2> QED
    BY <1>1, <2>1, <2>2 DEF InFront
<1> QED
  BY <1>3, <1>4 DEF InFlight

\* A step after which some handlers have ended without publishing, and the rest
\* wait as before.
LEMMA PipelineEnds ==
    ASSUME TypeOK, Pipeline, UNCHANGED <<log, done, room>>,
           \A m \in Msgs : handler'[m] = handler[m] \/
                           (handler[m] # "sent" /\ handler'[m] \in {"failed", "lost"}),
           \A m \in Msgs : handler'[m] \in Commands /\ InFlight(m) => InFlight(m)',
           \A a, b \in Msgs : handler'[a] \in Commands /\ InFront(b, a)' => InFront(b, a)
    PROVE  Pipeline'
<1>1. AllInFlight'
  BY DEF Pipeline, AllInFlight, Commands
<1>2. Logged' /\ RoomSent'
  BY DEF Pipeline, Logged, RoomSent
<1>3. NoOvertaking'
  <2> SUFFICES ASSUME NEW a \in Msgs, NEW b \in Msgs, Earlier(a, b), handler'[a] \in Commands
               PROVE  /\ handler'[b] # "sent"
                      /\ handler'[b] \in Commands
                            => /\ Stage(handler'[b]) <= Stage(handler'[a])
                               /\ handler'[b] = handler'[a] => ~ InFront(b, a)'
    BY DEF NoOvertaking, Earlier
  <2>1. handler'[a] = handler[a] /\ (handler'[b] = handler[b] \/ handler'[b] \in {"failed", "lost"})
    BY DEF Commands
  <2> QED
    BY <2>1 DEF Pipeline, NoOvertaking, Commands
<1> QED
  BY <1>1, <1>2, <1>3 DEF Pipeline

LEMMA PipelineOnMessage ==
    ASSUME TypeOK, OneCommandEach, Pipeline, NEW m \in Msgs, OnMessage(m)
    PROVE  Pipeline'
<1>1. handler[m] = "new" /\ UNCHANGED <<done, log, room, replies>>
  BY DEF OnMessage, redisVars
<1>2. handler \in [Msgs -> {"new"} \cup Commands \cup Ended]
  BY DEF TypeOK
<1>3. CASE handler' = [handler EXCEPT ![m] = "failed"] /\ wire' = wire
  BY <1>1, <1>2, <1>3, PipelineEnds DEF InFlight, InFront
<1>4. CASE /\ handler' = [handler EXCEPT ![m] = "lPush"]
           /\ wire' = Append(wire, [msg |-> m, cmd |-> "lPush"])
  <2> DEFINE e == [msg |-> m, cmd |-> "lPush"]
  <2>1. e \in Command /\ e.msg = m
    BY DEF Command, Commands
  <2>2. /\ DOMAIN wire' = 1 .. Len(wire) + 1
        /\ DOMAIN wire = 1 .. Len(wire)
        /\ Len(wire) \in Nat
        /\ \A i \in DOMAIN wire : wire'[i] = wire[i]
        /\ wire'[Len(wire) + 1] = e
    BY <1>4, <2>1, AppendToQueue DEF TypeOK
  <2> HIDE DEF e
  <2>3. handler'[m] = "lPush" /\ \A n \in Msgs : n # m => handler'[n] = handler[n]
    BY <1>2, <1>4
  <2>4. AllInFlight'
    BY <1>1, <2>1, <2>2, <2>3 DEF Pipeline, AllInFlight, InFlight
  <2>5. Logged' /\ RoomSent'
    BY <1>1, <2>3 DEF Pipeline, Logged, RoomSent
  <2>6. \A i \in DOMAIN log : log[i] # m
    BY <1>1 DEF OneCommandEach, NewUntouched, Pipeline, Logged
  <2>7. ASSUME NEW a \in Msgs, NEW b \in Msgs, a # m, InFront(b, a)'
        PROVE  InFront(b, a)
    <3>1. \A j \in DOMAIN wire' : wire'[j].msg = a => j \in DOMAIN wire /\ wire[j].msg = a
      BY <2>1, <2>2, <2>7
    <3>2. \A i \in DOMAIN wire', j \in DOMAIN wire : i < j => i \in DOMAIN wire /\ wire'[i] = wire[i]
      BY <2>2
    <3> QED
      BY <1>1, <2>7, <3>1, <3>2 DEF InFront
  <2>8. NoOvertaking'
    <3> SUFFICES ASSUME NEW a \in Msgs, NEW b \in Msgs, Earlier(a, b), handler'[a] \in Commands
                 PROVE  /\ handler'[b] # "sent"
                        /\ handler'[b] \in Commands
                              => /\ Stage(handler'[b]) <= Stage(handler'[a])
                                 /\ handler'[b] = handler'[a] => ~ InFront(b, a)'
      BY <1>1 DEF NoOvertaking, Earlier
    <3>1. a # m /\ b # m
      BY <2>6 DEF Earlier
    <3> QED
      BY <2>3, <2>7, <3>1 DEF Pipeline, NoOvertaking
  <2> QED
    BY <2>4, <2>5, <2>8 DEF Pipeline
<1> QED
  BY <1>3, <1>4 DEF OnMessage

\* The message whose reply comes first was overtaken by none of its followers
\* and has overtaken none of its predecessors.
LEMMA HeadOfReplies ==
    ASSUME TypeOK, OneCommandEach, Pipeline, replies # <<>>
    PROVE  /\ Head(replies).msg \in Msgs /\ Head(replies).cmd \in Commands
           /\ Head(replies).ok \in BOOLEAN
           /\ handler[Head(replies).msg] = Head(replies).cmd
           /\ done[Head(replies).msg] = IF Head(replies).ok THEN Head(replies).cmd
                                        ELSE Before(Head(replies).cmd)
           /\ \A a \in Msgs : Earlier(a, Head(replies).msg) /\ handler[a] \in Commands
                 => Stage(Head(replies).cmd) < Stage(handler[a])
<1> DEFINE r == Head(replies)
<1>1. r = replies[1] /\ 1 \in DOMAIN replies
  BY TailOfQueue DEF TypeOK
<1>2. /\ r.msg \in Msgs /\ r.cmd \in Commands /\ r.ok \in BOOLEAN
      /\ handler[r.msg] = r.cmd
      /\ done[r.msg] = IF r.ok THEN r.cmd ELSE Before(r.cmd)
  BY <1>1, QueueEntries DEF OneCommandEach, RepliesOwned
<1> HIDE DEF r
<1>3. ASSUME NEW a \in Msgs, Earlier(a, r.msg), handler[a] \in Commands
      PROVE  Stage(r.cmd) < Stage(handler[a])
  <2>1. a # r.msg
    <3>1. PICK i \in DOMAIN log, j \in DOMAIN log : i < j /\ log[i] = a /\ log[j] = r.msg
      BY <1>3 DEF Earlier
    <3>2. i # j
      BY <3>1, LogMsgs
    <3> QED
      BY <3>1, <3>2 DEF Pipeline, Logged
  <2>2. InFlight(a)
    BY <1>3 DEF Pipeline, AllInFlight
  <2>3. InFront(r.msg, a)
    BY <2>1, <2>2, HeadInFront DEF r
  <2>4. Stage(r.cmd) <= Stage(handler[a]) /\ handler[a] # r.cmd
    BY <1>2, <1>3, <2>3 DEF Pipeline, NoOvertaking
  <2> QED
    BY <1>2, <1>3, <2>4 DEF Commands, Stage
<1> QED
  BY <1>2, <1>3 DEF r

LEMMA PipelineOnReply ==
    ASSUME TypeOK, OneCommandEach, Pipeline, OnReply
    PROVE  Pipeline'
<1> DEFINE r == Head(replies)
<1>1. /\ replies # <<>> /\ replies' = Tail(replies) /\ UNCHANGED <<done, log>>
      /\ IF r.ok THEN Resume(r.msg, r.cmd) ELSE Abandon(r.msg)
  BY DEF OnReply, redisVars
<1>2. /\ r.msg \in Msgs /\ r.cmd \in Commands /\ r.ok \in BOOLEAN
      /\ handler[r.msg] = r.cmd
      /\ done[r.msg] = IF r.ok THEN r.cmd ELSE Before(r.cmd)
      /\ \A a \in Msgs : Earlier(a, r.msg) /\ handler[a] \in Commands
            => Stage(r.cmd) < Stage(handler[a])
  BY <1>1, HeadOfReplies
<1>3. handler \in [Msgs -> {"new"} \cup Commands \cup Ended]
  BY DEF TypeOK
<1>4. wire' = wire => /\ \A m \in Msgs : InFlight(m) /\ m # r.msg => InFlight(m)'
                      /\ \A a, b \in Msgs : InFront(b, a)' => InFront(b, a)
  BY <1>1, EndQueues
<1>5. CASE ~ r.ok
  <2>1. handler' = [handler EXCEPT ![r.msg] = "failed"] /\ wire' = wire /\ room' = room
    BY <1>1, <1>5 DEF Abandon
  <2>2. handler'[r.msg] = "failed" /\ \A m \in Msgs : m # r.msg => handler'[m] = handler[m]
    BY <1>2, <1>3, <2>1
  <2>3. handler[r.msg] # "sent" /\ "failed" \notin Commands
    BY <1>2 DEF Commands
  <2> HIDE DEF r
  <2> QED
    BY <1>1, <1>4, <2>1, <2>2, <2>3, PipelineEnds
<1>6. CASE r.ok /\ r.cmd = "expire"
  <2>1. handler' = [handler EXCEPT ![r.msg] = "sent"] /\ room' = Append(room, r.msg) /\ wire' = wire
    BY <1>1, <1>6 DEF Resume
  <2>2. handler'[r.msg] = "sent" /\ \A m \in Msgs : m # r.msg => handler'[m] = handler[m]
    BY <1>2, <1>3, <2>1
  <2>3. "sent" \notin Commands /\ Stage("expire") = 3 /\ \A c \in Commands : Stage(c) <= 3
    BY DEF Commands, Stage
  <2>4. /\ DOMAIN room' = 1 .. Len(room) + 1
        /\ DOMAIN room = 1 .. Len(room) /\ Len(room) \in Nat
        /\ \A i \in DOMAIN room : room'[i] = room[i]
        /\ room'[Len(room) + 1] = r.msg
    BY <1>2, <2>1, AppendToQueue DEF TypeOK
  <2> HIDE DEF r
  <2>5. AllInFlight'
    BY <1>4, <2>1, <2>2, <2>3 DEF Pipeline, AllInFlight
  <2>6. RoomSent'
    <3>1. \A m \in Msgs : (\E i \in DOMAIN room' : room'[i] = m)
                             <=> (m = r.msg \/ \E i \in DOMAIN room : room[i] = m)
      BY <2>4
    <3> QED
      BY <2>2, <3>1 DEF Pipeline, RoomSent
  <2>7. Logged'
    BY <1>1 DEF Pipeline, Logged
  <2>8. NoOvertaking'
    <3> SUFFICES ASSUME NEW a \in Msgs, NEW b \in Msgs, Earlier(a, b), handler'[a] \in Commands
                 PROVE  /\ handler'[b] # "sent"
                        /\ handler'[b] \in Commands
                              => /\ Stage(handler'[b]) <= Stage(handler'[a])
                                 /\ handler'[b] = handler'[a] => ~ InFront(b, a)'
      BY <1>1 DEF NoOvertaking, Earlier
    <3>1. a # r.msg /\ handler'[a] = handler[a]
      BY <2>2, <2>3
    <3>2. b # r.msg
      <4>1. ~ (Stage(r.cmd) < Stage(handler[a]))
        BY <1>6, <2>3, <3>1 DEF Stage, Commands
      <4> QED
        BY <1>2, <3>1, <4>1
    <3> QED
      BY <1>4, <2>1, <2>2, <3>1, <3>2 DEF Pipeline, NoOvertaking
  <2> QED
    BY <2>5, <2>6, <2>7, <2>8 DEF Pipeline
<1>7. CASE r.ok /\ r.cmd # "expire"
  <2> DEFINE next == IF r.cmd = "lPush" THEN "lTrim" ELSE "expire"
             e == [msg |-> r.msg, cmd |-> next]
  <2>1. handler' = [handler EXCEPT ![r.msg] = next] /\ wire' = Append(wire, e) /\ room' = room
    BY <1>1, <1>7 DEF Resume
  <2>2. e \in Command /\ e.msg = r.msg
    BY <1>2 DEF Command, Commands
  <2>3. next \in Commands /\ next # "sent" /\ Stage(next) = Stage(r.cmd) + 1 /\ Stage(r.cmd) \in Nat
    BY <1>2, <1>7 DEF Commands, Stage
  <2>4. handler'[r.msg] = next /\ \A m \in Msgs : m # r.msg => handler'[m] = handler[m]
    BY <1>2, <1>3, <2>1
  <2>5. /\ \A m \in Msgs : InFlight(m) => InFlight(m)'
        /\ \A a, b \in Msgs : InFront(b, a)' => b # r.msg /\ (InFront(b, a) \/ a = r.msg)
    BY <1>1, <2>1, <2>2, ResumeQueues
  <2> HIDE DEF next, e, r
  <2>6. AllInFlight'
    BY <1>2, <2>4, <2>5 DEF Pipeline, AllInFlight
  <2>7. Logged' /\ RoomSent'
    BY <1>1, <1>2, <2>1, <2>3, <2>4 DEF Pipeline, Logged, RoomSent, Commands
  <2>8. NoOvertaking'
    <3> SUFFICES ASSUME NEW a \in Msgs, NEW b \in Msgs, Earlier(a, b), handler'[a] \in Commands
                 PROVE  /\ handler'[b] # "sent"
                        /\ handler'[b] \in Commands
                              => /\ Stage(handler'[b]) <= Stage(handler'[a])
                                 /\ handler'[b] = handler'[a] => ~ InFront(b, a)'
      BY <1>1 DEF NoOvertaking, Earlier
    <3>1. \A c \in Commands : Stage(c) \in Nat
      BY DEF Commands, Stage
    <3>2. a # b
      BY LogMsgs DEF Earlier, Pipeline, Logged
    <3>3. CASE a = r.msg
      <4>1. handler'[b] = handler[b] /\ handler[b] # "sent"
        BY <1>2, <2>4, <3>2, <3>3 DEF Pipeline, NoOvertaking
      <4>2. ASSUME handler[b] \in Commands
            PROVE  Stage(handler[b]) < Stage(next)
        <5>1. Stage(handler[b]) <= Stage(r.cmd)
          BY <1>2, <3>3, <4>2 DEF Pipeline, NoOvertaking
        <5> QED
          BY <2>3, <3>1, <4>2, <5>1
      <4> QED
        BY <2>3, <2>4, <3>1, <3>3, <4>1, <4>2
    <3>4. CASE b = r.msg
      <4>1. handler'[a] = handler[a] /\ Stage(r.cmd) < Stage(handler[a])
        BY <1>2, <2>4, <3>2, <3>4
      <4> QED
        BY <2>3, <2>4, <2>5, <3>1, <3>4, <4>1
    <3>5. CASE a # r.msg /\ b # r.msg
      BY <2>4, <2>5, <3>5 DEF Pipeline, NoOvertaking
    <3> QED
      BY <3>3, <3>4, <3>5
  <2> QED
    BY <2>6, <2>7, <2>8 DEF Pipeline
<1> QED
  BY <1>5, <1>6, <1>7

LEMMA PipelineExecute ==
    ASSUME TypeOK, OneCommandEach, Pipeline, Execute
    PROVE  Pipeline'
<1> DEFINE c == Head(wire)
<1>1. c = wire[1] /\ 1 \in DOMAIN wire /\ c.msg \in Msgs /\ c.cmd \in Commands
  BY TailOfQueue, QueueEntries DEF TypeOK, Execute
<1>2. PICK m \in Msgs : m = c.msg
  BY <1>1
<1> DEFINE e == [msg |-> m, cmd |-> c.cmd, ok |-> TRUE]
<1>3. /\ wire # <<>> /\ wire' = Tail(wire) /\ UNCHANGED <<handler, room>>
      /\ replies' = Append(replies, e) /\ done' = [done EXCEPT ![m] = c.cmd]
      /\ handler[m] = c.cmd /\ done[m] = Before(c.cmd)
  BY <1>1, <1>2 DEF Execute, OneCommandEach, WireOwned
<1>4. /\ \A n \in Msgs : InFlight(n) => InFlight(n)'
      /\ \A a, b \in Msgs : InFront(b, a)' => InFront(b, a)
      /\ \A a \in Msgs : InFront(m, a)' =>
            \/ \E j \in DOMAIN wire : wire[j].msg = a
            \/ \E i \in DOMAIN replies : replies[i].msg = m
  <2>1. PICK f \in Reply : f = e
    BY <1>1, <1>2 DEF Reply
  <2>2. f.msg = m /\ f.msg = Head(wire).msg
    BY <1>2, <2>1
  <2> HIDE DEF e, c
  <2> QED
    BY <1>3, <2>1, <2>2, AnswerQueues
<1>5. done'[m] = c.cmd /\ \A n \in Msgs : n # m => done'[n] = done[n]
  BY <1>3 DEF TypeOK
<1>6. AllInFlight' /\ RoomSent'
  BY <1>3, <1>4 DEF Pipeline, AllInFlight, RoomSent
<1>7. CASE c.cmd # "lPush"
  <2>1. log' = log
    BY <1>7 DEF Execute, LTrim, ExpireAt
  <2>2. done[m] # "none" /\ done'[m] # "none"
    BY <1>1, <1>3, <1>5, <1>7 DEF Before, Commands
  <2> HIDE DEF c, e
  <2>3. Logged'
    BY <1>5, <2>1, <2>2 DEF Pipeline, Logged
  <2>4. NoOvertaking'
    BY <1>3, <1>4, <2>1 DEF Pipeline, NoOvertaking, Earlier
  <2> QED
    BY <1>6, <2>3, <2>4 DEF Pipeline
<1>8. CASE c.cmd = "lPush"
  <2>1. log' = Append(log, m)
    BY <1>2, <1>8 DEF Execute, LPush
  <2>2. /\ DOMAIN log' = 1 .. Len(log) + 1
        /\ DOMAIN log = 1 .. Len(log) /\ Len(log) \in Nat
        /\ \A i \in DOMAIN log : log'[i] = log[i]
        /\ log'[Len(log) + 1] = m
    BY <1>2, <2>1, AppendToQueue DEF TypeOK
  <2>3. done[m] = "none" /\ done'[m] = "lPush" /\ handler[m] = "lPush"
    BY <1>3, <1>5, <1>8 DEF Before
  <2> HIDE DEF c, e
  <2>4. \A i \in DOMAIN log : log[i] # m
    BY <1>2, <2>3 DEF Pipeline, Logged
  <2>5. Logged'
    <3>1. \A n \in Msgs : (\E i \in DOMAIN log' : log'[i] = n)
                             <=> (n = m \/ \E i \in DOMAIN log : log[i] = n)
      BY <2>2
    <3>2. \A n \in Msgs : done'[n] # "none" <=> \E i \in DOMAIN log' : log'[i] = n
      BY <1>5, <2>3, <3>1 DEF Pipeline, Logged
    <3>3. \A i, j \in DOMAIN log' : log'[i] = log'[j] => i = j
      BY <2>2, <2>4 DEF Pipeline, Logged
    <3> QED
      BY <3>2, <3>3 DEF Logged
  <2>6. NoOvertaking'
    <3> SUFFICES ASSUME NEW a \in Msgs, NEW b \in Msgs, Earlier(a, b)', handler[a] \in Commands
                 PROVE  /\ handler[b] # "sent"
                        /\ handler[b] \in Commands
                              => /\ Stage(handler[b]) <= Stage(handler[a])
                                 /\ handler[b] = handler[a] => ~ InFront(b, a)'
      BY <1>3 DEF NoOvertaking
    <3>1. PICK i \in DOMAIN log', j \in DOMAIN log' : i < j /\ log'[i] = a /\ log'[j] = b
      BY DEF Earlier
    <3>2. i \in DOMAIN log /\ log[i] = a
      BY <2>2, <3>1
    <3>3. CASE j \in DOMAIN log
      <4>1. Earlier(a, b)
        BY <2>2, <3>1, <3>2, <3>3 DEF Earlier
      <4> QED
        BY <1>4, <4>1 DEF Pipeline, NoOvertaking
    <3>4. CASE j \notin DOMAIN log
      <4>1. b = m
        BY <2>2, <3>1, <3>4
      <4>2. Stage(handler[b]) <= Stage(handler[a]) /\ handler[b] # "sent"
        BY <2>3, <4>1 DEF Stage, Commands
      <4>3. done[a] # "none"
        BY <3>2 DEF Pipeline, Logged
      <4>4. ASSUME handler[a] = "lPush", InFront(m, a)' PROVE FALSE
        <5>1. \A k \in DOMAIN wire : wire[k].msg # a
          BY <4>3, <4>4, QueueEntries DEF OneCommandEach, WireOwned, Before
        <5>2. \A k \in DOMAIN replies : replies[k].msg # m
          BY <1>1, <1>2 DEF OneCommandEach, NoneTwice, c
        <5> QED
          BY <1>4, <4>4, <5>1, <5>2
      <4> QED
        BY <2>3, <4>1, <4>2, <4>4
    <3> QED
      BY <3>3, <3>4
  <2> QED
    BY <1>6, <2>5, <2>6 DEF Pipeline
<1> QED
  BY <1>7, <1>8

\* Whom a lost connection refuses, and that each was waiting for a command.
LEMMA DisconnectHandlers ==
    ASSUME TypeOK, OneCommandEach, Disconnect
    PROVE  \E k \in 0 .. Len(wire), R \in SUBSET Msgs :
              /\ wire' = SubSeq(wire, k + 1, Len(wire)) /\ replies' = <<>>
              /\ \A m \in R : handler[m] \in Commands
              /\ \A m \in Msgs : handler'[m] = IF m \in R THEN "failed" ELSE handler[m]
              /\ \A i \in DOMAIN replies : replies[i].msg \in R
              /\ \A i \in 1 .. k : wire[i].msg \in R
<1>1. PICK k \in 0 .. Len(wire) :
         /\ handler' = [m \in Msgs |-> IF m \in { replies[i].msg : i \in DOMAIN replies }
                                                  \cup { wire[i].msg : i \in 1 .. k }
                                       THEN "failed" ELSE handler[m]]
         /\ wire' = SubSeq(wire, k + 1, Len(wire))
  BY DEF Disconnect
<1> DEFINE R == { replies[i].msg : i \in DOMAIN replies } \cup { wire[i].msg : i \in 1 .. k }
<1>2. 1 .. k \subseteq DOMAIN wire
  BY LenProperties DEF TypeOK
<1>3. R \subseteq Msgs /\ \A m \in R : handler[m] \in Commands
  BY <1>2, QueueEntries DEF OneCommandEach, WireOwned, RepliesOwned
<1>4. \A m \in Msgs : handler'[m] = IF m \in R THEN "failed" ELSE handler[m]
  BY <1>1
<1>5. /\ \A i \in DOMAIN replies : replies[i].msg \in R
      /\ \A i \in 1 .. k : wire[i].msg \in R
  OBVIOUS
<1>6. replies' = <<>> /\ R \in SUBSET Msgs
  BY <1>3 DEF Disconnect
<1> HIDE DEF R
<1> QED
  BY <1>1, <1>3, <1>4, <1>5, <1>6

LEMMA PipelineStep ==
    ASSUME TypeOK, OneCommandEach, Pipeline, [Next]_vars
    PROVE  Pipeline'
<1>1. CASE \E m \in Msgs : OnMessage(m)
  BY <1>1, PipelineOnMessage
<1>2. CASE OnReply
  BY <1>2, PipelineOnReply
<1>3. CASE Crash
  <2>1. /\ UNCHANGED <<log, done, room>>
        /\ handler' = [m \in Msgs |-> IF handler[m] \in Commands THEN "lost" ELSE handler[m]]
    BY <1>3 DEF Crash, redisVars
  <2>2. \A m \in Msgs : handler'[m] \notin Commands
    BY <2>1 DEF Commands
  <2>3. \A m \in Msgs : handler'[m] = handler[m] \/ (handler[m] # "sent" /\ handler'[m] = "lost")
    BY <2>1 DEF Commands
  <2> QED
    BY <2>1, <2>2, <2>3, PipelineEnds
<1>4. CASE Execute
  BY <1>4, PipelineExecute
<1>5. CASE ReplyError
  <2> DEFINE e == [msg |-> Head(wire).msg, cmd |-> Head(wire).cmd, ok |-> FALSE]
  <2>1. /\ wire # <<>> /\ wire' = Tail(wire) /\ replies' = Append(replies, e)
        /\ UNCHANGED <<handler, log, done, room>>
    BY <1>5 DEF ReplyError, redisVars
  <2>2. e \in Reply /\ e.msg = Head(wire).msg
    <3>1. Head(wire) \in Command
      BY <2>1, TailOfQueue DEF TypeOK
    <3> QED
      BY <3>1 DEF Command, Reply
  <2> HIDE DEF e
  <2> QED
    BY <2>1, <2>2, AnswerQueues, PipelineEnds
<1>6. CASE Disconnect
  <2>1. PICK k \in 0 .. Len(wire), R \in SUBSET Msgs :
           /\ wire' = SubSeq(wire, k + 1, Len(wire)) /\ replies' = <<>>
           /\ \A m \in R : handler[m] \in Commands
           /\ \A m \in Msgs : handler'[m] = IF m \in R THEN "failed" ELSE handler[m]
           /\ \A i \in DOMAIN replies : replies[i].msg \in R
           /\ \A i \in 1 .. k : wire[i].msg \in R
    BY <1>6, DisconnectHandlers
  <2>2. "sent" \notin Commands /\ "failed" \notin Commands
    BY DEF Commands
  <2>3. /\ \A m \in Msgs : InFlight(m) /\ m \notin R => InFlight(m)'
        /\ \A a, b \in Msgs : InFront(b, a)' => InFront(b, a)
    BY <2>1, DropQueues
  <2>4. UNCHANGED <<log, done, room>>
    BY <1>6 DEF Disconnect, redisVars
  <2> QED
    BY <2>1, <2>2, <2>3, <2>4, PipelineEnds
<1>7. CASE KeyExpires \/ UNCHANGED vars
  <2>1. UNCHANGED <<handler, wire, replies, done, log, room>>
    BY <1>7 DEF KeyExpires, vars
  <2> QED
    BY <2>1, PipelineEnds DEF InFlight, InFront
<1> QED
  BY <1>1, <1>2, <1>3, <1>4, <1>5, <1>6, <1>7 DEF Next

-----------------------------------------------------------------------------

LEMMA LogInit == Init => Log!Init
<1>1. Init => { m \in Msgs : handler[m] = "failed" } = {}
  BY DEF Init
<1> QED
  BY <1>1 DEF Init, Log!Init

\* A step that stores and publishes nothing and refuses whoever it fails is a
\* refusal in the log, or nothing at all.
LEMMA LogRefuse ==
    ASSUME Pipeline, UNCHANGED <<log, room>>, NEW S \in SUBSET Msgs, \A m \in S : handler[m] # "sent",
           \A m \in Msgs : handler'[m] = "failed" <=> handler[m] = "failed" \/ m \in S
    PROVE  [Log!Next]_Log!logVars
<1>1. S \cap Log!Elements(room) = {}
  BY DEF Pipeline, RoomSent, Log!Elements
<1>2. { m \in Msgs : handler'[m] = "failed" } = { m \in Msgs : handler[m] = "failed" } \cup S
  OBVIOUS
<1>3. Log!Refuse(S)
  BY <1>1, <1>2 DEF Log!Refuse
<1> QED
  BY <1>3 DEF Log!Next

LEMMA LogUntouched ==
    ASSUME UNCHANGED <<log, room>>,
           \A m \in Msgs : handler'[m] = "failed" <=> handler[m] = "failed"
    PROVE  [Log!Next]_Log!logVars
<1>1. { m \in Msgs : handler'[m] = "failed" } = { m \in Msgs : handler[m] = "failed" }
  OBVIOUS
<1> QED
  BY <1>1 DEF Log!logVars

LEMMA LogPublish ==
    ASSUME TypeOK, OneCommandEach, Pipeline, OnReply, Head(replies).ok, Head(replies).cmd = "expire"
    PROVE  [Log!Next]_Log!logVars
<1> DEFINE m == Head(replies).msg
<1>1. /\ m \in Msgs /\ handler[m] = "expire" /\ done[m] = "expire"
  BY HeadOfReplies DEF OnReply
<1>2. /\ handler' = [handler EXCEPT ![m] = "sent"] /\ room' = Append(room, m) /\ log' = log
  BY DEF OnReply, Resume, redisVars
<1> HIDE DEF m
<1>3. \A n \in Msgs : handler'[n] = "failed" <=> handler[n] = "failed"
  BY <1>1, <1>2 DEF TypeOK
<1>4. PICK i \in DOMAIN log : log[i] = m
  BY <1>1 DEF Pipeline, Logged
<1>5. ASSUME NEW j \in i .. Len(log) PROVE log[j] \notin Log!Elements(room)
  <2>1. j \in DOMAIN log /\ log[j] \in Msgs
    BY <1>4, LogMsgs
  <2>2. CASE j = i
    BY <1>1, <1>4, <2>2 DEF Pipeline, RoomSent, Log!Elements
  <2>3. CASE j # i
    <3>1. Earlier(m, log[j])
      <4>1. i < j
        BY <1>4, <2>3, LogMsgs
      <4> QED
        BY <1>4, <2>1, <4>1 DEF Earlier
    <3>2. handler[log[j]] # "sent"
      BY <1>1, <2>1, <3>1 DEF Pipeline, NoOvertaking, Commands
    <3> QED
      BY <2>1, <3>2 DEF Pipeline, RoomSent, Log!Elements
  <2> QED
    BY <2>2, <2>3
<1>6. Log!Publish(m)
  BY <1>1, <1>2, <1>3, <1>4, <1>5 DEF Log!Publish
<1> QED
  BY <1>1, <1>6 DEF Log!Next

LEMMA LogStore ==
    ASSUME TypeOK, OneCommandEach, Pipeline, Execute, Head(wire).cmd = "lPush"
    PROVE  [Log!Next]_Log!logVars
<1> DEFINE m == Head(wire).msg
<1>1. /\ Head(wire) = wire[1] /\ 1 \in DOMAIN wire /\ m \in Msgs
  BY TailOfQueue, QueueEntries DEF TypeOK, Execute
<1>2. done[m] = "none"
  BY <1>1 DEF OneCommandEach, WireOwned, Before
<1>3. log' = Append(log, m) /\ UNCHANGED <<handler, room>>
  BY DEF Execute, LPush
<1> HIDE DEF m
<1>4. m \notin Log!Elements(log)
  BY <1>1, <1>2 DEF Pipeline, Logged, Log!Elements
<1>5. Log!Store(m)
  BY <1>3, <1>4 DEF Log!Store
<1> QED
  BY <1>1, <1>5 DEF Log!Next

\* Every step of the handlers, of Redis and of the connection is a step of the
\* log or leaves it alone.
LEMMA LogStep ==
    ASSUME TypeOK, OneCommandEach, Pipeline, [Next]_vars
    PROVE  [Log!Next]_Log!logVars
<1>1. ASSUME NEW m \in Msgs, OnMessage(m) PROVE [Log!Next]_Log!logVars
  <2>1. UNCHANGED <<log, room>> /\ handler[m] = "new"
    BY <1>1 DEF OnMessage, redisVars
  <2>2. CASE handler' = [handler EXCEPT ![m] = "failed"]
    <3>1. \A n \in Msgs : handler'[n] = "failed" <=> handler[n] = "failed" \/ n \in {m}
      BY <2>2 DEF TypeOK
    <3>2. {m} \in SUBSET Msgs /\ \A n \in {m} : handler[n] # "sent"
      BY <2>1
    <3> QED
      BY <2>1, <3>1, <3>2, LogRefuse
  <2>3. CASE handler' = [handler EXCEPT ![m] = "lPush"]
    <3>1. \A n \in Msgs : handler'[n] = "failed" <=> handler[n] = "failed"
      BY <2>1, <2>3 DEF TypeOK
    <3> QED
      BY <2>1, <3>1, LogUntouched
  <2> QED
    BY <1>1, <2>2, <2>3 DEF OnMessage
<1>2. CASE OnReply
  <2> DEFINE r == Head(replies)
  <2>1. /\ r.msg \in Msgs /\ r.cmd \in Commands /\ r.ok \in BOOLEAN /\ handler[r.msg] = r.cmd
    BY <1>2, HeadOfReplies DEF OnReply
  <2>2. CASE r.ok /\ r.cmd = "expire"
    BY <1>2, <2>2, LogPublish
  <2>3. CASE r.ok /\ r.cmd # "expire"
    <3>1. /\ UNCHANGED <<log, room>>
          /\ \E next \in {"lTrim", "expire"} : handler' = [handler EXCEPT ![r.msg] = next]
      BY <1>2, <2>3 DEF OnReply, Resume, redisVars
    <3>2. \A n \in Msgs : handler'[n] = "failed" <=> handler[n] = "failed"
      BY <2>1, <3>1 DEF TypeOK, Commands
    <3> QED
      BY <3>1, <3>2, LogUntouched
  <2>4. CASE ~ r.ok
    <3>1. UNCHANGED <<log, room>> /\ handler' = [handler EXCEPT ![r.msg] = "failed"]
      BY <1>2, <2>4 DEF OnReply, Abandon, redisVars
    <3>2. \A n \in Msgs : handler'[n] = "failed" <=> handler[n] = "failed" \/ n \in {r.msg}
      BY <2>1, <3>1 DEF TypeOK
    <3>3. {r.msg} \in SUBSET Msgs /\ \A n \in {r.msg} : handler[n] # "sent"
      BY <2>1 DEF Commands
    <3> QED
      BY <3>1, <3>2, <3>3, LogRefuse
  <2> QED
    BY <2>1, <2>2, <2>3, <2>4
<1>3. CASE Crash
  <2>1. /\ UNCHANGED <<log, room>>
        /\ handler' = [m \in Msgs |-> IF handler[m] \in Commands THEN "lost" ELSE handler[m]]
    BY <1>3 DEF Crash, redisVars
  <2>2. \A n \in Msgs : handler'[n] = "failed" <=> handler[n] = "failed"
    BY <2>1 DEF Commands
  <2> QED
    BY <2>1, <2>2, LogUntouched
<1>4. CASE Execute
  <2>1. CASE Head(wire).cmd = "lPush"
    BY <1>4, <2>1, LogStore
  <2>2. CASE Head(wire).cmd # "lPush"
    <3>1. UNCHANGED <<log, room, handler>>
      BY <1>4, <2>2 DEF Execute, LTrim, ExpireAt
    <3>2. \A n \in Msgs : handler'[n] = "failed" <=> handler[n] = "failed"
      BY <3>1
    <3> QED
      BY <3>1, <3>2, LogUntouched
  <2> QED
    BY <2>1, <2>2
<1>5. CASE ReplyError \/ KeyExpires \/ UNCHANGED vars
  <2>1. UNCHANGED <<log, room, handler>>
    BY <1>5 DEF ReplyError, KeyExpires, vars, redisVars
  <2>2. \A n \in Msgs : handler'[n] = "failed" <=> handler[n] = "failed"
    BY <2>1
  <2> QED
    BY <2>1, <2>2, LogUntouched
<1>6. CASE Disconnect
  <2>1. PICK R \in SUBSET Msgs :
           /\ \A m \in R : handler[m] \in Commands
           /\ \A m \in Msgs : handler'[m] = IF m \in R THEN "failed" ELSE handler[m]
    BY <1>6, DisconnectHandlers
  <2>2. UNCHANGED <<log, room>> /\ \A m \in R : handler[m] # "sent"
    BY <1>6, <2>1 DEF Disconnect, redisVars, Commands
  <2> QED
    BY <2>1, <2>2, LogRefuse
<1> QED
  BY <1>1, <1>2, <1>3, <1>4, <1>5, <1>6 DEF Next

\* The room keeps the log's promise whatever crashes, fails or disconnects:
\* a message is published once, after it was stored, in the order of the store,
\* and never after its sender was refused (realtime/index.ts:140-150).
THEOREM RefinesChatLog == Spec => ImplementsChatLog
<1>1. TypeOK /\ OneCommandEach /\ Pipeline /\ [Next]_vars => Pipeline'
  BY PipelineStep
<1>2. TypeOK /\ OneCommandEach /\ Pipeline /\ [Next]_vars => [Log!Next]_Log!logVars
  BY LogStep
<1> QED
  BY <1>1, <1>2, PipelineInit, LogInit, TypeCorrect, OneCommandEachHolds, PTL
     DEF Spec, ImplementsChatLog, Log!Spec
=============================================================================
