----------------------------- MODULE ChatBuffer -----------------------------
(***************************************************************************)
(* The chat history buffer: the socket `message` handler                   *)
(* (realtime/index.ts), chatService.append (lib/services/chat.ts) and the  *)
(* one Redis connection every handler shares (lib/redis.ts).               *)
(*                                                                         *)
(* append awaits three commands in turn, so the appends of concurrent      *)
(* messages interleave command by command.  Commands travel on one FIFO    *)
(* connection and replies come back in the same order.                     *)
(***************************************************************************)
EXTENDS Naturals, Sequences

CONSTANTS
    Msgs,   \* messages sent while the model runs, each with its own uuid
    Cap     \* CHAT_BUFFER_SIZE (50 in the code)

ASSUME CapAssumption == Cap \in Nat \ {0}

VARIABLES
    handler,  \* handler[m]: "new", the command it awaits, or how it ended
    wire,     \* commands on their way to Redis, oldest first
    replies,  \* outcomes on their way back, oldest first
    list,     \* the list at chat:messages, newest first
    ttl,      \* whether the key has an expiry
    done,     \* done[m]: the last command Redis executed for m
    log,      \* history: messages in the order Redis executed their lPush
    epoch,    \* history: Len(log) when the key last expired
    room      \* history: messages in the order io.emit published them

vars == <<handler, wire, replies, list, ttl, done, log, epoch, room>>
redisVars == <<list, ttl, done, log, epoch>>

Commands == {"lPush", "lTrim", "expire"}
Ended == {"sent", "failed", "lost"}

\* The command append issued before c.
Before(c) == CASE c = "lPush" -> "none" [] c = "lTrim" -> "lPush" [] OTHER -> "lTrim"

Command == [msg : Msgs, cmd : Commands]
Reply == [msg : Msgs, cmd : Commands, ok : BOOLEAN]

TypeOK ==
    /\ handler \in [Msgs -> {"new"} \cup Commands \cup Ended]
    /\ wire \in Seq(Command)
    /\ replies \in Seq(Reply)
    /\ list \in Seq(Msgs)
    /\ ttl \in BOOLEAN
    /\ done \in [Msgs -> {"none"} \cup Commands]
    /\ log \in Seq(Msgs)
    /\ epoch \in Nat
    /\ room \in Seq(Msgs)

Init ==
    /\ handler = [m \in Msgs |-> "new"]
    /\ wire = <<>>
    /\ replies = <<>>
    /\ list = <<>>
    /\ ttl = FALSE
    /\ done = [m \in Msgs |-> "none"]
    /\ log = <<>>
    /\ epoch = 0
    /\ room = <<>>

-----------------------------------------------------------------------------
(* Mutants: the bug each stands for is the one its name says. *)

LTrimKeepsOneMore ==
    /\ list' = IF Len(list) > Cap + 1 THEN SubSeq(list, 1, Cap + 1) ELSE list
    /\ UNCHANGED <<ttl, log>>

LPushAtTail(m) ==
    /\ list' = Append(list, m)
    /\ log' = Append(log, m)
    /\ ttl' = ttl

ExpireForgotten == UNCHANGED <<list, ttl, log>>

AbandonUncaught(m) ==
    /\ handler' = [handler EXCEPT ![m] = "rejected"]
    /\ UNCHANGED <<wire, room>>

AbandonSilently(m) == UNCHANGED <<handler, wire, room>>

AbandonButPublish(m) ==
    /\ handler' = [handler EXCEPT ![m] = "failed"]
    /\ room' = Append(room, m)
    /\ wire' = wire

-----------------------------------------------------------------------------
(* The Node process. *)

\* A `message` event: an invalid payload is answered with an error, a valid
\* one gets its uuid and its append issues lPush.
OnMessage(m) ==
    /\ handler[m] = "new"
    /\ \/ /\ handler' = [handler EXCEPT ![m] = "failed"]
          /\ wire' = wire
       \/ /\ handler' = [handler EXCEPT ![m] = "lPush"]
          /\ wire' = Append(wire, [msg |-> m, cmd |-> "lPush"])
    /\ UNCHANGED <<redisVars, replies, room>>

\* append resumes after a successful command: it issues the next one, or
\* returns, and then the handler publishes to every socket.
Resume(m, c) ==
    IF c = "expire"
    THEN /\ handler' = [handler EXCEPT ![m] = "sent"]
         /\ room' = Append(room, m)
         /\ wire' = wire
    ELSE LET next == IF c = "lPush" THEN "lTrim" ELSE "expire" IN
         /\ handler' = [handler EXCEPT ![m] = next]
         /\ wire' = Append(wire, [msg |-> m, cmd |-> next])
         /\ room' = room

\* A rejected command ends the append; the catch tells the sender only.
Abandon(m) ==
    /\ handler' = [handler EXCEPT ![m] = "failed"]
    /\ UNCHANGED <<wire, room>>

OnReply ==
    /\ replies # <<>>
    /\ LET r == Head(replies) IN
          IF r.ok THEN Resume(r.msg, r.cmd) ELSE Abandon(r.msg)
    /\ replies' = Tail(replies)
    /\ UNCHANGED redisVars

\* The process dies and restarts: its handlers vanish without any answer.
Crash ==
    /\ wire # <<>> \/ replies # <<>>
    /\ handler' = [m \in Msgs |-> IF handler[m] \in Commands THEN "lost" ELSE handler[m]]
    /\ wire' = <<>>
    /\ replies' = <<>>
    /\ UNCHANGED <<redisVars, room>>

-----------------------------------------------------------------------------
(* Redis and the connection to it. *)

LPush(m) ==
    /\ list' = <<m>> \o list
    /\ log' = Append(log, m)
    /\ ttl' = ttl

\* LTRIM key 0 Cap-1
LTrim ==
    /\ list' = IF Len(list) > Cap THEN SubSeq(list, 1, Cap) ELSE list
    /\ UNCHANGED <<ttl, log>>

\* EXPIRE does nothing to a key that does not exist.
ExpireAt ==
    /\ ttl' = (list # <<>>)
    /\ UNCHANGED <<list, log>>

Execute ==
    /\ wire # <<>>
    /\ LET c == Head(wire) IN
          /\ \/ c.cmd = "lPush" /\ LPush(c.msg)
             \/ c.cmd = "lTrim" /\ LTrim
             \/ c.cmd = "expire" /\ ExpireAt
          /\ done' = [done EXCEPT ![c.msg] = c.cmd]
          /\ replies' = Append(replies, [msg |-> c.msg, cmd |-> c.cmd, ok |-> TRUE])
    /\ wire' = Tail(wire)
    /\ UNCHANGED <<handler, epoch, room>>

\* Redis answers with an error (no memory left, read-only, loading).
ReplyError ==
    /\ wire # <<>>
    /\ replies' = Append(replies, [msg |-> Head(wire).msg, cmd |-> Head(wire).cmd, ok |-> FALSE])
    /\ wire' = Tail(wire)
    /\ UNCHANGED <<handler, redisVars, room>>

\* The connection is lost: the client rejects every command already sent and
\* keeps the ones it had not written yet for the next connection.
Disconnect ==
    /\ wire # <<>> \/ replies # <<>>
    /\ \E k \in 0 .. Len(wire) :
          LET rejected == { replies[i].msg : i \in DOMAIN replies }
                            \cup { wire[i].msg : i \in 1 .. k }
          IN /\ handler' = [m \in Msgs |-> IF m \in rejected THEN "failed" ELSE handler[m]]
             /\ wire' = SubSeq(wire, k + 1, Len(wire))
    /\ replies' = <<>>
    /\ UNCHANGED <<redisVars, room>>

\* CHAT_TTL_SECONDS pass after the last EXPIRE.
KeyExpires ==
    /\ ttl
    /\ list' = <<>>
    /\ ttl' = FALSE
    /\ epoch' = Len(log)
    /\ UNCHANGED <<handler, wire, replies, done, log, room>>

Next ==
    \/ \E m \in Msgs : OnMessage(m)
    \/ OnReply
    \/ Crash
    \/ Execute
    \/ ReplyError
    \/ Disconnect
    \/ KeyExpires

Spec == Init /\ [][Next]_vars

\* Redis executes what it is sent and Node handles what comes back.
FairSpec == Spec /\ WF_vars(Execute) /\ WF_vars(OnReply)

-----------------------------------------------------------------------------
(* chatService.list: the whole list, newest entry last. *)
Transcript == [i \in 1 .. Len(list) |-> list[Len(list) + 1 - i]]

Untrimmed == { m \in Msgs : done[m] = "lPush" }

Smaller(a, b) == IF a <= b THEN a ELSE b

\* What the list holds beyond the cap are its newest messages, each one of an
\* append whose lTrim Redis has not executed: one that overlaps others or was cut
\* off there.  Any lTrim, of whichever append, ends the overshoot (chat.ts:24-27).
BufferBound == \A i \in 1 .. Len(list) - Cap : list[i] \in Untrimmed

\* A message not yet received has not reached Redis.
NewUntouched == \A m \in Msgs : handler[m] = "new" => done[m] = "none"

\* A command on its way is the one its handler awaits, and Redis has executed
\* exactly the commands before it.
WireOwned ==
    \A i \in DOMAIN wire :
        /\ handler[wire[i].msg] = wire[i].cmd
        /\ done[wire[i].msg] = Before(wire[i].cmd)

\* So is a reply on its way back; Redis has executed its command if it succeeded.
RepliesOwned ==
    \A i \in DOMAIN replies :
        /\ handler[replies[i].msg] = replies[i].cmd
        /\ done[replies[i].msg] =
              IF replies[i].ok THEN replies[i].cmd ELSE Before(replies[i].cmd)

\* No handler has two commands between Node and Redis.
NoneTwice ==
    /\ \A i, j \in DOMAIN wire : wire[i].msg = wire[j].msg => i = j
    /\ \A i, j \in DOMAIN replies : replies[i].msg = replies[j].msg => i = j
    /\ \A i \in DOMAIN wire, j \in DOMAIN replies : wire[i].msg # replies[j].msg

\* append issues a command only when the one before it was answered
\* (chat.ts:24-29), whatever the other appends do meanwhile.
OneCommandEach == NewUntouched /\ WireOwned /\ RepliesOwned /\ NoneTwice

\* A joiner is shown a contiguous run of the newest messages, oldest first, and
\* as many of them as the cap allows and the key has seen since it last expired
\* (chat.ts:27, 33-46).
TranscriptIsSuffix ==
    /\ Len(list) <= Len(log) - epoch
    /\ Len(list) >= Smaller(Cap, Len(log) - epoch)
    /\ \A i \in 1 .. Len(list) : Transcript[i] = log[Len(log) - Len(list) + i]

\* The key lacks an expiry only while an append is unfinished or after one was
\* cut off between lPush and expire (chat.ts:28-29).
ExpiryTracked ==
    list # <<>> /\ ~ttl => \E m \in Msgs : done[m] \in {"lPush", "lTrim"}

\* Every message that reached the handler is published or answered, unless the
\* process died (realtime/index.ts:142-150).
MessagesAnswered ==
    \A m \in Msgs : handler[m] \in Commands ~> handler[m] \in Ended

\* The room is the log's promise kept: published once, after being stored, in
\* the order stored, and never after a refusal (realtime/index.ts:140-150).
Log == INSTANCE ChatLog WITH
    stored <- log,
    published <- room,
    refused <- { m \in Msgs : handler[m] = "failed" }
ImplementsChatLog == Log!Spec

-----------------------------------------------------------------------------
(* A statement the code does not keep. *)

\* chat.ts:25-26: "the list can never exceed the cap even briefly, so a burst
\* cannot spike memory".
NeverExceedsCap == Len(list) <= Cap
=============================================================================
