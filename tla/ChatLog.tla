------------------------------ MODULE ChatLog ------------------------------
(***************************************************************************)
(* What the chat room promises, without Redis: one log of persisted        *)
(* messages, one stream of published ones.  A message is published at most *)
(* once, only after it was stored, only in the order of the log, and never *)
(* after its sender was told that it could not be sent.                    *)
(***************************************************************************)
EXTENDS Naturals, Sequences

CONSTANT Msgs

VARIABLES
    stored,     \* messages in the order the store accepted them
    published,  \* messages in the order the room saw them
    refused     \* messages whose sender was told "could not send"

logVars == <<stored, published, refused>>

Elements(s) == { s[i] : i \in DOMAIN s }

Init ==
    /\ stored = <<>>
    /\ published = <<>>
    /\ refused = {}

Store(m) ==
    /\ m \notin Elements(stored)
    /\ stored' = Append(stored, m)
    /\ UNCHANGED <<published, refused>>

\* The next published message lies beyond every published one in the log.
Publish(m) ==
    /\ m \notin refused
    /\ \E i \in DOMAIN stored :
          /\ stored[i] = m
          /\ \A j \in i .. Len(stored) : stored[j] \notin Elements(published)
    /\ published' = Append(published, m)
    /\ UNCHANGED <<stored, refused>>

\* One lost connection refuses several messages at once.
Refuse(S) ==
    /\ S \cap Elements(published) = {}
    /\ refused' = refused \cup S
    /\ UNCHANGED <<stored, published>>

Next ==
    \/ \E m \in Msgs : Store(m) \/ Publish(m)
    \/ \E S \in SUBSET Msgs : Refuse(S)

Spec == Init /\ [][Next]_logVars
=============================================================================
