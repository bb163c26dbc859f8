-------------------------- MODULE CappedCollection --------------------------
(***************************************************************************)
(* The demo caps, without Mongo: a collection whose creators first count   *)
(* it and later insert, with anything happening in between                 *)
(* (lib/demo-limits.ts and its callers).  The cap is a check, not a lock,  *)
(* so what it promises is a bounded overshoot.                             *)
(***************************************************************************)
EXTENDS Naturals, FiniteSets

CONSTANTS
    Items,     \* ids a document may get
    Creators,  \* requests that may run at the same time
    Limit      \* maxUsers, maxPostsPerUser or maxCommentsPerPost

VARIABLES
    items,     \* the documents that count against the limit
    admitted   \* requests that passed the check and have not inserted yet

cappedVars == <<items, admitted>>

TypeOK ==
    /\ items \subseteq Items
    /\ IsFiniteSet(items)
    /\ admitted \subseteq Creators

Init ==
    /\ items = {}
    /\ admitted = {}

\* The count came back below the limit.
Admit(r) ==
    /\ Cardinality(items) < Limit
    /\ admitted' = admitted \cup {r}
    /\ items' = items

Insert(r) ==
    /\ r \in admitted
    /\ \E i \in Items \ items : items' = items \cup {i}
    /\ admitted' = admitted \ {r}

\* Validation, a lost race for a unique index or a crash ends requests without
\* an insert.
GiveUp(R) ==
    /\ admitted' = admitted \ R
    /\ items' = items

Remove(S) ==
    /\ items' = items \ S
    /\ admitted' = admitted

Next ==
    \/ \E r \in Creators : Admit(r) \/ Insert(r)
    \/ \E R \in SUBSET Creators : GiveUp(R)
    \/ \E S \in SUBSET items : Remove(S)

Step == [Next]_cappedVars

Spec == Init /\ [][Step]_cappedVars

\* Requests past the check hold a slot each; the slots never exceed the limit
\* by more than the other requests running at the same time.
SlotsBounded ==
    Cardinality(items) + Cardinality(admitted) <= Limit + Cardinality(Creators) - 1

\* user.ts:42-44: an overshoot "by at most the concurrency level".
OvershootBounded == Cardinality(items) <= Limit + Cardinality(Creators) - 1
=============================================================================
