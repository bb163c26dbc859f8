--------------------------- MODULE CommentSection ---------------------------
(***************************************************************************)
(* The discussion under a post, as one signed-in reader has it on screen:  *)
(* the cached flat list (hooks/use-comments.ts), the tree built from it    *)
(* (CommentThread.tsx), the composer, reply and edit forms                 *)
(* (CommentSection.tsx, CommentForm.tsx) and their mutations, each tried   *)
(* twice (lib/query-client.ts), while another account writes, deletes and  *)
(* removes itself (lib/services/comment.ts, user.ts).                      *)
(*                                                                         *)
(* The post is not deleted, its cap not reached, and the reader stays on   *)
(* the page.  The query cache is as in PostCache, with one entry that is   *)
(* always observed.                                                        *)
(***************************************************************************)
EXTENDS Integers, FiniteSets

CONSTANTS
    MaxComments,    \* bound: comments ever stored
    MaxJobs,        \* bound: submits and deletions of the reader
    MaxOthers       \* bound: acts of the other account, and refocused windows

ASSUME BoundsAssumption == {MaxComments, MaxJobs, MaxOthers} \subseteq Nat

Ids == 1 .. MaxComments
Jobs == 1 .. MaxJobs
None == 0
New == <<"new", None>>
Forms == {New} \cup ({"reply", "edit"} \X Ids)
Closed == "closed"
Draft == "draft"    \* some text, trimmed and within the schema
Theirs == 0

VARIABLES
    db,         \* the comments of the post: id -> comment
    born,       \* how many were ever stored
    cache,      \* the query cache's entry of the list
    box,        \* box[f]: the text in form f, Closed when it is not mounted
    job,        \* job[j]: a mutation
    others      \* acts of the rest of the world so far

vars == <<db, born, cache, box, job, others>>

\* A comment's text is told by the mutation of the reader that wrote it last.
Comment(parent, by) == [parent |-> parent, by |-> by]
Mine(c) == c.by # Theirs

Idle == [pc |-> "idle"]
Asked == [pc |-> "asked", old |-> FALSE]
Unused == [pc |-> "unused"]

Init ==
    /\ born \in {0, 1} \cap 0 .. MaxComments
    /\ db = [c \in 1 .. born |-> Comment(None, Theirs)]
    /\ cache = [list |-> <<>>, loaded |-> FALSE, stale |-> FALSE, error |-> FALSE, behind |-> FALSE,
                fetch |-> Asked]
    /\ box = [f \in Forms |-> IF f = New THEN "" ELSE Closed]
    /\ job = [j \in Jobs |-> Unused]
    /\ others = 0

-----------------------------------------------------------------------------
(* Mutants: the bug each stands for is the one its name says. *)

RootsDropOrphans(list) == { c \in DOMAIN list : list[c].parent = None }

SubmitClears(f) ==
    /\ box[f] = Draft
    /\ \E j \in Jobs :
          /\ job[j] = Unused /\ \A i \in 1 .. j - 1 : job[i] # Unused
          /\ job' = [job EXCEPT ![j] = [pc |-> "sent", hook |-> f, tries |-> 1,
                                        here |-> TRUE, form |-> TRUE, hit |-> FALSE]]
    /\ box' = [box EXCEPT ![f] = ""]
    /\ UNCHANGED <<db, born, cache, others>>

FailRetriesForever(j) ==
    /\ job[j].pc \in {"sent", "ok", "refused"}
    /\ job' = [job EXCEPT ![j].pc = "sent"]
    /\ UNCHANGED <<db, born, cache, box, others>>

-----------------------------------------------------------------------------
(* The tree on screen. *)

\* A comment whose parent is not in the list is a root.
Roots(list) ==
    { c \in DOMAIN list : list[c].parent \notin DOMAIN list }

\* What a comment hangs from and the comment itself: the least set that holds
\* it and the parents of its own.
HoldsParents(S, list) == \A c \in S : list[c].parent \in DOMAIN list => list[c].parent \in S
Line(list, c) ==
    { d \in DOMAIN list : \A S \in SUBSET DOMAIN list : c \in S /\ HoldsParents(S, list) => d \in S }

\* The list, unless it is loading or its query is in error.
OnScreen(e) == IF e.error THEN <<>> ELSE e.list

\* The tree is rendered from its roots down.
Shown(e) ==
    { c \in DOMAIN OnScreen(e) : Line(OnScreen(e), c) \cap Roots(OnScreen(e)) # {} }

\* React keeps the item of a comment that stays where it is.
Kept(e, new) ==
    { c \in DOMAIN OnScreen(e) \cap Shown(new) : Line(OnScreen(e), c) = Line(OnScreen(new), c) }

\* With an item go its forms and the callbacks of its mutations.
KeepForms(b, K) ==
    [f \in Forms |-> IF f # New /\ b[f] # Closed /\ f[2] \notin K THEN Closed ELSE b[f]]
KeepJobs(js, K) ==
    [j \in Jobs |->
        IF js[j] = Unused \/ js[j].hook = New \/ js[j].hook[2] \in K THEN js[j]
        ELSE [js[j] EXCEPT !.here = FALSE, !.form = FALSE]]

-----------------------------------------------------------------------------
(* The forms. *)

\* isPending belongs to the item's mutation: it outlives a form that is
\* cancelled and opened again.
Pending(h) ==
    \E j \in Jobs : job[j].pc \in {"sent", "ok", "refused", "settling"} /\ job[j].here /\ job[j].hook = h

\* A Reply button for anyone signed in, Edit for the author.  One at a time
\* beside the composer (bound).
Open(f) ==
    /\ \A g \in Forms \ {New} : box[g] = Closed
    /\ f # New /\ f[2] \in Shown(cache)
    /\ LET c == OnScreen(cache)[f[2]] IN
       \/ f[1] = "reply" /\ box' = [box EXCEPT ![f] = ""]
       \/ f[1] = "edit" /\ Mine(c) /\ box' = [box EXCEPT ![f] = Draft]
    /\ UNCHANGED <<db, born, cache, job, others>>

Leaves(js, f) ==
    [j \in Jobs |-> IF js[j] # Unused /\ js[j].hook = f THEN [js[j] EXCEPT !.form = FALSE] ELSE js[j]]

Cancel(f) ==
    /\ f # New /\ box[f] # Closed
    /\ box' = [box EXCEPT ![f] = Closed]
    /\ job' = Leaves(job, f)
    /\ UNCHANGED <<db, born, cache, others>>

Type(f) ==
    /\ box[f] = ""
    /\ box' = [box EXCEPT ![f] = Draft]
    /\ UNCHANGED <<db, born, cache, job, others>>

Send(j, h) ==
    /\ ~ Pending(h)
    /\ job[j] = Unused /\ \A i \in 1 .. j - 1 : job[i] # Unused
    /\ job' = [Leaves(job, h) EXCEPT ![j] =
                  [pc |-> "sent", hook |-> h, tries |-> 1, here |-> TRUE, form |-> TRUE, hit |-> FALSE]]
    /\ UNCHANGED <<db, born, cache, box, others>>

\* handleSubmit: the text stays in the box.
Submit(f) == box[f] = Draft /\ \E j \in Jobs : Send(j, f)

\* While an item's edit form is open its buttons are not there.
Delete(c) ==
    /\ c \in Shown(cache) /\ Mine(OnScreen(cache)[c])
    /\ box[<<"edit", c>>] = Closed
    /\ \E j \in Jobs : Send(j, <<"delete", c>>)

-----------------------------------------------------------------------------
(* The server; how its requests interleave is in Blog. *)

Subtree(c) == { d \in DOMAIN db : c \in Line(db, d) }

Without(S) == [d \in DOMAIN db \ S |-> db[d]]

Insert(comment) ==
    /\ born < MaxComments
    /\ born' = born + 1
    /\ db' = [d \in DOMAIN db \cup {born + 1} |-> IF d = born + 1 THEN comment ELSE db[d]]

\* A create needs its parent, an update or a deletion its comment.
Accepts(h) == h = New \/ h[2] \in DOMAIN db

Effect(h, j) ==
    CASE h[1] \in {"new", "reply"} -> Insert(Comment(h[2], j))
      [] h[1] = "edit" -> db' = [db EXCEPT ![h[2]].by = j] /\ UNCHANGED born
      [] h[1] = "delete" -> db' = Without(Subtree(h[2])) /\ UNCHANGED born

Apply(j) ==
    /\ job[j].pc = "sent"
    /\ \/ /\ Accepts(job[j].hook)
          /\ Effect(job[j].hook, j)
          /\ job' = [job EXCEPT ![j].pc = "ok", ![j].hit = TRUE]
       \/ /\ ~ Accepts(job[j].hook)
          /\ job' = [job EXCEPT ![j].pc = "refused"]
          /\ UNCHANGED <<db, born>>
    /\ UNCHANGED <<cache, box, others>>

Act == others < MaxOthers /\ others' = others + 1

TheirComment ==
    /\ Act
    /\ \E p \in DOMAIN db \cup {None} : Insert(Comment(p, Theirs))
    /\ UNCHANGED <<cache, box, job>>

TheirDeletion ==
    /\ Act
    /\ \E c \in DOMAIN db : ~ Mine(db[c]) /\ db' = Without(Subtree(c))
    /\ UNCHANGED <<born, cache, box, job>>

\* The other account is removed: its comments go, the replies to them stay.
TheirRemoval ==
    /\ Act
    /\ db' = Without({ c \in DOMAIN db : ~ Mine(db[c]) })
    /\ UNCHANGED <<born, cache, box, job>>

-----------------------------------------------------------------------------
(* Answers and refetches. *)

Outdated(f) == IF f.pc = "read" THEN [f EXCEPT !.old = TRUE] ELSE f

\* invalidateQueries: a refetch replaces the one that runs, but the first
\* fetch of all is shared, even when it has read the comments already.
Invalidate(e) ==
    IF ~ e.loaded /\ e.fetch # Idle
    THEN [e EXCEPT !.fetch = Outdated(e.fetch)]
    ELSE [e EXCEPT !.stale = TRUE, !.fetch = Asked]

\* The mutations in D succeeded: the composer is emptied, an item's form is
\* closed.
Finish(e, D, b, js) ==
    LET over == { js[j].hook : j \in { i \in D : js[i].here } }
    IN /\ cache' = e
       /\ box' = [f \in Forms |-> IF f \notin over THEN b[f] ELSE IF f = New THEN "" ELSE Closed]
       /\ job' = [j \in Jobs |-> IF j \in D THEN [js[j] EXCEPT !.pc = "done"] ELSE js[j]]

Waiting == { j \in Jobs : job[j].pc = "settling" }

\* onSuccess invalidates and waits; a refetch that is replaced ends the wait
\* of the mutations before.
Answer(j) ==
    /\ job[j].pc = "ok"
    /\ LET replaced == cache.fetch # Idle /\ cache.loaded
       IN Finish(Invalidate(cache), IF replaced THEN Waiting ELSE {},
                 box, [job EXCEPT ![j].pc = "settling"])
    /\ UNCHANGED <<db, born, others>>

\* An error answer or none at all: tried once more, then a toast.
Fail(j) ==
    /\ job[j].pc \in {"sent", "ok", "refused"}
    /\ IF job[j].tries = 1
       THEN /\ job' = [job EXCEPT ![j].pc = "sent", ![j].tries = 2]
            /\ UNCHANGED cache
       ELSE /\ job' = [job EXCEPT ![j].pc = "failed"]
            /\ cache' = IF ~ job[j].hit THEN cache
                        ELSE [cache EXCEPT !.behind = TRUE, !.fetch = Outdated(cache.fetch)]
    /\ UNCHANGED <<db, born, box, others>>

Read ==
    /\ cache.fetch.pc = "asked"
    /\ cache' = [cache EXCEPT !.fetch = [pc |-> "read", list |-> db, old |-> cache.fetch.old]]
    /\ UNCHANGED <<db, born, box, job, others>>

\* What is on screen after the refetch, and the end of the wait.
Render(e) == Finish(e, Waiting, KeepForms(box, Kept(cache, e)), KeepJobs(job, Kept(cache, e)))

Land ==
    /\ cache.fetch.pc = "read"
    /\ Render([list |-> cache.fetch.list, loaded |-> TRUE, stale |-> FALSE, error |-> FALSE,
               behind |-> cache.fetch.old, fetch |-> Idle])
    /\ UNCHANGED <<db, born, others>>

\* Failed twice: the query is in error and the message replaces the thread.
FetchFails ==
    /\ cache.fetch # Idle
    /\ Render([cache EXCEPT !.error = TRUE, !.fetch = Idle])
    /\ UNCHANGED <<db, born, others>>

\* The window is focused with a list that is stale, in error or old by now.
Refocus ==
    /\ Act
    /\ cache.fetch = Idle
    /\ cache' = [cache EXCEPT !.fetch = Asked]
    /\ UNCHANGED <<db, born, box, job>>

-----------------------------------------------------------------------------
Next ==
    \/ \E f \in Forms : Open(f) \/ Cancel(f) \/ Type(f) \/ Submit(f)
    \/ \E c \in Ids : Delete(c)
    \/ \E j \in Jobs : Apply(j) \/ Answer(j) \/ Fail(j)
    \/ TheirComment \/ TheirDeletion \/ TheirRemoval
    \/ Read \/ Land \/ FetchFails \/ Refocus

Spec == Init /\ [][Next]_vars

\* Every request is answered or fails in the end.
FairSpec ==
    /\ Spec
    /\ \A j \in Jobs : WF_vars(Answer(j) \/ Fail(j))
    /\ WF_vars(FetchFails \/ Read \/ Land)

-----------------------------------------------------------------------------
\* A stored comment of the reader is on screen with its text, and a deleted one
\* is not, once the mutations are over and the list was fetched since: whatever
\* the reader answered to has been removed with its account meanwhile
\* (CommentThread.tsx:17-33, use-comments.ts:14-31).  Mutations whose answers
\* were all lost, and the shared first fetch, are the exceptions.
OwnCommentsShown ==
    (\A j \in Jobs : job[j].pc \in {"unused", "done", "failed"})
        /\ cache.loaded /\ cache.fetch = Idle
        /\ ~ cache.stale /\ ~ cache.error /\ ~ cache.behind
    => /\ \A c \in DOMAIN db : Mine(db[c]) => c \in Shown(cache) /\ cache.list[c] = db[c]
       /\ \A j \in Jobs : job[j].pc = "done" /\ job[j].hook[1] = "delete"
                              => job[j].hook[2] \notin Shown(cache)

\* A form whose submit was given up still holds a text, as long as the reader
\* did not close it and its comment stayed where it was: no success of another
\* submit, no retry and no refetch empties it (CommentForm.tsx:47-59,
\* CommentThread.tsx:119-131).
FailedDraftKept ==
    \A j \in Jobs : job[j].pc = "failed" /\ job[j].form /\ job[j].hook \in Forms
                        => box[job[j].hook] = Draft

\* Every submit ends: the button of its form is enabled again though refetches
\* are shared, replaced and fail (use-comments.ts:26-31, CommentForm.tsx:109-111).
SubmitsEnd ==
    \A j \in Jobs : job[j].pc \notin {"unused", "done", "failed"}
                        ~> job[j].pc \in {"done", "failed"}
=============================================================================
