---------------------------- MODULE BlogHistory ----------------------------
(***************************************************************************)
(* The content server with a record of what requests did while others were *)
(* under way.  The record is history: no action of the server reads it.    *)
(* The properties use it to say what overlapping requests can undo of each *)
(* other's work, and that they undo nothing else.                          *)
(***************************************************************************)
EXTENDS Blog

VARIABLES
    slipped,       \* <<r, p>>: post p of another author got a slug that request r
                   \* had already taken for its own user's
    crossed,       \* posts renamed while another request had loaded them to rename
    unlisted,      \* posts that got their slug while a removal that had listed the
                   \* posts of their author was under way, or after it
    lateComments,  \* <<why, c>>: comment c was written when a removal under way
                   \* (or over) had passed what would have taken it with its
                   \* "post", its "parent" or its author's "account"
    lateLikes      \* <<why, l>>: the same of the like l

historyVars == <<slipped, crossed, unlisted, lateComments, lateLikes>>
allVars == <<vars, historyVars>>

-----------------------------------------------------------------------------
(* How far the requests have come. *)

AfterList == {"findPost", "postLikes", "postThread", "dropPost",
              "ownComments", "ownLikes", "dropAccount"}

\* The slugs that a request has taken for its own user's posts and will look up.
Wanted(r) ==
    (IF Busy(r) /\ req[r].pc \in {"loadPost", "findPost"} THEN {req[r].slug} ELSE {}) \cup
    (IF Busy(r) /\ req[r].op = "removeUser"
          /\ req[r].pc \in {"findPost", "postLikes", "postThread", "dropPost"}
     THEN Range(req[r].todo) ELSE {})

Renaming(r, p) ==
    Busy(r) /\ req[r].op = "updatePost" /\ req[r].post = p /\ req[r].title # NoTitle

\* Where removals no longer look: at the likes of p, at its comments, at the
\* replies to c, at what u wrote.
Removing(r, p, S) == Busy(r) /\ req[r].pc \in S /\ req[r].post = p
LikesSwept(p) ==
    p \notin LivePosts \/ \E r \in Reqs : Removing(r, p, {"postThread", "dropPost"})
ThreadSwept(p) ==
    p \notin LivePosts \/ \E r \in Reqs : Removing(r, p, {"dropPost"})

Collected(c) == \E r \in Reqs : At(r, "deleteSubtree") /\ c \in req[r].ids

Erasing(r, u, S) ==
    Busy(r) /\ req[r].op = "removeUser" /\ req[r].user = u /\ req[r].pc \in S
RemovalPast(u, S) == u \notin users \/ \E r \in Reqs : Erasing(r, u, S)

-----------------------------------------------------------------------------
(* The record. *)

\* The posts that a step creates or gives another slug.
GotSlug == { p \in LivePosts' : p \in LivePosts => posts'[p].slug # posts[p].slug }

RecordSlipped ==
    slipped' = { x \in slipped \cup (Reqs \X GotSlug) :
        /\ Busy(x[1])' /\ x[2] \in LivePosts'
        /\ \/ x \in slipped
           \/ /\ posts'[x[2]].slug \in Wanted(x[1])
              /\ posts'[x[2]].author # req[x[1]].user }

RecordCrossed ==
    crossed' = { p \in LivePosts' :
        \/ p \in crossed
        \/ /\ p \in LivePosts
           /\ <<posts'[p].slug, posts'[p].title>> # <<posts[p].slug, posts[p].title>>
           /\ \E r \in Reqs : Renaming(r, p)' }

RecordUnlisted ==
    unlisted' = { p \in LivePosts' :
        /\ p \in unlisted \cup GotSlug
        /\ RemovalPast(posts'[p].author, AfterList)
        /\ RemovalPast(posts[p].author, AfterList)' }

RecordComments ==
    LET new == LiveComments' \ LiveComments
        Late(c) ==
          { why \in {"post", "parent", "account"} :
              \/ why = "post" /\ ThreadSwept(comments'[c].post)
              \/ why = "parent" /\ Collected(comments'[c].parent)
              \/ /\ why = "account"
                 /\ RemovalPast(comments'[c].author, {"ownLikes", "dropAccount"}) }
    IN lateComments' = { x \in lateComments : x[2] \in LiveComments' }
                         \cup UNION { Late(c) \X {c} : c \in new }

RecordLikes ==
    LET new == likes' \ likes
        Late(l) ==
          { why \in {"post", "account"} :
              \/ why = "post" /\ LikesSwept(l[2])
              \/ why = "account" /\ RemovalPast(l[1], {"dropAccount"}) }
    IN lateLikes' = { x \in lateLikes : x[2] \in likes' } \cup UNION { Late(l) \X {l} : l \in new }

Record ==
    RecordSlipped /\ RecordCrossed /\ RecordUnlisted /\ RecordComments /\ RecordLikes

HInit ==
    /\ Init
    /\ slipped = {} /\ crossed = {} /\ unlisted = {}
    /\ lateComments = {} /\ lateLikes = {}

HNext == Next /\ Record

HSpec == HInit /\ [][HNext]_allVars

\* MongoDB answers every call.
HFairSpec == HSpec /\ \A r \in Reqs : WF_vars(Step(r))

-----------------------------------------------------------------------------
(* Properties. *)

\* A request rewrites or deletes only its own user's posts, whatever runs
\* between the look at the owner and the later looks at the slug, unless another
\* author's post was given that slug in between (require-owner.ts:29-37,
\* posts.ts:63-87, user.ts:200-204).
ChangedByOwner ==
    [][ \A r \in Reqs, p \in LivePosts :
           Busy(r) /\ req'[r] # req[r] /\ posts'[p] # posts[p]
             => req[r].user = posts[p].author \/ <<r, p>> \in slipped ]_allVars

\* The slug of a post is derived from its title (post.ts:206-209): it is
\* Candidate(t, n) for some n.  A rename that was loaded before another one was
\* saved is the only way out of step.
Derived(slug, t) ==
    \/ slug = Slugify[t]
    \/ slug[2] # <<>> /\ slug = Candidate(t, slug[2][Len(slug[2])])

SlugFollowsTitle == \A p \in LivePosts \ crossed : Derived(posts[p].slug, posts[p].title)

\* A like or a comment points at a post that exists, also where a crash cut a
\* deletion short, for they go before the post (post.ts:224-234): only one that
\* was written when the deletion had passed its kind can stay.
NothingOutlivesPost ==
    /\ \A l \in likes : l[2] \in LivePosts \/ <<"post", l>> \in lateLikes
    /\ \A c \in LiveComments : comments[c].post \in LivePosts \/ <<"post", c>> \in lateComments

\* An account that has gone left nothing behind, however the removals of its own
\* sessions were cut short, retried or run together (user.ts:200-209): only what
\* came up when the removal had passed it can stay.
ErasedLeaveNothing ==
    \A u \in UserIds \ users :
        /\ PostsBy(u) \subseteq unlisted
        /\ \A c \in CommentsBy(u) : <<"account", c>> \in lateComments
        /\ \A l \in likes : l[1] = u => <<"account", l>> \in lateLikes

\* Deleting a comment takes its subtree: the only replies that lose their parent
\* by it were written after the subtree was read (comment.ts:163-199).
DeletionOrphansNothing ==
    [][ (\E r \in Reqs : At(r, "deleteSubtree") /\ ~ Busy(r)') /\ comments' # comments
          => \A c \in Orphans' \ Orphans : <<"parent", c>> \in lateComments ]_allVars
=============================================================================
