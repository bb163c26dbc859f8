-------------------------------- MODULE Blog --------------------------------
(***************************************************************************)
(* The content server: requests arrive in free slots, each of the services *)
(* advances one await at a time, and the process may die between any two.  *)
(***************************************************************************)
EXTENDS AccountRemoval

TypeOK ==
    /\ users \subseteq UserIds
    /\ posts \in [PostIds -> Post \cup {Unborn, Gone}]
    /\ comments \in [CommentIds -> Comment \cup {Unborn, Gone}]
    /\ likes \subseteq UserIds \X PostIds
    /\ req \in [Reqs -> Request \cup {Idle}]

Init ==
    /\ users = UserIds
    /\ posts = [p \in PostIds |-> Unborn]
    /\ comments = [c \in CommentIds |-> Unborn]
    /\ likes = {}
    /\ req = [r \in Reqs |-> Idle]

-----------------------------------------------------------------------------
(* Arrivals. *)

\* requireAuth asks the session only, and an account's other sessions outlive it.
SignedIn(u) == u \in users \/ OtherSessions

\* An id is left for every create in flight (bound of the model).
IdLeft(f, op) ==
    Cardinality({ r \in Reqs : req[r].op = op })
        < Cardinality({ i \in DOMAIN f : f[i].state = "unborn" })

Arrive(r, u, op, label, slug, comment, title) ==
    /\ op \in Ops
    /\ ~ Busy(r)
    /\ SignedIn(u)
    /\ req' = [req EXCEPT ![r] =
          [op |-> op, pc |-> label, user |-> u, slug |-> slug, n |-> 1,
           post |-> None, comment |-> comment, title |-> title, ids |-> {}, todo |-> <<>>]]
    /\ UNCHANGED storeVars

StartCreatePost(r) ==
    \E u \in UserIds, t \in Titles :
        /\ IdLeft(posts, "createPost")
        /\ Arrive(r, u, "createPost", "countPosts", NoSlug, None, t)

StartPostEdit(r) ==
    \E u \in UserIds, p \in LivePosts :
        \/ \E t \in Titles \cup {NoTitle} :
              Arrive(r, u, "updatePost", "ownPost", posts[p].slug, None, t)
        \/ Arrive(r, u, "removePost", "ownPost", posts[p].slug, None, NoTitle)

StartLike(r) ==
    \E u \in UserIds, p \in LivePosts, op \in {"like", "unlike"} :
        Arrive(r, u, op, "resolvePost", posts[p].slug, None, NoTitle)

StartComment(r) ==
    \E u \in UserIds, p \in LivePosts, parent \in LiveComments \cup {None} :
        /\ IdLeft(comments, "createComment")
        /\ Arrive(r, u, "createComment", "resolvePost", posts[p].slug, parent, NoTitle)

StartCommentEdit(r) ==
    \E u \in UserIds, p \in LivePosts, c \in LiveComments,
       op \in {"updateComment", "removeComment"} :
        Arrive(r, u, op, "resolvePost", posts[p].slug, c, NoTitle)

StartRemoveUser(r) ==
    \E u \in UserIds :
        Arrive(r, u, "removeUser", "confirmRemoval", NoSlug, None, NoTitle)

Start(r) ==
    \/ StartCreatePost(r)
    \/ StartPostEdit(r)
    \/ StartLike(r)
    \/ StartComment(r)
    \/ StartCommentEdit(r)
    \/ StartRemoveUser(r)

Step(r) == PostStep(r) \/ CommentStep(r) \/ AccountStep(r)

\* The process dies: every request ends where it is, the documents stay.
Crash ==
    /\ \E r \in Reqs : Busy(r)
    /\ req' = [r \in Reqs |-> Idle]
    /\ UNCHANGED storeVars

Next ==
    \/ \E r \in Reqs : Start(r) \/ Step(r)
    \/ Crash

Spec == Init /\ [][Next]_vars

-----------------------------------------------------------------------------
(* Properties of concurrent requests. *)

\* Requests that probed the same free slug never both get it (post.ts:86-97).
SlugsUnique ==
    \A p, q \in LivePosts : posts[p].slug = posts[q].slug => p = q

\* Racing replies and deletions never leave a rendered thread deeper than
\* MAX_DEPTH, the bound the client's recursion relies on (comment.ts:66-73).
DepthBounded == \A c \in LiveComments : Depth(c) <= MaxDepth

\* A reply hangs off a comment of its own post, though the two are checked and
\* written in different awaits (comment.ts:118-130).
RepliesStayOnPost ==
    \A c, d \in LiveComments : comments[c].parent = d => comments[c].post = comments[d].post

Counted(op, S) == { r \in Reqs : Busy(r) /\ req[r].op = op /\ req[r].pc \in S }

\* Posts of u, seen as a capped collection (post.ts:182-197).
PostCap(u) == INSTANCE CappedCollection WITH
    Items <- PostIds,
    Creators <- Reqs,
    Limit <- MaxPostsPerUser,
    items <- PostsBy(u),
    admitted <- { r \in Counted("createPost", {"probeSlug", "insertPost"}) : req[r].user = u }

\* Comments on p, seen as a capped collection (comment.ts:110-147).
CommentCap(p) == INSTANCE CappedCollection WITH
    Items <- CommentIds,
    Creators <- Reqs,
    Limit <- MaxCommentsPerPost,
    items <- CommentsOn(p),
    admitted <- { r \in Counted("createComment", {"findParent", "checkDepth", "insertComment"}) :
                    req[r].post = p }

\* Whatever else runs, the posts of each account only change as the
\* count-then-insert collection's do: \A u : PostCap(u)!Spec, the quantifier
\* inside the box.
PostsCapped ==
    /\ \A u \in UserIds : PostCap(u)!Init
    /\ [][\A u \in UserIds : PostCap(u)!Step]_vars

\* So do the comments on each post.
CommentsCapped ==
    /\ \A p \in PostIds : CommentCap(p)!Init
    /\ [][\A p \in PostIds : CommentCap(p)!Step]_vars

\* Requests past the count hold a place each: posts of an account and those
\* about to be written never exceed the limit by more than the other requests
\* that run at the same time (post.ts:182-197, demo-limits.ts).
PostSlotsBounded == \A u \in UserIds : PostCap(u)!SlotsBounded

\* Every request is answered: the slug probes and the removal loop end.
RequestsAnswered == \A r \in Reqs : Busy(r) ~> ~ Busy(r)

-----------------------------------------------------------------------------
(* A statement the code does not keep. *)

Orphans == { c \in LiveComments : comments[c].parent \notin LiveComments \cup {None} }

\* comment.ts:166-170 rules out that replies "point at an id that no longer
\* resolves".
NoOrphanReplies == Orphans = {}
=============================================================================
