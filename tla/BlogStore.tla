----------------------------- MODULE BlogStore -----------------------------
(***************************************************************************)
(* The collections the content services share and the requests that work   *)
(* on them.  One Node process serves every request; each `await` of a      *)
(* handler is one call to MongoDB, and calls of other requests may run     *)
(* before the next one.  A single call is atomic.                          *)
(***************************************************************************)
EXTENDS Naturals, Sequences, FiniteSets

CONSTANTS
    Reqs,                \* requests that may be in flight together
    UserIds,             \* accounts, all registered when the model starts
    PostIds, CommentIds, \* ObjectIds, used in increasing order, never again
    Titles,              \* post titles
    NoTitle,             \* an absent title
    Slugify,             \* Slugify[t]: the slug derived from title t
    MaxPostsPerUser,     \* demoLimits.maxPostsPerUser
    MaxCommentsPerPost,  \* demoLimits.maxCommentsPerPost
    MaxDepth,            \* MAX_DEPTH of lib/services/comment.ts
    Ops,                 \* the operations this instance exercises
    OtherSessions        \* whether accounts are signed in elsewhere as well

ASSUME IdsAssumption ==
    /\ PostIds \subseteq Nat \ {0}
    /\ CommentIds \subseteq Nat \ {0}
    /\ IsFiniteSet(PostIds)
    /\ IsFiniteSet(CommentIds)
    /\ IsFiniteSet(UserIds)
ASSUME ReqsAssumption == IsFiniteSet(Reqs) /\ Reqs # {}
ASSUME TitlesAssumption == NoTitle \notin Titles /\ Slugify \in [Titles -> STRING \X Seq(Nat)]
ASSUME OpsAssumption ==
    Ops \subseteq {"createPost", "updatePost", "removePost", "like", "unlike",
                   "createComment", "updateComment", "removeComment", "removeUser"}
ASSUME LimitsAssumption ==
    MaxPostsPerUser \in Nat /\ MaxCommentsPerPost \in Nat /\ MaxDepth \in Nat

VARIABLES
    users,     \* ids of the accounts in the users collection
    posts,     \* posts[p]: the post document p
    comments,  \* comments[c]: the comment document c
    likes,     \* the like documents, one for each pair (unique index)
    req        \* req[r]: the request slot r

storeVars == <<users, posts, comments, likes>>
vars == <<users, posts, comments, likes, req>>

None == 0
NoSlug == <<>>

\* A slug is its leading words and the numbers that end it: "foo-2" is
\* <<"foo", <<2>>>>, whether 2 is the second candidate for "Foo" or the first
\* for "Foo 2".
Slug == { Slugify[t][1] : t \in Titles } \X Seq(Nat)

\* base, base-2, base-3, ...
Candidate(t, n) ==
    IF n = 1 THEN Slugify[t] ELSE <<Slugify[t][1], Append(Slugify[t][2], n)>>

\* A title without a letter or digit of a-z0-9 has an empty slug, which the schema
\* refuses (required).
Storable(slug) == slug # <<"", <<>>>>

\* body, tags and cover are abstracted to `writer`: whose request wrote them last.
Post == [state : {"live"}, author : UserIds, writer : UserIds,
         title : Titles, slug : { s \in Slug : Storable(s) }]
Comment == [state : {"live"}, author : UserIds, writer : UserIds,
            post : PostIds, parent : CommentIds \cup {None}]

\* No document has the id yet, or none has it any more.
Unborn == [state |-> "unborn"]
Gone == [state |-> "gone"]

LivePosts == { p \in PostIds : posts[p].state = "live" }
LiveComments == { c \in CommentIds : comments[c].state = "live" }

\* findOne({ slug }): no post or the one that holds the slug.
PostsAt(slug) == { p \in LivePosts : posts[p].slug = slug }
PostsBy(u) == { p \in LivePosts : posts[p].author = u }
CommentsOn(p) == { c \in LiveComments : comments[c].post = p }
CommentsBy(u) == { c \in LiveComments : comments[c].author = u }

\* The lowest id not used yet.
IsNext(f, i) == f[i].state = "unborn" /\ \A j \in DOMAIN f : j < i => f[j].state # "unborn"

\* deleteMany({ _id: { $in } })
Without(S) == [c \in CommentIds |->
                 IF c \in S THEN Gone ELSE comments[c]]

-----------------------------------------------------------------------------
(* Requests.  A handler keeps its locals here between two awaits. *)

Labels ==
    {"countPosts", "probeSlug", "insertPost", "ownPost", "loadPost", "savePost",
     "findPost", "postLikes", "postThread", "dropPost",
     "resolvePost", "writeLike", "countComments", "findParent", "checkDepth", "insertComment",
     "ownComment", "loadComment", "saveComment", "findSubtree", "deleteSubtree",
     "confirmRemoval", "listPosts", "ownComments", "ownLikes", "dropAccount"}

Request == [op : Ops, pc : Labels, user : UserIds,
            slug : Slug \cup {NoSlug},        \* :slug of the URL
            n : Nat,                          \* the candidate uniqueSlug is at
            post : PostIds \cup {None},       \* the post document it holds
            comment : CommentIds \cup {None}, \* :commentId, or the parent of a reply
            title : Titles \cup {NoTitle},
            ids : SUBSET CommentIds,          \* the subtree to delete
            todo : Seq(Slug)]                 \* slugs left for userService.remove

Idle == [op |-> "none", pc |-> "idle"]
Busy(r) == req[r] # Idle

At(r, label) == Busy(r) /\ req[r].pc = label
Goto(r, label) == req' = [req EXCEPT ![r].pc = label]

\* The handler responded, whether with a result or with an error.
Respond(r) == req' = [req EXCEPT ![r] = Idle]
=============================================================================
