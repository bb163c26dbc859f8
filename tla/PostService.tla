---------------------------- MODULE PostService ----------------------------
(***************************************************************************)
(* postService.create, update and remove with the routes that call them    *)
(* (lib/services/post.ts, routes/v1/posts.ts, middleware/require-owner.ts) *)
(* One action per await.                                                   *)
(***************************************************************************)
EXTENDS BlogStore

\* The slug uniqueSlug is probing, or has returned.
Cand(r) == Candidate(req[r].title, req[r].n)

-----------------------------------------------------------------------------
(* Mutants. *)

InsertPostUnvalidated(r) ==
    /\ At(r, "insertPost")
    /\ LET q == req[r] IN
       IF PostsAt(Cand(r)) # {}
       THEN posts' = posts
       ELSE \E p \in PostIds :
               /\ IsNext(posts, p)
               /\ posts' = [posts EXCEPT ![p] =
                     [state |-> "live", author |-> q.user, writer |-> q.user,
                      title |-> q.title, slug |-> Cand(r)]]
    /\ Respond(r)
    /\ UNCHANGED <<users, comments, likes>>

CountPostsOffByOne(r) ==
    /\ At(r, "countPosts")
    /\ IF Cardinality(PostsBy(req[r].user)) > MaxPostsPerUser
       THEN Respond(r)
       ELSE Goto(r, "probeSlug")
    /\ UNCHANGED storeVars

InsertPostNoIndex(r) ==
    /\ At(r, "insertPost")
    /\ LET q == req[r] IN
       \E p \in PostIds :
          /\ IsNext(posts, p)
          /\ posts' = [posts EXCEPT ![p] =
                [state |-> "live", author |-> q.user, writer |-> q.user,
                 title |-> q.title, slug |-> Cand(r)]]
    /\ Respond(r)
    /\ UNCHANGED <<users, comments, likes>>

RemovePostThreadKept(r) ==
    /\ At(r, "postThread")
    /\ Goto(r, "dropPost")
    /\ UNCHANGED storeVars

SavePostTitleOnly(r) ==
    /\ At(r, "savePost")
    /\ LET q == req[r] IN
       IF q.post \in LivePosts
       THEN posts' = [posts EXCEPT ![q.post].writer = q.user,
                                   ![q.post].title = IF q.title = NoTitle THEN @ ELSE q.title]
       ELSE posts' = posts
    /\ Respond(r)
    /\ UNCHANGED <<users, comments, likes>>

OwnerOfPostUnchecked(r) ==
    /\ At(r, "ownPost")
    /\ IF PostsAt(req[r].slug) # {}
       THEN Goto(r, IF req[r].op = "updatePost" THEN "loadPost" ELSE "findPost")
       ELSE Respond(r)
    /\ UNCHANGED storeVars

ProbeSlugForever(r) ==
    /\ At(r, "probeSlug")
    /\ IF PostsAt(Cand(r)) \subseteq {req[r].post}
       THEN Goto(r, IF req[r].op = "createPost" THEN "insertPost" ELSE "savePost")
       ELSE req' = req
    /\ UNCHANGED storeVars

-----------------------------------------------------------------------------
(* POST /posts: requireAuth has passed, the title is valid. *)

CountPosts(r) ==
    /\ At(r, "countPosts")
    /\ IF Cardinality(PostsBy(req[r].user)) >= MaxPostsPerUser
       THEN Respond(r)
       ELSE Goto(r, "probeSlug")
    /\ UNCHANGED storeVars

\* One findOne of uniqueSlug's loop.  The post being renamed does not clash
\* with itself.
ProbeSlug(r) ==
    /\ At(r, "probeSlug")
    /\ IF PostsAt(Cand(r)) \subseteq {req[r].post}
       THEN Goto(r, IF req[r].op = "createPost" THEN "insertPost" ELSE "savePost")
       ELSE req' = [req EXCEPT ![r].n = @ + 1]
    /\ UNCHANGED storeVars

\* The unique index on slug is the guard: a candidate taken since it was probed
\* fails the insert with E11000, which create does not catch (500).  Validation
\* fails it for an empty one.
InsertPost(r) ==
    /\ At(r, "insertPost")
    /\ LET q == req[r] IN
       IF PostsAt(Cand(r)) # {} \/ ~ Storable(Cand(r))
       THEN posts' = posts
       ELSE \E p \in PostIds :
               /\ IsNext(posts, p)
               /\ posts' = [posts EXCEPT ![p] =
                     [state |-> "live", author |-> q.user, writer |-> q.user,
                      title |-> q.title, slug |-> Cand(r)]]
    /\ Respond(r)
    /\ UNCHANGED <<users, comments, likes>>

-----------------------------------------------------------------------------
(* PATCH and DELETE /posts/:slug: requireOwner, then the service, each of    *)
(* which looks the slug up again.                                            *)

OwnerOfPost(r) ==
    /\ At(r, "ownPost")
    /\ IF \E p \in PostsAt(req[r].slug) : posts[p].author = req[r].user
       THEN Goto(r, IF req[r].op = "updatePost" THEN "loadPost" ELSE "findPost")
       ELSE Respond(r)
    /\ UNCHANGED storeVars

\* update: a title equal to the loaded one is not a modified path.
LoadPost(r) ==
    /\ At(r, "loadPost")
    /\ LET q == req[r] IN
       \/ PostsAt(q.slug) = {} /\ Respond(r)
       \/ \E p \in PostsAt(q.slug) :
             IF q.title \in {NoTitle, posts[p].title}
             THEN req' = [req EXCEPT ![r].pc = "savePost", ![r].post = p, ![r].title = NoTitle]
             ELSE req' = [req EXCEPT ![r].pc = "probeSlug", ![r].post = p]
    /\ UNCHANGED storeVars

\* save() sends the modified paths only: the slug is among them when the
\* candidate differs from the one loaded.  A post deleted meanwhile is not
\* found, a slug another post took meanwhile breaks the index, an empty one fails
\* validation; each is a 500.
SavePost(r) ==
    /\ At(r, "savePost")
    /\ LET q == req[r]
           renamed == q.title # NoTitle
           moved == renamed /\ Cand(r) # q.slug
           refused == moved /\ (PostsAt(Cand(r)) \ {q.post} # {} \/ ~ Storable(Cand(r)))
       IN IF q.post \notin LivePosts \/ refused
          THEN posts' = posts
          ELSE posts' = [posts EXCEPT
                  ![q.post].writer = q.user,
                  ![q.post].title = IF renamed THEN q.title ELSE @,
                  ![q.post].slug = IF moved THEN Cand(r) ELSE @]
    /\ Respond(r)
    /\ UNCHANGED <<users, comments, likes>>

-----------------------------------------------------------------------------
(* postService.remove.  userService.remove runs it for each of its posts and *)
(* fails with its NotFoundError.                                             *)

FindPost(r) ==
    /\ At(r, "findPost")
    /\ \/ PostsAt(req[r].slug) = {} /\ Respond(r)
       \/ \E p \in PostsAt(req[r].slug) :
             req' = [req EXCEPT ![r].pc = "postLikes", ![r].post = p]
    /\ UNCHANGED storeVars

RemovePostLikes(r) ==
    /\ At(r, "postLikes")
    /\ likes' = { l \in likes : l[2] # req[r].post }
    /\ Goto(r, "postThread")
    /\ UNCHANGED <<users, posts, comments>>

\* commentService.removeAllForPost
RemovePostThread(r) ==
    /\ At(r, "postThread")
    /\ comments' = Without(CommentsOn(req[r].post))
    /\ Goto(r, "dropPost")
    /\ UNCHANGED <<users, posts, likes>>

\* The last step of a removal; userService.remove goes on with its next post.
DropPost(r) ==
    /\ At(r, "dropPost")
    /\ LET q == req[r] IN
       /\ posts' = [posts EXCEPT ![q.post] = Gone]
       /\ IF q.op = "removePost" THEN Respond(r)
          ELSE IF q.todo = <<>> THEN Goto(r, "ownComments")
          ELSE req' = [req EXCEPT ![r].pc = "findPost", ![r].slug = Head(q.todo),
                                  ![r].todo = Tail(q.todo)]
    /\ UNCHANGED <<users, comments, likes>>

PostStep(r) ==
    \/ CountPosts(r)
    \/ ProbeSlug(r)
    \/ InsertPost(r)
    \/ OwnerOfPost(r)
    \/ LoadPost(r)
    \/ SavePost(r)
    \/ FindPost(r)
    \/ RemovePostLikes(r)
    \/ RemovePostThread(r)
    \/ DropPost(r)
=============================================================================
