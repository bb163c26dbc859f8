--------------------------- MODULE AccountRemoval ---------------------------
(***************************************************************************)
(* likeService (lib/services/like.ts) and userService.remove               *)
(* (lib/services/user.ts) with DELETE /users/:id (routes/v1/users.ts),     *)
(* which takes down what the account wrote through the services of the     *)
(* other modules.                                                          *)
(***************************************************************************)
EXTENDS PostService, CommentService, SequencesExt

-----------------------------------------------------------------------------
(* Mutants. *)

RemoveOwnCommentsAfterAccount(r) ==
    /\ At(r, "ownComments")
    /\ users' = users \ {req[r].user}
    /\ Goto(r, "ownLikes")
    /\ UNCHANGED <<posts, comments, likes>>

-----------------------------------------------------------------------------
(* PUT and DELETE /posts/:slug/likes, after resolvePostId.  The upsert and   *)
(* the unique index make either idempotent.                                  *)

WriteLike(r) ==
    /\ At(r, "writeLike")
    /\ LET l == <<req[r].user, req[r].post>> IN
       likes' = IF req[r].op = "like" THEN likes \cup {l} ELSE likes \ {l}
    /\ Respond(r)
    /\ UNCHANGED <<users, posts, comments>>

-----------------------------------------------------------------------------
(* DELETE /users/:id, the confirmation given. *)

ConfirmRemoval(r) ==
    /\ At(r, "confirmRemoval")
    /\ IF req[r].user \in users THEN Goto(r, "listPosts") ELSE Respond(r)
    /\ UNCHANGED storeVars

\* find({ author }).select('slug'), in whatever order it returns them.
ListOwnPosts(r) ==
    /\ At(r, "listPosts")
    /\ \E own \in SetToSeqs(PostsBy(req[r].user)) :
          LET slugs == [i \in DOMAIN own |-> posts[own[i]].slug] IN
          IF slugs = <<>>
          THEN Goto(r, "ownComments")
          ELSE req' = [req EXCEPT ![r].pc = "findPost", ![r].slug = Head(slugs),
                                  ![r].todo = Tail(slugs)]
    /\ UNCHANGED storeVars

\* deleteMany({ author }): replies by others stay, whatever they reply to.
RemoveOwnComments(r) ==
    /\ At(r, "ownComments")
    /\ comments' = Without(CommentsBy(req[r].user))
    /\ Goto(r, "ownLikes")
    /\ UNCHANGED <<users, posts, likes>>

RemoveOwnLikes(r) ==
    /\ At(r, "ownLikes")
    /\ likes' = { l \in likes : l[1] # req[r].user }
    /\ Goto(r, "dropAccount")
    /\ UNCHANGED <<users, posts, comments>>

\* findByIdAndDelete; the route then destroys the session it came from.
DropAccount(r) ==
    /\ At(r, "dropAccount")
    /\ users' = users \ {req[r].user}
    /\ Respond(r)
    /\ UNCHANGED <<posts, comments, likes>>

AccountStep(r) ==
    \/ WriteLike(r)
    \/ ConfirmRemoval(r)
    \/ ListOwnPosts(r)
    \/ RemoveOwnComments(r)
    \/ RemoveOwnLikes(r)
    \/ DropAccount(r)
=============================================================================
