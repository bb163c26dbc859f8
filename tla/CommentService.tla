--------------------------- MODULE CommentService ---------------------------
(***************************************************************************)
(* commentService.create, update and remove with the routes that call them *)
(* (lib/services/comment.ts, routes/v1/comments.ts).  One action per       *)
(* await.                                                                  *)
(***************************************************************************)
EXTENDS BlogStore

\* $graphLookup over `parent`: the live ancestors of c, up to the first one that
\* no longer exists, as the least set that holds the parents of c and of its own.
HoldsParents(S, c) ==
    \A d \in S \cup {c} : comments[d].parent \in LiveComments => comments[d].parent \in S
Ancestors(c) ==
    { a \in LiveComments : \A S \in SUBSET LiveComments : HoldsParents(S, c) => a \in S }

\* depthOf; a comment that has gone is reported as a root.
Depth(c) == IF c \in LiveComments THEN Cardinality(Ancestors(c)) ELSE 0

Subtree(c) == {c} \cup { d \in LiveComments : c \in Ancestors(d) }

-----------------------------------------------------------------------------
(* Mutants. *)

CountCommentsOffByOne(r) ==
    /\ At(r, "countComments")
    /\ IF Cardinality(CommentsOn(req[r].post)) > MaxCommentsPerPost
       THEN Respond(r)
       ELSE Goto(r, IF req[r].comment = None THEN "insertComment" ELSE "findParent")
    /\ UNCHANGED storeVars

CheckDepthOffByOne(r) ==
    /\ At(r, "checkDepth")
    /\ IF Depth(req[r].comment) > MaxDepth
       THEN Respond(r)
       ELSE Goto(r, "insertComment")
    /\ UNCHANGED storeVars

FindParentAnyPost(r) ==
    /\ At(r, "findParent")
    /\ IF req[r].comment \in LiveComments
       THEN Goto(r, "checkDepth")
       ELSE Respond(r)
    /\ UNCHANGED storeVars

FindSubtreeRootOnly(r) ==
    /\ At(r, "findSubtree")
    /\ req' = [req EXCEPT ![r].pc = "deleteSubtree", ![r].ids = {req[r].comment}]
    /\ UNCHANGED storeVars

-----------------------------------------------------------------------------
(* resolvePostId, shared in the code by the comment and like services; and   *)
(* the first half of findForOwnerCheck, which resolves the slug too.         *)

AfterResolve(op) ==
    CASE op = "createComment" -> "countComments"
      [] op \in {"updateComment", "removeComment"} -> "ownComment"
      [] OTHER -> "writeLike"

ResolvePost(r) ==
    /\ At(r, "resolvePost")
    /\ \/ PostsAt(req[r].slug) = {} /\ Respond(r)
       \/ \E p \in PostsAt(req[r].slug) :
             req' = [req EXCEPT ![r].pc = AfterResolve(req[r].op), ![r].post = p]
    /\ UNCHANGED storeVars

-----------------------------------------------------------------------------
(* POST /posts/:slug/comments *)

CountComments(r) ==
    /\ At(r, "countComments")
    /\ IF Cardinality(CommentsOn(req[r].post)) >= MaxCommentsPerPost
       THEN Respond(r)
       ELSE Goto(r, IF req[r].comment = None THEN "insertComment" ELSE "findParent")
    /\ UNCHANGED storeVars

\* depthOf answers for a root without a query, so there is no await between.
FindParent(r) ==
    /\ At(r, "findParent")
    /\ LET c == req[r].comment IN
       IF c \notin CommentsOn(req[r].post) THEN Respond(r)
       ELSE IF comments[c].parent # None THEN Goto(r, "checkDepth")
       ELSE IF 1 > MaxDepth THEN Respond(r)
       ELSE Goto(r, "insertComment")
    /\ UNCHANGED storeVars

CheckDepth(r) ==
    /\ At(r, "checkDepth")
    /\ IF Depth(req[r].comment) + 1 > MaxDepth
       THEN Respond(r)
       ELSE Goto(r, "insertComment")
    /\ UNCHANGED storeVars

\* Nothing ties the new document to its post or parent still being there.
InsertComment(r) ==
    /\ At(r, "insertComment")
    /\ LET q == req[r] IN
       \E c \in CommentIds :
          /\ IsNext(comments, c)
          /\ comments' = [comments EXCEPT ![c] =
                [state |-> "live", author |-> q.user, writer |-> q.user,
                 post |-> q.post, parent |-> q.comment]]
    /\ Respond(r)
    /\ UNCHANGED <<users, posts, likes>>

-----------------------------------------------------------------------------
(* PATCH and DELETE /posts/:slug/comments/:commentId *)

\* The second half of findForOwnerCheck and requireOwner's comparison.
OwnerOfComment(r) ==
    /\ At(r, "ownComment")
    /\ LET q == req[r] IN
       IF q.comment \in CommentsOn(q.post) /\ comments[q.comment].author = q.user
       THEN Goto(r, "loadComment")
       ELSE Respond(r)
    /\ UNCHANGED storeVars

LoadComment(r) ==
    /\ At(r, "loadComment")
    /\ IF req[r].comment \in LiveComments
       THEN Goto(r, IF req[r].op = "updateComment" THEN "saveComment" ELSE "findSubtree")
       ELSE Respond(r)
    /\ UNCHANGED storeVars

\* A comment deleted meanwhile is not found by save(), and not brought back.
SaveComment(r) ==
    /\ At(r, "saveComment")
    /\ LET c == req[r].comment IN
       comments' = IF c \in LiveComments
                   THEN [comments EXCEPT ![c].writer = req[r].user] ELSE comments
    /\ Respond(r)
    /\ UNCHANGED <<users, posts, likes>>

\* The aggregation falls back to the root alone when the root has gone.
FindSubtree(r) ==
    /\ At(r, "findSubtree")
    /\ req' = [req EXCEPT ![r].pc = "deleteSubtree", ![r].ids = Subtree(req[r].comment)]
    /\ UNCHANGED storeVars

DeleteSubtree(r) ==
    /\ At(r, "deleteSubtree")
    /\ comments' = Without(req[r].ids)
    /\ Respond(r)
    /\ UNCHANGED <<users, posts, likes>>

CommentStep(r) ==
    \/ ResolvePost(r)
    \/ CountComments(r)
    \/ FindParent(r)
    \/ CheckDepth(r)
    \/ InsertComment(r)
    \/ OwnerOfComment(r)
    \/ LoadComment(r)
    \/ SaveComment(r)
    \/ FindSubtree(r)
    \/ DeleteSubtree(r)
=============================================================================
