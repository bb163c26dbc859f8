----------------------------- MODULE BlogProofs -----------------------------
(***************************************************************************)
(* The content server for any number of requests, accounts, posts and      *)
(* comments.                                                               *)
(***************************************************************************)
EXTENDS BlogHistory, FiniteSetTheorems, TLAPS

-----------------------------------------------------------------------------
(* The requests, by the operation they run and the await they are at.      *)

\* What q knows when it is at label.
Fits(q, label) ==
    /\ q.op = "createPost" =>
          /\ label \in {"countPosts", "probeSlug", "insertPost"}
          /\ q.title \in Titles /\ q.post = None
    /\ q.op = "updatePost" =>
          /\ label \in {"ownPost", "loadPost", "probeSlug", "savePost"}
          /\ label = "probeSlug" => q.title \in Titles
          /\ label \in {"probeSlug", "savePost"} => q.post \in PostIds
    /\ q.op = "removePost" =>
          /\ label \in {"ownPost", "findPost", "postLikes", "postThread", "dropPost"}
          /\ label \notin {"ownPost", "findPost"} => q.post \in PostIds
    /\ q.op \in {"like", "unlike"} =>
          /\ label \in {"resolvePost", "writeLike"}
          /\ label # "resolvePost" => q.post \in PostIds
    /\ q.op = "createComment" =>
          /\ label \in {"resolvePost", "countComments", "findParent", "checkDepth",
                        "insertComment"}
          /\ label # "resolvePost" => q.post \in PostIds
          /\ label \in {"findParent", "checkDepth"} => q.comment \in CommentIds
    /\ q.op = "updateComment" =>
          /\ label \in {"resolvePost", "ownComment", "loadComment", "saveComment"}
          /\ label # "resolvePost" => q.post \in PostIds
          /\ q.comment \in CommentIds
    /\ q.op = "removeComment" =>
          /\ label \in {"resolvePost", "ownComment", "loadComment", "findSubtree",
                        "deleteSubtree"}
          /\ label # "resolvePost" => q.post \in PostIds
          /\ q.comment \in CommentIds
    /\ q.op = "removeUser" =>
          /\ label \in {"confirmRemoval", "listPosts", "findPost", "postLikes", "postThread",
                        "dropPost", "ownComments", "ownLikes", "dropAccount"}
          /\ label \in {"postLikes", "postThread", "dropPost"} => q.post \in PostIds

Running == { q \in Request : Fits(q, q.pc) }

Stored ==
    /\ users \subseteq UserIds
    /\ posts \in [PostIds -> Post \cup {Unborn, Gone}]
    /\ comments \in [CommentIds -> Comment \cup {Unborn, Gone}]
    /\ likes \subseteq UserIds \X PostIds

\* TypeOK, with what each request knows at each of its awaits.
Typed == Stored /\ req \in [Reqs -> Running \cup {Idle}]

LEMMA TypedIsTypeOK == Typed => TypeOK
BY DEF Typed, Stored, TypeOK, Running

LEMMA NoneApart == None \notin PostIds /\ None \notin CommentIds
BY IdsAssumption DEF None

LEMMA RequestFields ==
    ASSUME NEW q \in Request
    PROVE  /\ q.op \in Ops /\ q.pc \in Labels /\ q.user \in UserIds /\ q.n \in Nat
           /\ q.slug \in Slug \cup {NoSlug} /\ q.post \in PostIds \cup {None}
           /\ q.comment \in CommentIds \cup {None} /\ q.title \in Titles \cup {NoTitle}
           /\ q.ids \in SUBSET CommentIds /\ q.todo \in Seq(Slug)
           /\ q # Idle
BY DEF Request, Idle, Labels

LEMMA BusyFields ==
    ASSUME Typed, NEW r \in Reqs, Busy(r)
    PROVE  /\ req[r] \in Request /\ Fits(req[r], req[r].pc)
           /\ req[r].op \in Ops /\ req[r].user \in UserIds /\ req[r].n \in Nat
           /\ req[r].post \in PostIds \cup {None}
           /\ req[r].comment \in CommentIds \cup {None}
           /\ req[r].title \in Titles \cup {NoTitle}
           /\ req[r].ids \in SUBSET CommentIds /\ req[r].todo \in Seq(Slug)
<1>1. req[r] \in Running
    BY DEF Typed, Busy
<1> QED
    BY <1>1, RequestFields DEF Running

\* Documents that are there have the shape of one.
LEMMA LivePost ==
    ASSUME Stored
    PROVE  /\ LivePosts \subseteq PostIds
           /\ \A p \in LivePosts :
                 /\ posts[p] \in Post /\ posts[p].author \in UserIds
                 /\ posts[p].slug \in Slug /\ posts[p].title \in Titles
<1>1. \A p \in LivePosts : posts[p] \in Post
    BY DEF Stored, LivePosts, Unborn, Gone
<1> QED
    BY <1>1 DEF Post, LivePosts

LEMMA LiveComment ==
    ASSUME Stored
    PROVE  /\ LiveComments \subseteq CommentIds
           /\ \A c \in LiveComments :
                 /\ comments[c] \in Comment /\ comments[c].author \in UserIds
                 /\ comments[c].post \in PostIds
                 /\ comments[c].parent \in CommentIds \cup {None}
<1>1. \A c \in LiveComments : comments[c] \in Comment
    BY DEF Stored, LiveComments, Unborn, Gone
<1> QED
    BY <1>1 DEF Comment, LiveComments

-----------------------------------------------------------------------------
(* Changes of one request.                                                 *)

LEMMA ReqSet ==
    ASSUME Typed, NEW r \in Reqs, NEW q \in Running \cup {Idle}, Stored',
           req' = [req EXCEPT ![r] = q]
    PROVE  Typed'
BY DEF Typed

LEMMA Responded ==
    ASSUME Typed, NEW r \in Reqs, Respond(r), Stored'
    PROVE  Typed'
BY ReqSet DEF Respond

\* Fits says nothing about the label stored.
LEMMA Relabelled ==
    ASSUME NEW q \in Request, NEW label, Fits(q, label)
    PROVE  [q EXCEPT !.pc = label] \in Running
<1> DEFINE p == [q EXCEPT !.pc = label]
<1>1. label \in Labels
    BY RequestFields, OpsAssumption DEF Fits, Labels
<1>2. p \in Request /\ p.pc = label
    BY <1>1 DEF Request
<1>3. p.op = q.op /\ p.title = q.title /\ p.post = q.post /\ p.comment = q.comment
    BY DEF Request
<1> HIDE DEF p
<1>4. Fits(p, p.pc)
    BY <1>2, <1>3 DEF Fits
<1> QED
    BY <1>2, <1>4 DEF Running, p

LEMMA Moved ==
    ASSUME Typed, NEW r \in Reqs, Busy(r), NEW label, Goto(r, label), Fits(req[r], label), Stored'
    PROVE  Typed'
<1> DEFINE q == [req[r] EXCEPT !.pc = label]
<1>1. q \in Running
    BY BusyFields, Relabelled
<1>2. req' = [req EXCEPT ![r] = q]
    BY DEF Goto
<1> HIDE DEF q
<1> QED
    BY <1>1, <1>2, ReqSet

\* A request that found its post.
LEMMA Found ==
    ASSUME Typed, NEW r \in Reqs, Busy(r), NEW label, NEW p \in PostIds,
           req' = [req EXCEPT ![r].pc = label, ![r].post = p],
           req[r].op # "createPost",
           \A q : q.op = req[r].op /\ q.title = req[r].title /\ q.comment = req[r].comment
                  /\ q.post = p => Fits(q, label),
           Stored'
    PROVE  Typed'
<1> DEFINE q == [req[r] EXCEPT !.pc = label, !.post = p]
           o == [req[r] EXCEPT !.post = p]
<1>1. req[r] \in Request
    BY BusyFields
<1>2. o \in Request /\ o.op = req[r].op /\ o.title = req[r].title
      /\ o.comment = req[r].comment /\ o.post = p
    BY <1>1 DEF Request
<1>3. q = [o EXCEPT !.pc = label]
    BY <1>1 DEF Request
<1>4. req' = [req EXCEPT ![r] = q]
    BY DEF Typed
<1> HIDE DEF o, q
<1>5. q \in Running
    BY <1>2, <1>3, Relabelled
<1> QED
    BY <1>4, <1>5, ReqSet

LEMMA TypedInit == Init => Typed
BY DEF Init, Typed, Stored

-----------------------------------------------------------------------------
(* What each command writes.                                               *)

LEMMA CandidateIsSlug ==
    ASSUME NEW t \in Titles, NEW n \in Nat
    PROVE  Candidate(t, n) \in Slug
<1>1. Slugify[t] \in STRING \X Seq(Nat)
    BY TitlesAssumption
<1>2. Slugify[t][1] \in { Slugify[s][1] : s \in Titles } /\ Slugify[t][2] \in Seq(Nat)
    BY <1>1
<1>3. Append(Slugify[t][2], n) \in Seq(Nat)
    BY <1>2
<1>4. Slugify[t] = <<Slugify[t][1], Slugify[t][2]>>
    BY <1>1
<1> QED
    BY <1>2, <1>3, <1>4 DEF Candidate, Slug

LEMMA InsertsPost ==
    ASSUME Typed, NEW r \in Reqs, InsertPost(r)
    PROVE  \/ posts' = posts
           \/ \E p \in PostIds, d \in Post :
                 /\ IsNext(posts, p) /\ posts' = [posts EXCEPT ![p] = d]
                 /\ PostsAt(d.slug) = {}
                 /\ d.author = req[r].user /\ d.writer = req[r].user
                 /\ d.title = req[r].title /\ d.slug = Cand(r)
<1> DEFINE q == req[r]
           d == [state |-> "live", author |-> q.user, writer |-> q.user,
                 title |-> q.title, slug |-> Cand(r)]
<1>1. q.user \in UserIds /\ q.title \in Titles /\ q.n \in Nat
    BY BusyFields, OpsAssumption DEF InsertPost, At, Fits
<1>2. Cand(r) \in Slug
    BY <1>1, CandidateIsSlug DEF Cand
<1>3. CASE PostsAt(Cand(r)) # {} \/ ~ Storable(Cand(r))
    BY <1>3 DEF InsertPost
<1>4. CASE PostsAt(Cand(r)) = {} /\ Storable(Cand(r))
    <2>1. d \in Post
        BY <1>1, <1>2, <1>4 DEF Post
    <2>2. PICK p \in PostIds : IsNext(posts, p) /\ posts' = [posts EXCEPT ![p] = d]
        BY <1>4 DEF InsertPost
    <2>3. d.author = q.user /\ d.writer = q.user /\ d.title = q.title /\ d.slug = Cand(r)
        OBVIOUS
    <2> HIDE DEF d
    <2> QED
        BY <1>4, <2>1, <2>2, <2>3
<1> QED
    BY <1>3, <1>4

LEMMA SavesPost ==
    ASSUME Typed, NEW r \in Reqs, SavePost(r)
    PROVE  \/ posts' = posts
           \/ LET p == req[r].post
                  moved == req[r].title # NoTitle /\ Cand(r) # req[r].slug
              IN /\ p \in LivePosts
                 /\ \E d \in Post :
                      /\ posts' = [posts EXCEPT ![p] = d]
                      /\ d.author = posts[p].author /\ d.writer = req[r].user
                      /\ d.title = IF req[r].title = NoTitle THEN posts[p].title ELSE req[r].title
                      /\ d.slug = IF moved THEN Cand(r) ELSE posts[p].slug
                      /\ moved => PostsAt(Cand(r)) \subseteq {p}
<1> DEFINE q == req[r]
           p == q.post
           renamed == q.title # NoTitle
           moved == renamed /\ Cand(r) # q.slug
           title == IF renamed THEN q.title ELSE posts[p].title
           slug == IF moved THEN Cand(r) ELSE posts[p].slug
           d == [posts[p] EXCEPT !.writer = q.user, !.title = title, !.slug = slug]
<1>1. q.user \in UserIds /\ q.title \in Titles \cup {NoTitle} /\ q.n \in Nat
    BY BusyFields DEF SavePost, At
<1>2. CASE p \notin LivePosts \/ (moved /\ (PostsAt(Cand(r)) \ {p} # {} \/ ~ Storable(Cand(r))))
    BY <1>2 DEF SavePost
<1>3. CASE p \in LivePosts /\ ~ (moved /\ (PostsAt(Cand(r)) \ {p} # {} \/ ~ Storable(Cand(r))))
    <2>1. p \in PostIds /\ posts[p] \in Post
        BY <1>3, LivePost DEF Typed
    <2>2. title \in Titles
        BY <1>1, <2>1 DEF Post
    <2>3. slug \in { s \in Slug : Storable(s) }
        <3>1. CASE moved
            <4>1. Cand(r) \in Slug
                BY <1>1, <3>1, CandidateIsSlug DEF Cand
            <4> QED
                BY <1>3, <3>1, <4>1
        <3>2. CASE ~ moved
            BY <2>1, <3>2 DEF Post
        <3> QED
            BY <3>1, <3>2
    <2>4. posts' = [posts EXCEPT ![p] = d]
        BY <1>3, <2>1 DEF SavePost, Typed, Stored
    <2> HIDE DEF title, slug
    <2>5. d \in Post /\ d.author = posts[p].author /\ d.writer = q.user
          /\ d.title = title /\ d.slug = slug
        BY <1>1, <2>1, <2>2, <2>3 DEF Post
    <2> HIDE DEF d
    <2> QED
        BY <1>3, <2>4, <2>5 DEF title, slug
<1> QED
    BY <1>2, <1>3

LEMMA InsertsComment ==
    ASSUME Typed, NEW r \in Reqs, InsertComment(r)
    PROVE  \E c \in CommentIds, d \in Comment :
              /\ IsNext(comments, c) /\ comments' = [comments EXCEPT ![c] = d]
              /\ d.author = req[r].user /\ d.writer = req[r].user
              /\ d.post = req[r].post /\ d.parent = req[r].comment
<1> DEFINE q == req[r]
           d == [state |-> "live", author |-> q.user, writer |-> q.user,
                 post |-> q.post, parent |-> q.comment]
<1>1. q.user \in UserIds /\ q.post \in PostIds /\ q.comment \in CommentIds \cup {None}
    BY BusyFields, OpsAssumption DEF InsertComment, At, Fits
<1>2. d \in Comment
    BY <1>1 DEF Comment
<1>3. PICK c \in CommentIds : IsNext(comments, c) /\ comments' = [comments EXCEPT ![c] = d]
    BY DEF InsertComment
<1>4. d.author = q.user /\ d.writer = q.user /\ d.post = q.post /\ d.parent = q.comment
    OBVIOUS
<1> HIDE DEF d
<1> QED
    BY <1>2, <1>3, <1>4

LEMMA SavesComment ==
    ASSUME Typed, NEW r \in Reqs, SaveComment(r)
    PROVE  \/ comments' = comments
           \/ /\ req[r].comment \in LiveComments
              /\ \E d \in Comment :
                    LET c == req[r].comment IN
                    /\ comments' = [comments EXCEPT ![c] = d]
                    /\ d.author = comments[c].author /\ d.writer = req[r].user
                    /\ d.post = comments[c].post /\ d.parent = comments[c].parent
<1> DEFINE c == req[r].comment
           d == [comments[c] EXCEPT !.writer = req[r].user]
<1>1. CASE c \notin LiveComments
    BY <1>1 DEF SaveComment
<1>2. CASE c \in LiveComments
    <2>1. c \in CommentIds /\ comments[c] \in Comment /\ req[r].user \in UserIds
        BY <1>2, LiveComment, BusyFields DEF Typed, SaveComment, At
    <2>2. comments' = [comments EXCEPT ![c] = d]
        BY <1>2 DEF SaveComment
    <2>3. d \in Comment /\ d.author = comments[c].author /\ d.writer = req[r].user
          /\ d.post = comments[c].post /\ d.parent = comments[c].parent
        BY <2>1 DEF Comment
    <2> HIDE DEF d
    <2> QED
        BY <1>2, <2>2, <2>3
<1> QED
    BY <1>1, <1>2

\* The stores after each kind of write.
LEMMA StoreKept ==
    ASSUME Stored, UNCHANGED storeVars
    PROVE  Stored'
BY DEF Stored, storeVars

LEMMA PostWritten ==
    ASSUME Stored, NEW p \in PostIds, NEW d \in Post \cup {Gone},
           posts' = [posts EXCEPT ![p] = d], UNCHANGED <<users, comments, likes>>
    PROVE  Stored'
BY DEF Stored

LEMMA CommentWritten ==
    ASSUME Stored, NEW c \in CommentIds, NEW d \in Comment,
           comments' = [comments EXCEPT ![c] = d], UNCHANGED <<users, posts, likes>>
    PROVE  Stored'
BY DEF Stored

LEMMA CommentsDeleted ==
    ASSUME Stored, NEW S, comments' = Without(S), UNCHANGED <<users, posts, likes>>
    PROVE  Stored'
BY DEF Stored, Without

-----------------------------------------------------------------------------
(* Types, action by action.                                                *)

LEMMA TypedPost ==
    ASSUME Typed, NEW r \in Reqs,
           CountPosts(r) \/ ProbeSlug(r) \/ InsertPost(r) \/ OwnerOfPost(r) \/ SavePost(r)
    PROVE  Typed'
<1> DEFINE q == req[r]
<1>1. CASE CountPosts(r)
    <2>1. Busy(r) /\ q.op = "createPost" /\ Stored'
        BY <1>1, BusyFields, OpsAssumption, StoreKept DEF CountPosts, At, Fits, Typed
    <2>2. Fits(q, "probeSlug")
        BY <1>1, <2>1, BusyFields DEF Fits
    <2> QED
        BY <1>1, <2>1, <2>2, Moved, Responded DEF CountPosts
<1>2. CASE ProbeSlug(r)
    <2>1. Busy(r) /\ q.op \in {"createPost", "updatePost"} /\ Stored'
        BY <1>2, BusyFields, OpsAssumption, StoreKept DEF ProbeSlug, At, Fits, Typed
    <2>2. Fits(q, IF q.op = "createPost" THEN "insertPost" ELSE "savePost")
        BY <1>2, <2>1, BusyFields DEF Fits, ProbeSlug, At
    <2>3. CASE Goto(r, IF q.op = "createPost" THEN "insertPost" ELSE "savePost")
        BY <2>1, <2>2, <2>3, Moved
    <2>4. CASE req' = [req EXCEPT ![r].n = @ + 1]
        <3> DEFINE p == [q EXCEPT !.n = q.n + 1]
        <3>1. req' = [req EXCEPT ![r] = p]
            BY <2>4
        <3>2. q \in Request /\ q.n \in Nat /\ Fits(q, q.pc)
            BY <2>1, BusyFields
        <3>3. p \in Request /\ p.op = q.op /\ p.pc = q.pc /\ p.post = q.post
              /\ p.title = q.title /\ p.comment = q.comment
            BY <3>2 DEF Request
        <3> HIDE DEF p
        <3>4. p \in Running
            BY <3>2, <3>3 DEF Running, Fits
        <3> QED
            BY <2>1, <3>1, <3>4, ReqSet
    <2> QED
        BY <1>2, <2>3, <2>4 DEF ProbeSlug
<1>3. CASE InsertPost(r)
    <2>1. Stored'
        <3>1. CASE posts' = posts
            BY <1>3, <3>1, StoreKept DEF InsertPost, Typed, storeVars
        <3>2. CASE posts' # posts
            BY <1>3, <3>2, InsertsPost, PostWritten DEF InsertPost, Typed
        <3> QED
            BY <3>1, <3>2
    <2> QED
        BY <1>3, <2>1, Responded DEF InsertPost
<1>4. CASE OwnerOfPost(r)
    <2>1. Busy(r) /\ q.op \in {"updatePost", "removePost"} /\ Stored'
        BY <1>4, BusyFields, OpsAssumption, StoreKept DEF OwnerOfPost, At, Fits, Typed
    <2>2. Fits(q, IF q.op = "updatePost" THEN "loadPost" ELSE "findPost")
        BY <1>4, <2>1, BusyFields DEF Fits
    <2> QED
        BY <1>4, <2>1, <2>2, Moved, Responded DEF OwnerOfPost
<1>5. CASE SavePost(r)
    <2>1. Stored'
        <3>1. CASE posts' = posts
            BY <1>5, <3>1, StoreKept DEF SavePost, Typed, storeVars
        <3>2. CASE posts' # posts
            <4>1. PICK d \in Post : req[r].post \in LivePosts
                                    /\ posts' = [posts EXCEPT ![req[r].post] = d]
                BY <1>5, <3>2, SavesPost
            <4> QED
                BY <1>5, <4>1, LivePost, PostWritten DEF SavePost, Typed
        <3> QED
            BY <3>1, <3>2
    <2> QED
        BY <1>5, <2>1, Responded DEF SavePost
<1> QED
    BY <1>1, <1>2, <1>3, <1>4, <1>5

LEMMA TypedLoadPost ==
    ASSUME Typed, NEW r \in Reqs, LoadPost(r)
    PROVE  Typed'
<1> DEFINE q == req[r]
<1>1. Busy(r) /\ q.op = "updatePost" /\ Stored' /\ q \in Request
    BY BusyFields, OpsAssumption, StoreKept DEF LoadPost, At, Fits, Typed
<1>2. CASE Respond(r)
    BY <1>1, <1>2, Responded
<1>3. CASE ~ Respond(r)
    <2>1. PICK p \in PostsAt(q.slug) :
             IF q.title \in {NoTitle, posts[p].title}
             THEN req' = [req EXCEPT ![r].pc = "savePost", ![r].post = p, ![r].title = NoTitle]
             ELSE req' = [req EXCEPT ![r].pc = "probeSlug", ![r].post = p]
        BY <1>3 DEF LoadPost
    <2>2. p \in PostIds
        BY <2>1, LivePost DEF Typed, PostsAt
    <2>3. CASE q.title \in {NoTitle, posts[p].title}
        <3> DEFINE o == [q EXCEPT !.post = p, !.title = NoTitle]
                   s == [q EXCEPT !.pc = "savePost", !.post = p, !.title = NoTitle]
        <3>1. o \in Request /\ o.op = q.op /\ o.post = p
            BY <1>1, <2>2 DEF Request
        <3>2. s = [o EXCEPT !.pc = "savePost"]
            BY <1>1 DEF Request
        <3>3. req' = [req EXCEPT ![r] = s]
            BY <2>1, <2>3 DEF Typed
        <3> HIDE DEF o, s
        <3>4. Fits(o, "savePost")
            BY <1>1, <2>2, <3>1 DEF Fits
        <3> QED
            BY <1>1, <3>1, <3>2, <3>3, <3>4, Relabelled, ReqSet
    <2>4. CASE q.title \notin {NoTitle, posts[p].title}
        <3>1. q.title \in Titles
            BY <1>1, <2>4, BusyFields
        <3> QED
            BY <1>1, <2>1, <2>2, <2>4, <3>1, Found DEF Fits
    <2> QED
        BY <2>3, <2>4
<1> QED
    BY <1>2, <1>3

\* The removal of an account goes on to a post of the account.
LEMMA NextPost ==
    ASSUME Typed, NEW r \in Reqs, Busy(r), req[r].op = "removeUser",
           NEW s \in Seq(Slug), s # <<>>, Stored',
           req' = [req EXCEPT ![r].pc = "findPost", ![r].slug = Head(s), ![r].todo = Tail(s)]
    PROVE  Typed'
<1> DEFINE q == req[r]
           o == [q EXCEPT !.slug = Head(s), !.todo = Tail(s)]
           p == [q EXCEPT !.pc = "findPost", !.slug = Head(s), !.todo = Tail(s)]
<1>1. q \in Request /\ Head(s) \in Slug /\ Tail(s) \in Seq(Slug)
    BY BusyFields
<1>2. o \in Request /\ o.op = "removeUser"
    BY <1>1 DEF Request
<1>3. p = [o EXCEPT !.pc = "findPost"]
    BY <1>1 DEF Request
<1>4. req' = [req EXCEPT ![r] = p]
    BY DEF Typed
<1> HIDE DEF o, p
<1>5. Fits(o, "findPost")
    BY <1>2 DEF Fits
<1> QED
    BY <1>2, <1>3, <1>4, <1>5, Relabelled, ReqSet

LEMMA TypedRemovePost ==
    ASSUME Typed, NEW r \in Reqs,
           FindPost(r) \/ RemovePostLikes(r) \/ RemovePostThread(r) \/ DropPost(r)
    PROVE  Typed'
<1> DEFINE q == req[r]
<1>1. Busy(r) /\ q.op \in {"removePost", "removeUser"}
    BY BusyFields, OpsAssumption
    DEF FindPost, RemovePostLikes, RemovePostThread, DropPost, At, Fits, Typed
<1>2. CASE FindPost(r)
    <2>1. Stored'
        BY <1>2, StoreKept DEF FindPost, Typed
    <2>2. CASE Respond(r)
        BY <2>1, <2>2, Responded
    <2>3. CASE ~ Respond(r)
        <3>1. PICK p \in PostsAt(q.slug) :
                 req' = [req EXCEPT ![r].pc = "postLikes", ![r].post = p]
            BY <1>2, <2>3 DEF FindPost
        <3>2. p \in PostIds
            BY <3>1, LivePost DEF Typed, PostsAt
        <3> QED
            BY <1>1, <2>1, <3>1, <3>2, Found DEF Fits
    <2> QED
        BY <2>2, <2>3
<1>3. CASE RemovePostLikes(r)
    <2>1. Stored'
        BY <1>3 DEF RemovePostLikes, Typed, Stored
    <2>2. Fits(q, "postThread")
        BY <1>1, <1>3, BusyFields DEF Fits, RemovePostLikes, At
    <2> QED
        BY <1>1, <1>3, <2>1, <2>2, Moved DEF RemovePostLikes
<1>4. CASE RemovePostThread(r)
    <2>1. Stored'
        BY <1>4, CommentsDeleted DEF RemovePostThread, Typed
    <2>2. Fits(q, "dropPost")
        BY <1>1, <1>4, BusyFields DEF Fits, RemovePostThread, At
    <2> QED
        BY <1>1, <1>4, <2>1, <2>2, Moved DEF RemovePostThread
<1>5. CASE DropPost(r)
    <2>1. q.post \in PostIds
        BY <1>1, <1>5, BusyFields DEF Fits, DropPost, At
    <2>2. Stored'
        BY <1>5, <2>1, PostWritten DEF DropPost, Typed
    <2>3. CASE q.op = "removePost"
        BY <1>5, <2>2, <2>3, Responded DEF DropPost
    <2>4. CASE q.op = "removeUser" /\ q.todo = <<>>
        <3>1. Fits(q, "ownComments")
            BY <2>4 DEF Fits
        <3> QED
            BY <1>1, <1>5, <2>2, <2>4, <3>1, Moved DEF DropPost
    <2>5. CASE q.op = "removeUser" /\ q.todo # <<>>
        BY <1>1, <1>5, <2>2, <2>5, BusyFields, NextPost DEF DropPost
    <2> QED
        BY <1>1, <2>3, <2>4, <2>5
<1> QED
    BY <1>2, <1>3, <1>4, <1>5

LEMMA TypedResolvePost ==
    ASSUME Typed, NEW r \in Reqs, ResolvePost(r)
    PROVE  Typed'
<1> DEFINE q == req[r]
<1>1. /\ Busy(r) /\ Stored'
      /\ q.op \in {"like", "unlike", "createComment", "updateComment", "removeComment"}
      /\ q.op \in {"updateComment", "removeComment"} => q.comment \in CommentIds
    BY BusyFields, OpsAssumption, StoreKept DEF ResolvePost, At, Fits, Typed
<1>2. CASE Respond(r)
    BY <1>1, <1>2, Responded
<1>3. CASE ~ Respond(r)
    <2>1. PICK p \in PostsAt(q.slug) :
             req' = [req EXCEPT ![r].pc = AfterResolve(q.op), ![r].post = p]
        BY <1>3 DEF ResolvePost
    <2>2. p \in PostIds
        BY <2>1, LivePost DEF Typed, PostsAt
    <2>3. \A o : o.op = q.op /\ o.comment = q.comment /\ o.post = p
                 => Fits(o, AfterResolve(q.op))
        BY <1>1, <2>2 DEF Fits, AfterResolve
    <2> QED
        BY <1>1, <2>1, <2>2, <2>3, Found
<1> QED
    BY <1>2, <1>3

LEMMA TypedCreateComment ==
    ASSUME Typed, NEW r \in Reqs,
           CountComments(r) \/ FindParent(r) \/ CheckDepth(r) \/ InsertComment(r)
    PROVE  Typed'
<1> DEFINE q == req[r]
<1>1. /\ Busy(r) /\ q.op = "createComment" /\ q.post \in PostIds
      /\ q.comment \in CommentIds \cup {None}
    BY BusyFields, OpsAssumption DEF CountComments, FindParent, CheckDepth, InsertComment, At, Fits
<1>2. Fits(q, "insertComment") /\ (q.comment # None => Fits(q, "findParent"))
    BY <1>1 DEF Fits
<1>3. q.comment \in CommentIds => Fits(q, "checkDepth")
    BY <1>1 DEF Fits
<1>4. CASE CountComments(r)
    <2>1. Stored'
        BY <1>4, StoreKept DEF CountComments, Typed
    <2> QED
        BY <1>1, <1>2, <1>4, <2>1, Moved, Responded DEF CountComments
<1>5. CASE FindParent(r)
    <2>1. Stored' /\ q.comment \in CommentIds
        BY <1>1, <1>5, BusyFields, StoreKept DEF FindParent, Typed, Fits, At
    <2> QED
        BY <1>1, <1>2, <1>3, <1>5, <2>1, Moved, Responded DEF FindParent
<1>6. CASE CheckDepth(r)
    <2>1. Stored'
        BY <1>6, StoreKept DEF CheckDepth, Typed
    <2> QED
        BY <1>1, <1>2, <1>6, <2>1, Moved, Responded DEF CheckDepth
<1>7. CASE InsertComment(r)
    <2>1. Stored'
        BY <1>7, InsertsComment, CommentWritten DEF InsertComment, Typed
    <2> QED
        BY <1>7, <2>1, Responded DEF InsertComment
<1> QED
    BY <1>4, <1>5, <1>6, <1>7

LEMMA TypedEditComment ==
    ASSUME Typed, NEW r \in Reqs,
           \/ OwnerOfComment(r) \/ LoadComment(r) \/ SaveComment(r)
           \/ FindSubtree(r) \/ DeleteSubtree(r)
    PROVE  Typed'
<1> DEFINE q == req[r]
<1>1. /\ Busy(r) /\ q.op \in {"updateComment", "removeComment"}
      /\ q.post \in PostIds /\ q.comment \in CommentIds /\ q \in Request
    BY BusyFields, OpsAssumption
    DEF OwnerOfComment, LoadComment, SaveComment, FindSubtree, DeleteSubtree, At, Fits
<1>2. CASE OwnerOfComment(r)
    <2>1. Stored' /\ Fits(q, "loadComment")
        BY <1>1, <1>2, StoreKept DEF OwnerOfComment, Typed, Fits
    <2> QED
        BY <1>1, <1>2, <2>1, Moved, Responded DEF OwnerOfComment
<1>3. CASE LoadComment(r)
    <2>1. Stored' /\ Fits(q, IF q.op = "updateComment" THEN "saveComment" ELSE "findSubtree")
        BY <1>1, <1>3, StoreKept DEF LoadComment, Typed, Fits
    <2> QED
        BY <1>1, <1>3, <2>1, Moved, Responded DEF LoadComment
<1>4. CASE SaveComment(r)
    <2>1. CASE comments' = comments
        <3>1. Stored'
            BY <1>4, <2>1, StoreKept DEF SaveComment, Typed, storeVars
        <3> QED
            BY <1>4, <3>1, Responded DEF SaveComment
    <2>2. CASE comments' # comments
        <3>1. Stored'
            BY <1>1, <1>4, <2>2, SavesComment, CommentWritten DEF SaveComment, Typed
        <3> QED
            BY <1>4, <3>1, Responded DEF SaveComment
    <2> QED
        BY <2>1, <2>2
<1>5. CASE FindSubtree(r)
    <2> DEFINE o == [q EXCEPT !.ids = Subtree(q.comment)]
               p == [q EXCEPT !.pc = "deleteSubtree", !.ids = Subtree(q.comment)]
    <2>1. Stored' /\ q.op = "removeComment"
        BY <1>1, <1>5, BusyFields, StoreKept DEF FindSubtree, Typed, Fits, At
    <2>2. Subtree(q.comment) \in SUBSET CommentIds
        BY <1>1 DEF Subtree, LiveComments
    <2>3. o \in Request /\ o.op = q.op /\ o.post = q.post /\ o.comment = q.comment
        BY <1>1, <2>2 DEF Request
    <2>4. p = [o EXCEPT !.pc = "deleteSubtree"]
        BY <1>1 DEF Request
    <2>5. req' = [req EXCEPT ![r] = p]
        BY <1>5 DEF FindSubtree, Typed
    <2> HIDE DEF o, p
    <2>6. Fits(o, "deleteSubtree")
        BY <1>1, <2>1, <2>3 DEF Fits
    <2> QED
        BY <2>1, <2>3, <2>4, <2>5, <2>6, Relabelled, ReqSet
<1>6. CASE DeleteSubtree(r)
    <2>1. Stored'
        BY <1>6, CommentsDeleted DEF DeleteSubtree, Typed
    <2> QED
        BY <1>6, <2>1, Responded DEF DeleteSubtree
<1> QED
    BY <1>2, <1>3, <1>4, <1>5, <1>6

\* The slugs of some posts, in any order.
LEMMA OwnSlugs ==
    ASSUME Stored, NEW S \in SUBSET LivePosts, NEW own \in SetToSeqs(S)
    PROVE  [i \in DOMAIN own |-> posts[own[i]].slug] \in Seq(Slug)
<1> DEFINE n == Cardinality(S)
           slugs == [i \in DOMAIN own |-> posts[own[i]].slug]
<1>1. own \in [1 .. n -> S] /\ DOMAIN own = 1 .. n
    BY DEF SetToSeqs
<1>2. n \in Nat
    <2>1. IsFiniteSet(S)
        BY LivePost, IdsAssumption, FS_Subset
    <2> QED
        BY <2>1, FS_CardinalityType
<1>3. \A i \in 1 .. n : posts[own[i]].slug \in Slug
    BY <1>1, LivePost
<1> HIDE DEF n
<1>4. slugs \in [1 .. n -> Slug]
    BY <1>1, <1>3
<1> QED
    BY <1>2, <1>4

LEMMA TypedAccount ==
    ASSUME Typed, NEW r \in Reqs, AccountStep(r)
    PROVE  Typed'
<1> DEFINE q == req[r]
<1>1. Busy(r)
    BY DEF AccountStep, WriteLike, ConfirmRemoval, ListOwnPosts, RemoveOwnComments,
           RemoveOwnLikes, DropAccount, At
<1>2. CASE WriteLike(r)
    <2>1. q.user \in UserIds /\ q.post \in PostIds
        BY <1>1, <1>2, BusyFields, OpsAssumption DEF WriteLike, At, Fits
    <2>2. Stored'
        BY <1>2, <2>1 DEF WriteLike, Typed, Stored
    <2> QED
        BY <1>2, <2>2, Responded DEF WriteLike
<1>3. ASSUME ~ WriteLike(r) PROVE q.op = "removeUser"
    BY <1>1, <1>3, BusyFields, OpsAssumption
    DEF AccountStep, ConfirmRemoval, ListOwnPosts, RemoveOwnComments, RemoveOwnLikes,
        DropAccount, At, Fits
<1>4. q.op = "removeUser" =>
         Fits(q, "listPosts") /\ Fits(q, "ownComments") /\ Fits(q, "ownLikes")
         /\ Fits(q, "dropAccount")
    BY DEF Fits
<1>5. CASE ConfirmRemoval(r)
    <2>1. Stored' /\ q.op = "removeUser"
        BY <1>3, <1>5, StoreKept DEF ConfirmRemoval, Typed, At, WriteLike
    <2> QED
        BY <1>1, <1>4, <1>5, <2>1, Moved, Responded DEF ConfirmRemoval
<1>6. CASE ListOwnPosts(r)
    <2>1. Stored' /\ q.op = "removeUser"
        BY <1>3, <1>6, StoreKept DEF ListOwnPosts, Typed, At, WriteLike
    <2>2. PICK own \in SetToSeqs(PostsBy(q.user)) :
             LET slugs == [i \in DOMAIN own |-> posts[own[i]].slug] IN
             IF slugs = <<>>
             THEN Goto(r, "ownComments")
             ELSE req' = [req EXCEPT ![r].pc = "findPost", ![r].slug = Head(slugs),
                                     ![r].todo = Tail(slugs)]
        BY <1>6 DEF ListOwnPosts
    <2> DEFINE slugs == [i \in DOMAIN own |-> posts[own[i]].slug]
    <2>3. slugs \in Seq(Slug)
        BY OwnSlugs DEF PostsBy, Typed
    <2>4. IF slugs = <<>>
          THEN Goto(r, "ownComments")
          ELSE req' = [req EXCEPT ![r].pc = "findPost", ![r].slug = Head(slugs),
                                  ![r].todo = Tail(slugs)]
        BY <2>2
    <2> HIDE DEF slugs
    <2> QED
        BY <1>1, <1>4, <2>1, <2>3, <2>4, Moved, NextPost
<1>7. CASE RemoveOwnComments(r)
    <2>1. Stored' /\ q.op = "removeUser"
        BY <1>3, <1>7, CommentsDeleted DEF RemoveOwnComments, Typed, At, WriteLike
    <2> QED
        BY <1>1, <1>4, <1>7, <2>1, Moved DEF RemoveOwnComments
<1>8. CASE RemoveOwnLikes(r)
    <2>1. q.op = "removeUser"
        BY <1>3, <1>8 DEF RemoveOwnLikes, At, WriteLike
    <2>2. Stored'
        BY <1>8 DEF RemoveOwnLikes, Typed, Stored
    <2> QED
        BY <1>1, <1>4, <1>8, <2>1, <2>2, Moved DEF RemoveOwnLikes
<1>9. CASE DropAccount(r)
    <2>1. Stored'
        BY <1>9 DEF DropAccount, Typed, Stored
    <2> QED
        BY <1>9, <2>1, Responded DEF DropAccount
<1> QED
    BY <1>2, <1>5, <1>6, <1>7, <1>8, <1>9 DEF AccountStep

LEMMA TypedArrive ==
    ASSUME Typed, NEW r \in Reqs, NEW u \in UserIds, NEW op, NEW label \in Labels,
           NEW slug \in Slug \cup {NoSlug}, NEW comment \in CommentIds \cup {None},
           NEW title \in Titles \cup {NoTitle},
           \A q : q.op = op /\ q.title = title /\ q.post = None /\ q.comment = comment
                  => Fits(q, label),
           Arrive(r, u, op, label, slug, comment, title)
    PROVE  Typed'
<1> DEFINE q == [op |-> op, pc |-> label, user |-> u, slug |-> slug, n |-> 1, post |-> None,
                 comment |-> comment, title |-> title, ids |-> {}, todo |-> <<>>]
<1>1. op \in Ops /\ Stored' /\ req' = [req EXCEPT ![r] = q]
    BY StoreKept DEF Arrive, Typed
<1>2. <<>> \in Seq(Slug)
    OBVIOUS
<1>3. q \in Request
    BY <1>1, <1>2 DEF Request
<1>4. q.op = op /\ q.title = title /\ q.post = None /\ q.comment = comment /\ q.pc = label
    OBVIOUS
<1> HIDE DEF q
<1>5. q \in Running
    BY <1>3, <1>4 DEF Running
<1> QED
    BY <1>1, <1>5, ReqSet

LEMMA TypedStart ==
    ASSUME Typed, NEW r \in Reqs, Start(r)
    PROVE  Typed'
<1>0. /\ \A p \in LivePosts : posts[p].slug \in Slug
      /\ \A c \in LiveComments : c \in CommentIds
      /\ {"countPosts", "ownPost", "resolvePost", "confirmRemoval"} \subseteq Labels
    BY LivePost, LiveComment DEF Typed, Labels
<1>1. CASE StartCreatePost(r)
    <2>1. PICK u \in UserIds, t \in Titles : Arrive(r, u, "createPost", "countPosts", NoSlug, None, t)
        BY <1>1 DEF StartCreatePost
    <2> QED
        BY <1>0, <2>1, TypedArrive DEF Fits
<1>2. CASE StartPostEdit(r)
    <2>1. PICK u \in UserIds, p \in LivePosts, op \in {"updatePost", "removePost"},
               t \in Titles \cup {NoTitle} :
             Arrive(r, u, op, "ownPost", posts[p].slug, None, t)
        BY <1>2 DEF StartPostEdit
    <2> QED
        BY <1>0, <2>1, TypedArrive DEF Fits
<1>3. CASE StartLike(r)
    <2>1. PICK u \in UserIds, p \in LivePosts, op \in {"like", "unlike"} :
             Arrive(r, u, op, "resolvePost", posts[p].slug, None, NoTitle)
        BY <1>3 DEF StartLike
    <2> QED
        BY <1>0, <2>1, TypedArrive DEF Fits
<1>4. CASE StartComment(r)
    <2>1. PICK u \in UserIds, p \in LivePosts, parent \in LiveComments \cup {None} :
             Arrive(r, u, "createComment", "resolvePost", posts[p].slug, parent, NoTitle)
        BY <1>4 DEF StartComment
    <2> QED
        BY <1>0, <2>1, TypedArrive DEF Fits
<1>5. CASE StartCommentEdit(r)
    <2>1. PICK u \in UserIds, p \in LivePosts, c \in LiveComments,
               op \in {"updateComment", "removeComment"} :
             Arrive(r, u, op, "resolvePost", posts[p].slug, c, NoTitle)
        BY <1>5 DEF StartCommentEdit
    <2> QED
        BY <1>0, <2>1, TypedArrive DEF Fits
<1>6. CASE StartRemoveUser(r)
    <2>1. PICK u \in UserIds : Arrive(r, u, "removeUser", "confirmRemoval", NoSlug, None, NoTitle)
        BY <1>6 DEF StartRemoveUser
    <2> QED
        BY <1>0, <2>1, TypedArrive DEF Fits
<1> QED
    BY <1>1, <1>2, <1>3, <1>4, <1>5, <1>6 DEF Start

LEMMA TypedNext ==
    ASSUME Typed, [Next]_vars
    PROVE  Typed'
<1>1. CASE UNCHANGED vars
    BY <1>1 DEF vars, Typed, Stored
<1>2. ASSUME NEW r \in Reqs, Start(r) \/ Step(r) PROVE Typed'
    BY <1>2, TypedStart, TypedPost, TypedLoadPost, TypedRemovePost, TypedResolvePost,
       TypedCreateComment, TypedEditComment, TypedAccount DEF Step, PostStep, CommentStep
<1>3. CASE Crash
    <2>1. Stored'
        BY <1>3, StoreKept DEF Crash, Typed
    <2> QED
        BY <1>3, <2>1 DEF Crash, Typed
<1> QED
    BY <1>1, <1>2, <1>3 DEF Next

LEMMA TypedAlways == Spec => []Typed
BY TypedInit, TypedNext, PTL DEF Spec

\* Every document and every request keeps the shape the schemas and the handlers
\* give it: each await finds the locals it uses.
THEOREM TypeCorrect == Spec => []TypeOK
BY TypedAlways, TypedIsTypeOK, PTL

-----------------------------------------------------------------------------
(* What a step does to the posts and to the comments.                      *)

PostCreated ==
    \E p \in PostIds, d \in Post :
        /\ IsNext(posts, p) /\ posts' = [posts EXCEPT ![p] = d]
        /\ PostsAt(d.slug) = {} /\ d.writer = d.author

\* By its owner or by whoever the slug led to it.
PostRewritten ==
    \E p \in LivePosts, d \in Post :
        /\ posts' = [posts EXCEPT ![p] = d]
        /\ d.author = posts[p].author
        /\ d.slug = posts[p].slug \/ PostsAt(d.slug) \subseteq {p}

PostDropped == \E p \in PostIds : posts' = [posts EXCEPT ![p] = Gone]

CommentCreated(r) ==
    /\ At(r, "insertComment") /\ req[r].op = "createComment"
    /\ \E c \in CommentIds, d \in Comment :
          /\ IsNext(comments, c) /\ comments' = [comments EXCEPT ![c] = d]
          /\ d.writer = d.author /\ d.post = req[r].post /\ d.parent = req[r].comment

CommentRewritten(r) ==
    /\ At(r, "saveComment") /\ req[r].op = "updateComment" /\ req[r].comment \in LiveComments
    /\ \E d \in Comment :
          LET c == req[r].comment IN
          /\ comments' = [comments EXCEPT ![c] = d]
          /\ d.author = comments[c].author /\ d.writer = req[r].user
          /\ d.post = comments[c].post /\ d.parent = comments[c].parent

SomeDeleted == \E S : comments' = Without(S)

LEMMA HowPostsChange ==
    ASSUME Typed, [Next]_vars
    PROVE  posts' = posts \/ PostCreated \/ PostRewritten \/ PostDropped
<1>1. CASE UNCHANGED vars
    BY <1>1 DEF vars
<1>2. ASSUME NEW r \in Reqs, Start(r) PROVE posts' = posts
    BY <1>2 DEF Start, StartCreatePost, StartPostEdit, StartLike, StartComment,
       StartCommentEdit, StartRemoveUser, Arrive, storeVars
<1>3. ASSUME NEW r \in Reqs, PostStep(r)
      PROVE  posts' = posts \/ PostCreated \/ PostRewritten \/ PostDropped
    <2>1. CASE InsertPost(r)
        BY <2>1, InsertsPost DEF PostCreated
    <2>2. CASE SavePost(r)
        BY <2>2, SavesPost DEF PostRewritten
    <2>3. CASE DropPost(r)
        <3>1. req[r].post \in PostIds
            BY <2>3, BusyFields, OpsAssumption DEF DropPost, At, Fits
        <3> QED
            BY <2>3, <3>1 DEF DropPost, PostDropped
    <2> QED
        BY <1>3, <2>1, <2>2, <2>3
        DEF PostStep, CountPosts, ProbeSlug, OwnerOfPost, LoadPost, FindPost, RemovePostLikes,
            RemovePostThread, storeVars
<1>4. ASSUME NEW r \in Reqs, CommentStep(r) PROVE posts' = posts
    BY <1>4 DEF CommentStep, ResolvePost, CountComments, FindParent, CheckDepth, InsertComment,
       OwnerOfComment, LoadComment, SaveComment, FindSubtree, DeleteSubtree, storeVars
<1>5. ASSUME NEW r \in Reqs, AccountStep(r) PROVE posts' = posts
    BY <1>5 DEF AccountStep, WriteLike, ConfirmRemoval, ListOwnPosts, RemoveOwnComments,
       RemoveOwnLikes, DropAccount, storeVars
<1>6. CASE Crash
    BY <1>6 DEF Crash, storeVars
<1> QED
    BY <1>1, <1>2, <1>3, <1>4, <1>5, <1>6 DEF Next, Step

LEMMA HowCommentsChange ==
    ASSUME Typed, [Next]_vars
    PROVE  \/ comments' = comments
           \/ \E r \in Reqs : CommentCreated(r) /\ Respond(r)
           \/ \E r \in Reqs : CommentRewritten(r) /\ Respond(r)
           \/ SomeDeleted
<1>1. CASE UNCHANGED vars
    BY <1>1 DEF vars
<1>2. ASSUME NEW r \in Reqs, Start(r) PROVE comments' = comments
    BY <1>2 DEF Start, StartCreatePost, StartPostEdit, StartLike, StartComment,
       StartCommentEdit, StartRemoveUser, Arrive, storeVars
<1>3. ASSUME NEW r \in Reqs, PostStep(r) PROVE comments' = comments \/ SomeDeleted
    BY <1>3
    DEF PostStep, CountPosts, ProbeSlug, InsertPost, OwnerOfPost, LoadPost, SavePost, FindPost,
        RemovePostLikes, RemovePostThread, DropPost, storeVars, SomeDeleted
<1>4. ASSUME NEW r \in Reqs, CommentStep(r)
      PROVE  \/ comments' = comments
             \/ CommentCreated(r) /\ Respond(r)
             \/ CommentRewritten(r) /\ Respond(r)
             \/ SomeDeleted
    <2>1. CASE InsertComment(r)
        <3>1. At(r, "insertComment") /\ req[r].op = "createComment" /\ Respond(r)
            BY <2>1, BusyFields, OpsAssumption DEF InsertComment, At, Fits
        <3> QED
            BY <2>1, <3>1, InsertsComment DEF CommentCreated
    <2>2. CASE SaveComment(r)
        <3>1. At(r, "saveComment") /\ req[r].op = "updateComment" /\ Respond(r)
            BY <2>2, BusyFields, OpsAssumption DEF SaveComment, At, Fits
        <3> QED
            BY <2>2, <3>1, SavesComment DEF CommentRewritten
    <2>3. CASE DeleteSubtree(r)
        BY <2>3 DEF DeleteSubtree, SomeDeleted
    <2> QED
        BY <1>4, <2>1, <2>2, <2>3
        DEF CommentStep, ResolvePost, CountComments, FindParent, CheckDepth, OwnerOfComment,
            LoadComment, FindSubtree, storeVars
<1>5. ASSUME NEW r \in Reqs, AccountStep(r) PROVE comments' = comments \/ SomeDeleted
    BY <1>5 DEF AccountStep, WriteLike, ConfirmRemoval, ListOwnPosts, RemoveOwnComments,
       RemoveOwnLikes, DropAccount, storeVars, SomeDeleted
<1>6. CASE Crash
    BY <1>6 DEF Crash, storeVars
<1> QED
    BY <1>1, <1>2, <1>3, <1>4, <1>5, <1>6 DEF Next, Step

-----------------------------------------------------------------------------
(* Slugs. *)

\* One post more whose slug no other holds.
LEMMA SlugApart ==
    ASSUME SlugsUnique, NEW S \in SUBSET LivePosts, NEW p, NEW d,
           \A q \in S : posts[q].slug # d.slug,
           LivePosts' = S \cup {p}, posts'[p] = d, \A q \in S : posts'[q] = posts[q]
    PROVE  SlugsUnique'
BY DEF SlugsUnique

LEMMA PostsAfter ==
    ASSUME Typed, NEW p \in PostIds, NEW d \in Post, posts' = [posts EXCEPT ![p] = d]
    PROVE  /\ LivePosts' = LivePosts \cup {p} /\ posts'[p] = d
           /\ \A q \in PostIds : q # p => posts'[q] = posts[q]
BY DEF Typed, Stored, LivePosts, Post

LEMMA PostsWithout ==
    ASSUME Typed, NEW p \in PostIds, posts' = [posts EXCEPT ![p] = Gone]
    PROVE  /\ LivePosts' = LivePosts \ {p}
           /\ \A q \in PostIds : q # p => posts'[q] = posts[q]
BY DEF Typed, Stored, LivePosts, Gone

LEMMA SlugStep ==
    ASSUME Typed, SlugsUnique, [Next]_vars
    PROVE  SlugsUnique'
<1>0. LivePosts \subseteq PostIds
    BY DEF LivePosts
<1>1. CASE posts' = posts
    BY <1>1 DEF SlugsUnique, LivePosts
<1>2. CASE PostCreated
    <2>1. PICK p \in PostIds, d \in Post :
             IsNext(posts, p) /\ posts' = [posts EXCEPT ![p] = d] /\ PostsAt(d.slug) = {}
        BY <1>2 DEF PostCreated
    <2>2. p \notin LivePosts /\ \A q \in LivePosts : posts[q].slug # d.slug
        BY <2>1 DEF IsNext, LivePosts, PostsAt
    <2>3. LivePosts' = LivePosts \cup {p} /\ posts'[p] = d
          /\ \A q \in LivePosts : posts'[q] = posts[q]
        BY <1>0, <2>1, <2>2, PostsAfter
    <2> QED
        BY <2>2, <2>3, SlugApart
<1>3. CASE PostRewritten
    <2>1. PICK p \in LivePosts, d \in Post :
             /\ posts' = [posts EXCEPT ![p] = d]
             /\ d.slug = posts[p].slug \/ PostsAt(d.slug) \subseteq {p}
        BY <1>3 DEF PostRewritten
    <2> DEFINE S == LivePosts \ {p}
    <2>2. \A q \in S : posts[q].slug # d.slug
        BY <2>1 DEF SlugsUnique, PostsAt
    <2>3. LivePosts' = S \cup {p} /\ posts'[p] = d /\ \A q \in S : posts'[q] = posts[q]
        BY <1>0, <2>1, PostsAfter
    <2> QED
        BY <2>2, <2>3, SlugApart
<1>4. CASE PostDropped
    BY <1>0, <1>4, PostsWithout DEF PostDropped, SlugsUnique
<1> QED
    BY <1>1, <1>2, <1>3, <1>4, HowPostsChange

\* Requests that probed the same free slug never both get it, however many probe
\* at once and whatever else runs (post.ts:86-97).
THEOREM UniqueSlugs == Spec => []SlugsUnique
<1>1. Init => SlugsUnique
    BY DEF Init, SlugsUnique, LivePosts, Unborn
<1> QED
    BY <1>1, SlugStep, TypedAlways, PTL DEF Spec

-----------------------------------------------------------------------------
(* What a step does to the requests.                                       *)

LEMMA AfterRespond ==
    ASSUME Typed, NEW r \in Reqs, Respond(r)
    PROVE  ~ Busy(r)' /\ \A s \in Reqs : s # r => req'[s] = req[s]
BY DEF Respond, Busy, Typed

LEMMA AfterGoto ==
    ASSUME Typed, NEW r \in Reqs, Busy(r), NEW label, Goto(r, label)
    PROVE  /\ req'[r].pc = label /\ req'[r].op = req[r].op /\ req'[r].user = req[r].user
           /\ req'[r].comment = req[r].comment /\ req'[r].post = req[r].post
           /\ req'[r].slug = req[r].slug /\ req'[r].title = req[r].title
           /\ req'[r].ids = req[r].ids /\ req'[r].todo = req[r].todo /\ req'[r].n = req[r].n
           /\ \A s \in Reqs : s # r => req'[s] = req[s]
<1> DEFINE q == [req[r] EXCEPT !.pc = label]
<1>1. req[r] \in Request
    BY BusyFields
<1>2. req' = [req EXCEPT ![r] = q]
    BY DEF Goto
<1>3. /\ q.pc = label /\ q.op = req[r].op /\ q.user = req[r].user
      /\ q.comment = req[r].comment /\ q.post = req[r].post
      /\ q.slug = req[r].slug /\ q.title = req[r].title
      /\ q.ids = req[r].ids /\ q.todo = req[r].todo /\ q.n = req[r].n
    BY <1>1 DEF Request
<1> HIDE DEF q
<1> QED
    BY <1>2, <1>3 DEF Typed

LEMMA AfterFound ==
    ASSUME Typed, NEW r \in Reqs, Busy(r), NEW label, NEW p,
           req' = [req EXCEPT ![r].pc = label, ![r].post = p]
    PROVE  /\ req'[r].pc = label /\ req'[r].post = p
           /\ req'[r].op = req[r].op /\ req'[r].user = req[r].user
           /\ req'[r].comment = req[r].comment
           /\ req'[r].slug = req[r].slug /\ req'[r].title = req[r].title
           /\ req'[r].ids = req[r].ids /\ req'[r].todo = req[r].todo /\ req'[r].n = req[r].n
           /\ \A s \in Reqs : s # r => req'[s] = req[s]
<1> DEFINE q == [req[r] EXCEPT !.pc = label, !.post = p]
<1>1. req[r] \in Request
    BY BusyFields
<1>2. req' = [req EXCEPT ![r] = q]
    BY DEF Typed
<1>3. /\ q.pc = label /\ q.op = req[r].op /\ q.user = req[r].user
      /\ q.comment = req[r].comment /\ q.post = p
      /\ q.slug = req[r].slug /\ q.title = req[r].title
      /\ q.ids = req[r].ids /\ q.todo = req[r].todo /\ q.n = req[r].n
    BY <1>1 DEF Request
<1> HIDE DEF q
<1> QED
    BY <1>2, <1>3 DEF Typed

LEMMA AfterLoadKeeps ==
    ASSUME Typed, NEW r \in Reqs, Busy(r), NEW p,
           req' = [req EXCEPT ![r].pc = "savePost", ![r].post = p, ![r].title = NoTitle]
    PROVE  /\ req'[r].pc = "savePost" /\ req'[r].post = p /\ req'[r].title = NoTitle
           /\ req'[r].op = req[r].op /\ req'[r].user = req[r].user
           /\ req'[r].comment = req[r].comment
           /\ req'[r].slug = req[r].slug /\ req'[r].n = req[r].n
           /\ \A s \in Reqs : s # r => req'[s] = req[s]
<1> DEFINE q == [req[r] EXCEPT !.pc = "savePost", !.post = p, !.title = NoTitle]
<1>1. req[r] \in Request
    BY BusyFields
<1>2. req' = [req EXCEPT ![r] = q]
    BY DEF Typed
<1>3. /\ q.pc = "savePost" /\ q.op = req[r].op /\ q.user = req[r].user
      /\ q.comment = req[r].comment /\ q.post = p /\ q.title = NoTitle
      /\ q.slug = req[r].slug /\ q.n = req[r].n
    BY <1>1 DEF Request
<1> HIDE DEF q
<1> QED
    BY <1>2, <1>3 DEF Typed

LEMMA AfterProbe ==
    ASSUME Typed, NEW r \in Reqs, Busy(r), req' = [req EXCEPT ![r].n = @ + 1]
    PROVE  /\ req'[r].n = req[r].n + 1 /\ req'[r].pc = req[r].pc
           /\ req'[r].post = req[r].post /\ req'[r].title = req[r].title
           /\ req'[r].op = req[r].op /\ req'[r].user = req[r].user
           /\ req'[r].comment = req[r].comment /\ req'[r].slug = req[r].slug
           /\ \A s \in Reqs : s # r => req'[s] = req[s]
<1> DEFINE q == [req[r] EXCEPT !.n = req[r].n + 1]
<1>1. req[r] \in Request
    BY BusyFields
<1>2. req' = [req EXCEPT ![r] = q]
    OBVIOUS
<1>3. /\ q.n = req[r].n + 1 /\ q.pc = req[r].pc /\ q.op = req[r].op /\ q.user = req[r].user
      /\ q.comment = req[r].comment /\ q.post = req[r].post
      /\ q.slug = req[r].slug /\ q.title = req[r].title
    BY <1>1 DEF Request
<1> HIDE DEF q
<1> QED
    BY <1>2, <1>3 DEF Typed

LEMMA AfterNextPost ==
    ASSUME Typed, NEW r \in Reqs, Busy(r), NEW s, NEW t,
           req' = [req EXCEPT ![r].pc = "findPost", ![r].slug = s, ![r].todo = t]
    PROVE  /\ req'[r].pc = "findPost" /\ req'[r].slug = s /\ req'[r].todo = t
           /\ req'[r].op = req[r].op /\ req'[r].user = req[r].user
           /\ req'[r].comment = req[r].comment /\ req'[r].post = req[r].post
           /\ req'[r].title = req[r].title /\ req'[r].n = req[r].n
           /\ \A x \in Reqs : x # r => req'[x] = req[x]
<1> DEFINE q == [req[r] EXCEPT !.pc = "findPost", !.slug = s, !.todo = t]
<1>1. req[r] \in Request
    BY BusyFields
<1>2. req' = [req EXCEPT ![r] = q]
    BY DEF Typed
<1>3. /\ q.pc = "findPost" /\ q.op = req[r].op /\ q.user = req[r].user
      /\ q.comment = req[r].comment /\ q.slug = s /\ q.todo = t /\ q.post = req[r].post
      /\ q.title = req[r].title /\ q.n = req[r].n
    BY <1>1 DEF Request
<1> HIDE DEF q
<1> QED
    BY <1>2, <1>3 DEF Typed

LEMMA AfterFindSubtree ==
    ASSUME Typed, NEW r \in Reqs, FindSubtree(r)
    PROVE  /\ req'[r].pc = "deleteSubtree" /\ req'[r].ids = Subtree(req[r].comment)
           /\ req'[r].op = req[r].op /\ req'[r].user = req[r].user
           /\ req'[r].comment = req[r].comment /\ req'[r].post = req[r].post
           /\ req'[r].title = req[r].title /\ req'[r].n = req[r].n
           /\ \A s \in Reqs : s # r => req'[s] = req[s]
<1> DEFINE q == [req[r] EXCEPT !.pc = "deleteSubtree", !.ids = Subtree(req[r].comment)]
<1>1. req[r] \in Request
    BY BusyFields DEF FindSubtree, At
<1>2. req' = [req EXCEPT ![r] = q]
    BY DEF Typed, FindSubtree
<1>3. /\ q.pc = "deleteSubtree" /\ q.op = req[r].op /\ q.user = req[r].user
      /\ q.comment = req[r].comment /\ q.ids = Subtree(req[r].comment)
      /\ q.post = req[r].post /\ q.title = req[r].title /\ q.n = req[r].n
    BY <1>1 DEF Request
<1> HIDE DEF q
<1> QED
    BY <1>2, <1>3 DEF Typed

LEMMA AfterArrive ==
    ASSUME Typed, NEW r \in Reqs, NEW u, NEW op, NEW label, NEW slug, NEW comment, NEW title,
           Arrive(r, u, op, label, slug, comment, title)
    PROVE  /\ ~ Busy(r) /\ op \in Ops
           /\ req'[r].pc = label /\ req'[r].op = op /\ req'[r].user = u
           /\ req'[r].slug = slug /\ req'[r].comment = comment /\ req'[r].title = title
           /\ req'[r].n = 1 /\ req'[r].post = None
           /\ \A s \in Reqs : s # r => req'[s] = req[s]
           /\ UNCHANGED storeVars
<1> DEFINE q == [op |-> op, pc |-> label, user |-> u, slug |-> slug, n |-> 1, post |-> None,
                 comment |-> comment, title |-> title, ids |-> {}, todo |-> <<>>]
<1>1. ~ Busy(r) /\ op \in Ops /\ req' = [req EXCEPT ![r] = q] /\ UNCHANGED storeVars
    BY DEF Arrive
<1>2. /\ q.pc = label /\ q.op = op /\ q.user = u /\ q.slug = slug /\ q.comment = comment
      /\ q.title = title /\ q.n = 1 /\ q.post = None
    OBVIOUS
<1> HIDE DEF q
<1> QED
    BY <1>1, <1>2 DEF Typed

-----------------------------------------------------------------------------
(* Threads. *)

Deep == {"checkDepth", "insertComment"}

\* A request came with a comment that was there then, or is none yet and then
\* past no check.
Arrived(r) ==
    /\ req'[r].comment \in LiveComments \cup {None}
    /\ req'[r].pc \notin Deep
    /\ comments' = comments

\* A request passed the check of its parent, or of its parent's depth, or has
\* no parent.
Passed(r) ==
    /\ comments' = comments
    /\ req'[r].post = req[r].post
    /\ \/ /\ req'[r].pc = "insertComment"
          /\ req[r].comment = None
       \/ /\ req'[r].pc = "checkDepth"
          /\ req[r].comment \in CommentsOn(req[r].post)
       \/ /\ req'[r].pc = "insertComment"
          /\ req[r].comment \in CommentsOn(req[r].post)
          /\ comments[req[r].comment].parent = None
          /\ 1 <= MaxDepth
       \/ /\ req'[r].pc = "insertComment"
          /\ At(r, "checkDepth")
          /\ Depth(req[r].comment) + 1 <= MaxDepth

Same(r) ==
    /\ req'[r].op = req[r].op /\ req'[r].user = req[r].user
    /\ req'[r].comment = req[r].comment

Continued(r) ==
    /\ Busy(r) /\ Same(r)
    /\ req'[r].pc \notin Deep \/ req'[r] = req[r] \/ Passed(r)

LEMMA DepthType ==
    ASSUME Typed, NEW c
    PROVE  Depth(c) \in Nat
<1>1. c \in LiveComments => Cardinality(Ancestors(c)) \in Nat
    <2>1. IsFiniteSet(LiveComments)
        BY IdsAssumption, FS_Subset DEF LiveComments
    <2>2. Ancestors(c) \in SUBSET LiveComments
        BY DEF Ancestors
    <2> QED
        BY <2>1, <2>2, FS_Subset, FS_CardinalityType
<1> QED
    BY <1>1 DEF Depth

LEMMA RepliesMove ==
    ASSUME Typed, NEW r \in Reqs, Step(r), Busy(r)'
    PROVE  Continued(r)
<1>0. ~ Respond(r)
    BY AfterRespond
<1>1. CASE CountComments(r)
    <2>1. Busy(r) /\ comments' = comments
          /\ \/ Goto(r, "insertComment") /\ req[r].comment = None
             \/ Goto(r, "findParent")
        BY <1>0, <1>1 DEF CountComments, At, storeVars
    <2> QED
        BY <2>1, AfterGoto DEF Continued, Same, Passed, Deep
<1>2. CASE FindParent(r)
    <2>1. /\ Busy(r) /\ comments' = comments
          /\ req[r].comment \in CommentsOn(req[r].post)
          /\ \/ Goto(r, "checkDepth")
             \/ /\ Goto(r, "insertComment") /\ comments[req[r].comment].parent = None
                /\ 1 <= MaxDepth
        BY <1>0, <1>2, LimitsAssumption DEF FindParent, At, storeVars
    <2> QED
        BY <2>1, AfterGoto DEF Continued, Same, Passed
<1>3. CASE CheckDepth(r)
    <2>1. /\ Busy(r) /\ comments' = comments /\ At(r, "checkDepth")
          /\ Goto(r, "insertComment") /\ ~ (Depth(req[r].comment) + 1 > MaxDepth)
        BY <1>0, <1>3 DEF CheckDepth, At, storeVars
    <2>2. Depth(req[r].comment) + 1 <= MaxDepth
        BY <2>1, DepthType, LimitsAssumption
    <2> QED
        BY <2>1, <2>2, AfterGoto DEF Continued, Same, Passed
<1>4. CASE ResolvePost(r)
    <2>1. PICK p : req' = [req EXCEPT ![r].pc = AfterResolve(req[r].op), ![r].post = p]
        BY <1>0, <1>4 DEF ResolvePost
    <2>2. Busy(r)
        BY <1>4 DEF ResolvePost, At
    <2>3. req'[r].pc = AfterResolve(req[r].op) /\ Same(r)
        BY <2>1, <2>2, AfterFound DEF Same
    <2>4. AfterResolve(req[r].op) \notin Deep
        BY DEF AfterResolve, Deep
    <2> QED
        BY <2>2, <2>3, <2>4 DEF Continued
<1>5. CASE OwnerOfComment(r) \/ LoadComment(r)
    BY <1>0, <1>5, AfterGoto DEF OwnerOfComment, LoadComment, At, Continued, Same, Deep
<1>6. CASE FindSubtree(r)
    BY <1>6, AfterFindSubtree DEF FindSubtree, At, Continued, Same, Deep
<1>7. CASE CountPosts(r) \/ OwnerOfPost(r) \/ RemovePostLikes(r) \/ RemovePostThread(r)
    BY <1>0, <1>7, AfterGoto
    DEF CountPosts, OwnerOfPost, RemovePostLikes, RemovePostThread, At, Continued, Same, Deep
<1>8. CASE ProbeSlug(r)
    BY <1>8, AfterGoto, AfterProbe DEF ProbeSlug, At, Continued, Same, Deep
<1>9. CASE LoadPost(r)
    <2>1. PICK p : \/ req' = [req EXCEPT ![r].pc = "savePost", ![r].post = p, ![r].title = NoTitle]
                   \/ req' = [req EXCEPT ![r].pc = "probeSlug", ![r].post = p]
        BY <1>0, <1>9 DEF LoadPost
    <2>2. Busy(r)
        BY <1>9 DEF LoadPost, At
    <2>3. req'[r].pc \in {"savePost", "probeSlug"} /\ Same(r)
        <3>1. CASE req' = [req EXCEPT ![r].pc = "savePost", ![r].post = p, ![r].title = NoTitle]
            BY <2>2, <3>1, AfterLoadKeeps DEF Same
        <3>2. CASE req' = [req EXCEPT ![r].pc = "probeSlug", ![r].post = p]
            BY <2>2, <3>2, AfterFound DEF Same
        <3> QED
            BY <2>1, <3>1, <3>2
    <2> QED
        BY <2>2, <2>3 DEF Continued, Deep
<1>10. CASE FindPost(r)
    <2>1. PICK p : req' = [req EXCEPT ![r].pc = "postLikes", ![r].post = p]
        BY <1>0, <1>10 DEF FindPost
    <2>2. Busy(r)
        BY <1>10 DEF FindPost, At
    <2>3. req'[r].pc = "postLikes" /\ Same(r)
        BY <2>1, <2>2, AfterFound DEF Same
    <2> QED
        BY <2>2, <2>3 DEF Continued, Deep
<1>11. CASE DropPost(r)
    <2>1. PICK s, t : \/ Goto(r, "ownComments")
                      \/ req' = [req EXCEPT ![r].pc = "findPost", ![r].slug = s, ![r].todo = t]
        BY <1>0, <1>11 DEF DropPost
    <2>2. Busy(r)
        BY <1>11 DEF DropPost, At
    <2>3. req'[r].pc \in {"ownComments", "findPost"} /\ Same(r)
        <3>1. CASE Goto(r, "ownComments")
            BY <2>2, <3>1, AfterGoto DEF Same
        <3>2. CASE req' = [req EXCEPT ![r].pc = "findPost", ![r].slug = s, ![r].todo = t]
            BY <2>2, <3>2, AfterNextPost DEF Same
        <3> QED
            BY <2>1, <3>1, <3>2
    <2> QED
        BY <2>2, <2>3 DEF Continued, Deep
<1>12. CASE ConfirmRemoval(r) \/ RemoveOwnComments(r) \/ RemoveOwnLikes(r)
    BY <1>0, <1>12, AfterGoto
    DEF ConfirmRemoval, RemoveOwnComments, RemoveOwnLikes, At, Continued, Same, Deep
<1>13. CASE ListOwnPosts(r)
    <2>1. PICK s, t : \/ Goto(r, "ownComments")
                      \/ req' = [req EXCEPT ![r].pc = "findPost", ![r].slug = s, ![r].todo = t]
        BY <1>13 DEF ListOwnPosts
    <2>2. Busy(r)
        BY <1>13 DEF ListOwnPosts, At
    <2>3. req'[r].pc \in {"ownComments", "findPost"} /\ Same(r)
        <3>1. CASE Goto(r, "ownComments")
            BY <2>2, <3>1, AfterGoto DEF Same
        <3>2. CASE req' = [req EXCEPT ![r].pc = "findPost", ![r].slug = s, ![r].todo = t]
            BY <2>2, <3>2, AfterNextPost DEF Same
        <3> QED
            BY <2>1, <3>1, <3>2
    <2> QED
        BY <2>2, <2>3 DEF Continued, Deep
<1>14. CASE \/ InsertPost(r) \/ SavePost(r) \/ InsertComment(r) \/ SaveComment(r)
            \/ DeleteSubtree(r) \/ WriteLike(r) \/ DropAccount(r)
    BY <1>0, <1>14
    DEF InsertPost, SavePost, InsertComment, SaveComment, DeleteSubtree, WriteLike, DropAccount
<1> QED
    BY <1>1, <1>2, <1>3, <1>4, <1>5, <1>6, <1>7, <1>8, <1>9, <1>10, <1>11, <1>12, <1>13, <1>14
    DEF Step, PostStep, CommentStep, AccountStep

LEMMA ArrivesPlain ==
    ASSUME Typed, NEW r \in Reqs, NEW u, NEW op,
           NEW label \in {"countPosts", "ownPost", "resolvePost", "confirmRemoval"}, NEW slug,
           NEW comment \in LiveComments \cup {None}, NEW title,
           Arrive(r, u, op, label, slug, comment, title)
    PROVE  /\ Arrived(r) /\ UNCHANGED storeVars
           /\ \A s \in Reqs : s # r => req'[s] = req[s]
BY AfterArrive DEF Arrived, Deep, storeVars

LEMMA StartsArrive ==
    ASSUME Typed, NEW r \in Reqs, Start(r)
    PROVE  /\ Arrived(r) /\ UNCHANGED storeVars
           /\ \A s \in Reqs : s # r => req'[s] = req[s]
<1>1. CASE StartCreatePost(r) \/ StartRemoveUser(r)
    BY <1>1, ArrivesPlain DEF StartCreatePost, StartRemoveUser
<1>2. CASE StartPostEdit(r) \/ StartLike(r)
    BY <1>2, ArrivesPlain DEF StartPostEdit, StartLike
<1>3. CASE StartComment(r) \/ StartCommentEdit(r)
    BY <1>3, ArrivesPlain DEF StartComment, StartCommentEdit
<1> QED
    BY <1>1, <1>2, <1>3 DEF Start

LEMMA StepBusy ==
    ASSUME NEW r \in Reqs, Step(r)
    PROVE  Busy(r)
BY DEF Step, PostStep, CommentStep, AccountStep, At, CountPosts, ProbeSlug, InsertPost,
       OwnerOfPost, LoadPost, SavePost, FindPost, RemovePostLikes, RemovePostThread,
       DropPost, ResolvePost, CountComments, FindParent, CheckDepth, InsertComment,
       OwnerOfComment, LoadComment, SaveComment, FindSubtree, DeleteSubtree, WriteLike,
       ConfirmRemoval, ListOwnPosts, RemoveOwnComments, RemoveOwnLikes, DropAccount

LEMMA OthersWait ==
    ASSUME Typed, NEW r \in Reqs, Step(r), NEW s \in Reqs, s # r
    PROVE  req'[s] = req[s]
<1>1. CASE PostStep(r)
    BY <1>1
    DEF PostStep, CountPosts, ProbeSlug, InsertPost, OwnerOfPost, LoadPost, SavePost, FindPost,
        RemovePostLikes, RemovePostThread, DropPost, Goto, Respond, Typed
<1>2. CASE CommentStep(r)
    BY <1>2
    DEF CommentStep, ResolvePost, CountComments, FindParent, CheckDepth, InsertComment,
        OwnerOfComment, LoadComment, SaveComment, FindSubtree, DeleteSubtree, Goto, Respond, Typed
<1>3. CASE AccountStep(r)
    BY <1>3
    DEF AccountStep, WriteLike, ConfirmRemoval, ListOwnPosts, RemoveOwnComments, RemoveOwnLikes,
        DropAccount, Goto, Respond, Typed
<1> QED
    BY <1>1, <1>2, <1>3 DEF Step

LEMMA RequestsMove ==
    ASSUME Typed, [Next]_vars, NEW s \in Reqs, Busy(s)'
    PROVE  Arrived(s) \/ Continued(s)
<1>1. CASE req'[s] = req[s]
    BY <1>1 DEF Continued, Same, Busy
<1>2. CASE UNCHANGED vars
    BY <1>1, <1>2 DEF vars
<1>3. ASSUME NEW r \in Reqs, Start(r) PROVE Arrived(s) \/ Continued(s)
    BY <1>1, <1>3, StartsArrive
<1>4. ASSUME NEW r \in Reqs, Step(r) PROVE Arrived(s) \/ Continued(s)
    BY <1>1, <1>4, OthersWait, RepliesMove
<1>5. CASE Crash
    BY <1>5 DEF Crash, Busy
<1> QED
    BY <1>2, <1>3, <1>4, <1>5 DEF Next

\* A comment, once written, keeps its post, parent and author for as long as it
\* is there, and its id goes to no other.
LEMMA CommentsEvolve ==
    ASSUME Typed, [Next]_vars, NEW c \in CommentIds, comments[c].state # "unborn"
    PROVE  /\ comments'[c].state # "unborn"
           /\ c \in LiveComments' =>
                 /\ c \in LiveComments /\ comments'[c].post = comments[c].post
                 /\ comments'[c].parent = comments[c].parent
                 /\ comments'[c].author = comments[c].author
<1>1. CASE comments' = comments
    BY <1>1 DEF LiveComments
<1>2. ASSUME NEW r \in Reqs, CommentCreated(r)
      PROVE  comments'[c] = comments[c] /\ (c \in LiveComments' => c \in LiveComments)
    BY <1>2 DEF CommentCreated, IsNext, Typed, Stored, LiveComments
<1>3. ASSUME NEW r \in Reqs, CommentRewritten(r)
      PROVE  /\ comments'[c].state # "unborn"
             /\ c \in LiveComments' =>
                   /\ c \in LiveComments /\ comments'[c].post = comments[c].post
                   /\ comments'[c].parent = comments[c].parent
                   /\ comments'[c].author = comments[c].author
    <2> DEFINE e == req[r].comment
    <2>1. PICK d \in Comment :
             /\ comments' = [comments EXCEPT ![e] = d]
             /\ d.author = comments[e].author /\ d.post = comments[e].post
             /\ d.parent = comments[e].parent
        BY <1>3 DEF CommentRewritten
    <2>2. e \in LiveComments
        BY <1>3 DEF CommentRewritten
    <2> HIDE DEF e
    <2>3. CASE c = e
        BY <2>1, <2>2, <2>3 DEF Comment, Typed, Stored
    <2>4. CASE c # e
        BY <2>1, <2>4 DEF Typed, Stored, LiveComments
    <2> QED
        BY <2>3, <2>4
<1>4. CASE SomeDeleted
    BY <1>4 DEF SomeDeleted, Without, Gone, LiveComments
<1> QED
    BY <1>1, <1>2, <1>3, <1>4, HowCommentsChange

\* Nothing refers to an id that has not been given out.
Referred ==
    /\ \A c \in LiveComments :
          comments[c].parent # None => comments[comments[c].parent].state # "unborn"
    /\ \A r \in Reqs : Busy(r) /\ req[r].comment # None =>
          comments[req[r].comment].state # "unborn"

\* A reply about to be written is to a comment of its post, while that exists.
ParentChecked ==
    \A r \in Reqs : Busy(r) /\ req[r].pc \in Deep /\ req[r].comment \in LiveComments =>
        comments[req[r].comment].post = req[r].post

Threads == Referred /\ ParentChecked /\ RepliesStayOnPost

\* A comment that is there after a step was there before or has just been created.
LEMMA NewComment ==
    ASSUME Typed, [Next]_vars, NEW c \in LiveComments', comments[c].state = "unborn"
    PROVE  \E r \in Reqs :
              /\ CommentCreated(r)
              /\ comments'[c].post = req[r].post /\ comments'[c].parent = req[r].comment
              /\ comments'[c].writer = comments'[c].author
              /\ \A e \in CommentIds : e # c => comments'[e] = comments[e]
<1>0. c \in CommentIds /\ comments'[c].state = "live"
    BY DEF LiveComments
<1>1. comments' # comments
    BY <1>0
<1>2. ASSUME NEW r \in Reqs, CommentRewritten(r) PROVE FALSE
    BY <1>0, <1>2 DEF CommentRewritten, Typed, Stored, LiveComments
<1>3. ~ SomeDeleted
    BY <1>0 DEF SomeDeleted, Without, Gone
<1>4. PICK r \in Reqs : CommentCreated(r)
    BY <1>1, <1>2, <1>3, HowCommentsChange
<1>5. PICK e \in CommentIds, d \in Comment :
         /\ comments' = [comments EXCEPT ![e] = d]
         /\ d.writer = d.author /\ d.post = req[r].post /\ d.parent = req[r].comment
    BY <1>4 DEF CommentCreated
<1>6. c = e
    BY <1>0, <1>5 DEF Typed, Stored
<1>7. comments'[c] = d /\ \A x \in CommentIds : x # c => comments'[x] = comments[x]
    BY <1>5, <1>6 DEF Typed, Stored
<1> QED
    BY <1>4, <1>5, <1>7

LEMMA ReferredStep ==
    ASSUME Typed, Referred, [Next]_vars
    PROVE  Referred'
<1>1. \A c \in LiveComments : c \in CommentIds /\ comments[c].parent \in CommentIds \cup {None}
                              /\ comments[c].state # "unborn"
    BY LiveComment DEF Typed, LiveComments
<1>2. \A r \in Reqs : Busy(r) => req[r].comment \in CommentIds \cup {None}
    BY BusyFields
<1>3. ASSUME NEW c \in LiveComments', comments'[c].parent # None
      PROVE  comments'[comments'[c].parent].state # "unborn"
    <2>1. c \in CommentIds
        BY DEF LiveComments
    <2>2. CASE comments[c].state = "unborn"
        <3>1. PICK r \in Reqs : CommentCreated(r) /\ comments'[c].parent = req[r].comment
            BY <2>2, NewComment
        <3>2. Busy(r) /\ req[r].comment \in CommentIds
            BY <1>2, <1>3, <3>1 DEF CommentCreated, At
        <3> QED
            BY <1>3, <3>1, <3>2, CommentsEvolve DEF Referred
    <2>3. CASE comments[c].state # "unborn"
        <3>1. c \in LiveComments /\ comments'[c].parent = comments[c].parent
            BY <2>1, <2>3, CommentsEvolve
        <3> QED
            BY <1>1, <1>3, <3>1, CommentsEvolve DEF Referred
    <2> QED
        BY <2>2, <2>3
<1>4. ASSUME NEW r \in Reqs, Busy(r)', req'[r].comment # None
      PROVE  comments'[req'[r].comment].state # "unborn"
    <2>1. CASE Arrived(r)
        BY <1>1, <1>4, <2>1 DEF Arrived
    <2>2. CASE Continued(r)
        <3>1. Busy(r) /\ req'[r].comment = req[r].comment /\ req[r].comment \in CommentIds
            BY <1>2, <1>4, <2>2 DEF Continued, Same
        <3> QED
            BY <1>4, <3>1, CommentsEvolve DEF Referred
    <2> QED
        BY <1>4, <2>1, <2>2, RequestsMove
<1> QED
    BY <1>3, <1>4 DEF Referred

LEMMA ThreadsStep ==
    ASSUME Typed, Threads, [Next]_vars
    PROVE  Threads'
<1>0. /\ Referred' /\ \A c \in LiveComments : c \in CommentIds /\ comments[c].state # "unborn"
      /\ None \notin LiveComments /\ None \notin LiveComments'
    BY ReferredStep, NoneApart DEF Threads, LiveComments
<1>1. ParentChecked'
    <2> SUFFICES ASSUME NEW r \in Reqs, Busy(r)', req'[r].pc \in Deep,
                        req'[r].comment \in LiveComments'
                 PROVE  comments'[req'[r].comment].post = req'[r].post
        BY DEF ParentChecked
    <2> DEFINE c == req[r].comment
    <2>1. Continued(r)
        BY RequestsMove DEF Arrived
    <2>2. /\ Busy(r) /\ req'[r].comment = c /\ c \in CommentIds /\ c # None
          /\ req'[r] = req[r] \/ Passed(r)
        BY <1>0, <2>1 DEF Continued, Same, LiveComments
    <2>3. c \in LiveComments /\ comments'[c].post = comments[c].post
        BY <2>2, CommentsEvolve DEF Threads, Referred
    <2>4. CASE req'[r] = req[r]
        BY <2>2, <2>3, <2>4 DEF Threads, ParentChecked
    <2>5. CASE Passed(r)
        <3>1. comments[c].post = req[r].post
            BY <2>2, <2>3, <2>5 DEF Passed, CommentsOn, At, Threads, ParentChecked, Deep
        <3> QED
            BY <2>2, <2>3, <2>5, <3>1 DEF Passed
    <2> QED
        BY <2>2, <2>4, <2>5
<1>2. RepliesStayOnPost'
    <2> SUFFICES ASSUME NEW c \in LiveComments', NEW d \in LiveComments', comments'[c].parent = d
                 PROVE  comments'[c].post = comments'[d].post
        BY DEF RepliesStayOnPost
    <2>1. c \in CommentIds /\ d \in CommentIds /\ d # None
        BY <1>0 DEF LiveComments
    <2>2. CASE comments[c].state = "unborn"
        <3>1. PICK r \in Reqs :
                 /\ CommentCreated(r)
                 /\ comments'[c].post = req[r].post /\ comments'[c].parent = req[r].comment
            BY <2>2, NewComment
        <3>2. Busy(r) /\ req[r].pc \in Deep /\ req[r].comment = d
            BY <3>1 DEF CommentCreated, At, Deep
        <3>3. d \in LiveComments /\ comments'[d].post = comments[d].post
            BY <2>1, <3>2, CommentsEvolve DEF Threads, Referred
        <3> QED
            BY <3>1, <3>2, <3>3 DEF Threads, ParentChecked
    <2>3. CASE comments[c].state # "unborn"
        <3>1. /\ c \in LiveComments /\ comments'[c].parent = comments[c].parent
              /\ comments'[c].post = comments[c].post
            BY <2>1, <2>3, CommentsEvolve
        <3>2. d \in LiveComments /\ comments'[d].post = comments[d].post
            BY <2>1, <3>1, CommentsEvolve DEF Threads, Referred
        <3> QED
            BY <3>1, <3>2 DEF Threads, RepliesStayOnPost
    <2> QED
        BY <2>2, <2>3
<1> QED
    BY <1>0, <1>1, <1>2 DEF Threads

LEMMA ThreadsAlways == Spec => []Threads
<1>1. Init => Threads
    BY DEF Init, Threads, Referred, ParentChecked, RepliesStayOnPost, LiveComments, Unborn, Busy
<1> QED
    BY <1>1, ThreadsStep, TypedAlways, PTL DEF Spec

\* A reply hangs off a comment of its own post, though the two are checked and
\* written in different awaits and either may be deleted between them
\* (comment.ts:118-130).
THEOREM RepliesOnPost == Spec => []RepliesStayOnPost
BY ThreadsAlways, PTL DEF Threads

-----------------------------------------------------------------------------
(* The depth of a thread. *)

\* The ancestors are the least set that holds the parents.
LEMMA AncestorsHold ==
    ASSUME NEW c
    PROVE  Ancestors(c) \subseteq LiveComments /\ HoldsParents(Ancestors(c), c)
BY DEF Ancestors, HoldsParents

LEMMA AncestorsLeast ==
    ASSUME NEW c, NEW S \in SUBSET LiveComments, HoldsParents(S, c)
    PROVE  Ancestors(c) \subseteq S
BY DEF Ancestors

LEMMA AncestorsLeastNext ==
    ASSUME NEW c, NEW S \in SUBSET LiveComments',
           \A d \in S \cup {c} :
              comments'[d].parent \in LiveComments' => comments'[d].parent \in S
    PROVE  Ancestors(c)' \subseteq S
BY DEF Ancestors, HoldsParents

LEMMA SomeAncestors ==
    ASSUME NEW c
    PROVE  /\ IsFiniteSet(Ancestors(c)) /\ Cardinality(Ancestors(c)) \in Nat
           /\ IsFiniteSet(Ancestors(c)') /\ Cardinality(Ancestors(c)') \in Nat
<1>1. Ancestors(c) \in SUBSET CommentIds /\ Ancestors(c)' \in SUBSET CommentIds
    BY DEF Ancestors, LiveComments
<1> QED
    BY <1>1, IdsAssumption, FS_Subset, FS_CardinalityType

\* No step gives a comment another ancestor.
LEMMA AncestorsShrink ==
    ASSUME Typed, Threads, [Next]_vars, NEW c \in LiveComments, c \in LiveComments'
    PROVE  Ancestors(c)' \subseteq Ancestors(c)
<1> DEFINE S == Ancestors(c) \cap { d \in CommentIds : comments'[d].state = "live" }
<1>1. S \in SUBSET LiveComments'
    BY DEF LiveComments
<1>2. ASSUME NEW d \in S \cup {c}, comments'[d].parent \in LiveComments'
      PROVE  comments'[d].parent \in S
    <2> DEFINE p == comments[d].parent
    <2>1. d \in LiveComments /\ d \in LiveComments' /\ d \in CommentIds
          /\ comments[d].state # "unborn"
        BY AncestorsHold DEF LiveComments
    <2>2. comments'[d].parent = p
        BY <2>1, CommentsEvolve
    <2>3. p \in CommentIds /\ comments'[p].state = "live" /\ p # None
        BY <1>2, <2>2, NoneApart DEF LiveComments
    <2>4. p \in LiveComments
        BY <1>2, <2>1, <2>2, <2>3, CommentsEvolve DEF Threads, Referred
    <2>5. p \in Ancestors(c)
        BY <2>4, AncestorsHold DEF HoldsParents
    <2> QED
        BY <2>2, <2>3, <2>5
<1> HIDE DEF S
<1>3. Ancestors(c)' \subseteq S
    BY <1>1, <1>2, AncestorsLeastNext
<1> QED
    BY <1>3 DEF S

LEMMA DepthShrinks ==
    ASSUME Typed, Threads, [Next]_vars, NEW c \in LiveComments, c \in LiveComments'
    PROVE  Depth(c)' <= Depth(c) /\ Depth(c)' \in Nat /\ Depth(c) \in Nat
<1>1. Cardinality(Ancestors(c)') <= Cardinality(Ancestors(c))
    BY AncestorsShrink, SomeAncestors, FS_Subset
<1>2. Depth(c)' = Cardinality(Ancestors(c)') /\ Depth(c) = Cardinality(Ancestors(c))
    BY DEF Depth
<1> QED
    BY <1>1, <1>2, SomeAncestors

\* A new comment has its parent and its parent's ancestors.
LEMMA DepthOfNew ==
    ASSUME Typed, Threads, [Next]_vars, NEW c \in LiveComments', comments[c].state = "unborn",
           NEW d, comments'[c].parent = d,
           d \in CommentIds \cup {None}, d # None => comments[d].state # "unborn"
    PROVE  /\ Depth(c)' \in Nat
           /\ d \in LiveComments => Depth(c)' <= Depth(d) + 1
           /\ d \notin LiveComments => Depth(c)' = 0
<1>1. Depth(c)' = Cardinality(Ancestors(c)')
    BY DEF Depth
<1>2. CASE d \notin LiveComments'
    <2>1. Ancestors(c)' = {}
        <3> DEFINE S == {}
        <3>1. /\ S \in SUBSET LiveComments'
              /\ \A e \in S \cup {c} :
                    comments'[e].parent \in LiveComments' => comments'[e].parent \in S
            BY <1>2
        <3> HIDE DEF S
        <3>2. Ancestors(c)' \subseteq S
            BY <3>1, AncestorsLeastNext
        <3> QED
            BY <3>2 DEF S
    <2>2. Depth(c)' = 0
        BY <1>1, <2>1, FS_EmptySet
    <2>3. Depth(d) \in Nat
        BY DepthType
    <2> QED
        BY <2>2, <2>3
<1>3. CASE d \in LiveComments'
    <2>1. d \in CommentIds /\ d # None /\ d \in LiveComments
        BY <1>3, NoneApart, CommentsEvolve DEF LiveComments
    <2> DEFINE S == Ancestors(d)'  \cup {d}
    <2>2. S \in SUBSET LiveComments'
        BY <1>3 DEF Ancestors
    <2>3. \A e \in S \cup {c} :
             comments'[e].parent \in LiveComments' => comments'[e].parent \in S
        BY DEF Ancestors, HoldsParents
    <2>4. Ancestors(c)' \subseteq Ancestors(d) \cup {d}
        <3>1. Ancestors(c)' \subseteq S
            BY <2>2, <2>3, AncestorsLeastNext
        <3> QED
            BY <1>3, <2>1, <3>1, AncestorsShrink
    <2>5. /\ IsFiniteSet(Ancestors(d) \cup {d})
          /\ Cardinality(Ancestors(d) \cup {d}) <= Cardinality(Ancestors(d)) + 1
          /\ Cardinality(Ancestors(d) \cup {d}) \in Nat
        <3>1. IsFiniteSet(Ancestors(d)) /\ Cardinality(Ancestors(d)) \in Nat
            BY SomeAncestors
        <3>2. IsFiniteSet(Ancestors(d) \cup {d})
              /\ Cardinality(Ancestors(d) \cup {d}) =
                    IF d \in Ancestors(d) THEN Cardinality(Ancestors(d))
                    ELSE Cardinality(Ancestors(d)) + 1
            BY <3>1, FS_AddElement
        <3> QED
            BY <3>1, <3>2
    <2>6. Cardinality(Ancestors(c)') <= Cardinality(Ancestors(d) \cup {d})
        BY <2>4, <2>5, FS_Subset
    <2>7. Depth(d) = Cardinality(Ancestors(d))
        BY <2>1 DEF Depth
    <2> QED
        BY <1>1, <2>1, <2>5, <2>6, <2>7, SomeAncestors
<1> QED
    BY <1>2, <1>3

\* A reply about to be written is not too deep, while its parent exists.
DepthChecked ==
    \A r \in Reqs : At(r, "insertComment") /\ req[r].comment \in LiveComments =>
        Depth(req[r].comment) + 1 <= MaxDepth

LEMMA RootDepth ==
    ASSUME NEW c \in LiveComments, comments[c].parent = None
    PROVE  Depth(c) = 0
<1>1. HoldsParents({}, c)
    BY NoneApart DEF HoldsParents, LiveComments
<1>2. Ancestors(c) = {}
    BY <1>1, AncestorsLeast
<1> QED
    BY <1>2, FS_EmptySet DEF Depth

LEMMA DepthStep ==
    ASSUME Typed, Threads, DepthBounded, DepthChecked, [Next]_vars
    PROVE  DepthBounded' /\ DepthChecked'
<1>0. MaxDepth \in Nat
    BY LimitsAssumption
<1>1. DepthBounded'
    <2> SUFFICES ASSUME NEW c \in LiveComments' PROVE Depth(c)' <= MaxDepth
        BY DEF DepthBounded
    <2>0. c \in CommentIds
        BY DEF LiveComments
    <2>1. CASE comments[c].state = "unborn"
        <3>1. PICK r \in Reqs : CommentCreated(r) /\ comments'[c].parent = req[r].comment
            BY <2>1, NewComment
        <3> DEFINE d == req[r].comment
        <3>2. At(r, "insertComment") /\ Busy(r) /\ d \in CommentIds \cup {None}
              /\ (d # None => comments[d].state # "unborn")
            BY <3>1, BusyFields DEF CommentCreated, At, Threads, Referred
        <3> HIDE DEF d
        <3>3. /\ d \in LiveComments => Depth(c)' <= Depth(d) + 1
              /\ d \notin LiveComments => Depth(c)' = 0
              /\ Depth(c)' \in Nat /\ Depth(d) \in Nat
            BY <2>1, <3>1, <3>2, DepthOfNew, DepthType DEF d
        <3>4. d \in LiveComments => Depth(d) + 1 <= MaxDepth
            BY <3>2 DEF DepthChecked, d
        <3> QED
            BY <1>0, <3>3, <3>4
    <2>2. CASE comments[c].state # "unborn"
        <3>1. c \in LiveComments
            BY <2>0, <2>2, CommentsEvolve
        <3>2. Depth(c)' <= Depth(c) /\ Depth(c)' \in Nat /\ Depth(c) \in Nat
            BY <3>1, DepthShrinks
        <3> QED
            BY <1>0, <3>1, <3>2 DEF DepthBounded
    <2> QED
        BY <2>1, <2>2
<1>2. DepthChecked'
    <2> SUFFICES ASSUME NEW r \in Reqs, NEW c \in LiveComments',
                        At(r, "insertComment")', req'[r].comment = c
                 PROVE  Depth(c)' + 1 <= MaxDepth
        BY DEF DepthChecked
    <2>1. Continued(r) /\ req'[r].pc = "insertComment"
        BY RequestsMove DEF Arrived, At, Deep
    <2>2. /\ Busy(r) /\ req[r].comment = c /\ c \in CommentIds /\ c # None
          /\ req'[r] = req[r] \/ Passed(r)
        BY <2>1, NoneApart DEF Continued, Same, LiveComments, Deep
    <2>3. c \in LiveComments /\ c \in LiveComments'
        BY <2>2, CommentsEvolve DEF Threads, Referred
    <2>4. Depth(c)' <= Depth(c) /\ Depth(c)' \in Nat /\ Depth(c) \in Nat
        BY <2>3, DepthShrinks
    <2>5. Depth(c) + 1 <= MaxDepth
        <3>1. CASE req'[r] = req[r]
            BY <2>1, <2>2, <2>3, <3>1 DEF DepthChecked, At
        <3>2. CASE Passed(r)
            <4>1. \/ comments[c].parent = None /\ 1 <= MaxDepth
                  \/ Depth(c) + 1 <= MaxDepth
                BY <2>1, <2>2, <3>2 DEF Passed
            <4> QED
                BY <1>0, <2>3, <4>1, RootDepth
        <3> QED
            BY <2>2, <3>1, <3>2
    <2> QED
        BY <1>0, <2>4, <2>5
<1> QED
    BY <1>1, <1>2

\* Racing replies and deletions never leave a thread deeper than MAX_DEPTH,
\* whatever it is and however many race: parents do not change, so a comment's
\* depth only shrinks between the check and the insert (comment.ts:66-93,
\* 118-140).
THEOREM BoundedDepth == Spec => []DepthBounded
<1>1. Init => DepthBounded /\ DepthChecked
    BY DEF Init, DepthBounded, DepthChecked, LiveComments, Unborn, At, Busy
<1> QED
    BY <1>1, DepthStep, TypedAlways, ThreadsAlways, PTL DEF Spec

-----------------------------------------------------------------------------
(* The cap on the posts of an account. *)

MayPost(u) == { r \in Counted("createPost", {"probeSlug", "insertPost"}) : req[r].user = u }

LEMMA SamePostCardinality == \A u, S : PostCap(u)!Cardinality(S) = Cardinality(S)
BY DEF PostCap!Cardinality, Cardinality

\* The moves of a capped collection.
LEMMA PostAdmit ==
    ASSUME NEW u, NEW r \in Reqs, Cardinality(PostsBy(u)) < MaxPostsPerUser,
           MayPost(u)' = MayPost(u) \cup {r}, PostsBy(u)' = PostsBy(u)
    PROVE  PostCap(u)!Step
<1>1. PostCap(u)!Admit(r)
    BY SamePostCardinality DEF PostCap!Admit, MayPost
<1> QED
    BY <1>1 DEF PostCap!Step, PostCap!Next

LEMMA PostInsert ==
    ASSUME NEW u, NEW r \in MayPost(u), NEW p \in PostIds \ PostsBy(u),
           PostsBy(u)' = PostsBy(u) \cup {p}, MayPost(u)' = MayPost(u) \ {r}
    PROVE  PostCap(u)!Step
<1>1. r \in Reqs
    BY DEF MayPost, Counted
<1>2. PostCap(u)!Insert(r)
    BY DEF PostCap!Insert, MayPost
<1> QED
    BY <1>1, <1>2 DEF PostCap!Step, PostCap!Next

LEMMA PostGiveUp ==
    ASSUME NEW u, NEW R \in SUBSET Reqs, PostsBy(u)' = PostsBy(u), MayPost(u)' = MayPost(u) \ R
    PROVE  PostCap(u)!Step
<1>1. PostCap(u)!GiveUp(R)
    BY DEF PostCap!GiveUp, MayPost
<1> QED
    BY <1>1 DEF PostCap!Step, PostCap!Next

LEMMA PostRemove ==
    ASSUME NEW u, NEW S \in SUBSET PostsBy(u), PostsBy(u)' = PostsBy(u) \ S,
           MayPost(u)' = MayPost(u)
    PROVE  PostCap(u)!Step
<1>1. PostCap(u)!Remove(S)
    BY DEF PostCap!Remove, MayPost
<1> QED
    BY <1>1 DEF PostCap!Step, PostCap!Next

LEMMA PostStutter ==
    ASSUME NEW u, PostsBy(u)' = PostsBy(u), MayPost(u)' = MayPost(u)
    PROVE  PostCap(u)!Step
<1>1. {} \in SUBSET Reqs /\ MayPost(u)' = MayPost(u) \ {}
    OBVIOUS
<1> QED
    BY <1>1, PostGiveUp

\* A request admits or withdraws itself only.
LEMMA MayPostAfter ==
    ASSUME Typed, NEW u, NEW r \in Reqs, \A s \in Reqs : s # r => req'[s] = req[s]
    PROVE  /\ r \in MayPost(u)' => MayPost(u)' = MayPost(u) \cup {r}
           /\ r \notin MayPost(u)' => MayPost(u)' = MayPost(u) \ {r}
BY DEF MayPost, Counted, Busy

LEMMA PostsByAfter ==
    ASSUME Typed, NEW u, NEW p \in PostIds, NEW d \in Post, posts' = [posts EXCEPT ![p] = d]
    PROVE  PostsBy(u)' = IF d.author = u THEN PostsBy(u) \cup {p} ELSE PostsBy(u) \ {p}
<1>1. /\ LivePosts' = LivePosts \cup {p} /\ posts'[p] = d
      /\ \A q \in PostIds : q # p => posts'[q] = posts[q]
    BY PostsAfter
<1> QED
    BY <1>1 DEF PostsBy, LivePosts

\* Steps of requests that create a post.
LEMMA CapCreatePost ==
    ASSUME Typed, NEW u, NEW r \in Reqs, CountPosts(r) \/ ProbeSlug(r) \/ InsertPost(r),
           req[r].op = "createPost"
    PROVE  PostCap(u)!Step
<1>0. /\ Busy(r) /\ \A s \in Reqs : s # r => req'[s] = req[s]
      /\ Respond(r) => r \notin MayPost(u)'
    BY OthersWait, AfterRespond
    DEF CountPosts, ProbeSlug, InsertPost, At, Step, PostStep, MayPost, Counted
<1>1. CASE CountPosts(r)
    <2>1. PostsBy(u)' = PostsBy(u) /\ r \notin MayPost(u)
        BY <1>1 DEF CountPosts, PostsBy, LivePosts, storeVars, MayPost, Counted, At
    <2>2. CASE r \in MayPost(u)'
        <3>1. ~ Respond(r) /\ Goto(r, "probeSlug")
              /\ ~ (Cardinality(PostsBy(req[r].user)) >= MaxPostsPerUser)
            BY <1>0, <1>1, <2>2 DEF CountPosts
        <3>2. req[r].user = u
            BY <1>0, <2>2, <3>1, AfterGoto DEF MayPost
        <3>3. Cardinality(PostsBy(u)) \in Nat
            <4>1. PostsBy(u) \in SUBSET PostIds
                BY DEF PostsBy, LivePosts
            <4> QED
                BY <4>1, IdsAssumption, FS_Subset, FS_CardinalityType
        <3>4. Cardinality(PostsBy(u)) < MaxPostsPerUser
            BY <3>1, <3>2, <3>3, LimitsAssumption
        <3> QED
            BY <1>0, <2>1, <2>2, <3>4, MayPostAfter, PostAdmit
    <2>3. CASE r \notin MayPost(u)'
        <3>1. MayPost(u)' = MayPost(u) \ {r}
            BY <1>0, <2>3, MayPostAfter
        <3> QED
            BY <2>1, <3>1, PostGiveUp
    <2> QED
        BY <2>2, <2>3
<1>2. CASE ProbeSlug(r)
    <2>1. PostsBy(u)' = PostsBy(u)
        BY <1>2 DEF ProbeSlug, PostsBy, LivePosts, storeVars
    <2>2. r \in MayPost(u)' => r \in MayPost(u)
        <3>1. CASE Goto(r, "insertPost")
            BY <1>0, <1>2, <3>1, AfterGoto DEF MayPost, Counted, ProbeSlug, At
        <3>2. CASE req' = [req EXCEPT ![r].n = @ + 1]
            BY <1>0, <1>2, <3>2, AfterProbe DEF MayPost, Counted, ProbeSlug, At
        <3> QED
            BY <1>2, <3>1, <3>2 DEF ProbeSlug
    <2>3. CASE r \in MayPost(u)'
        <3>1. MayPost(u)' = MayPost(u)
            BY <1>0, <2>2, <2>3, MayPostAfter
        <3> QED
            BY <2>1, <3>1, PostStutter
    <2>4. CASE r \notin MayPost(u)'
        <3>1. MayPost(u)' = MayPost(u) \ {r}
            BY <1>0, <2>4, MayPostAfter
        <3> QED
            BY <2>1, <3>1, PostGiveUp
    <2> QED
        BY <2>3, <2>4
<1>3. CASE InsertPost(r)
    <2>1. MayPost(u)' = MayPost(u) \ {r}
        BY <1>0, <1>3, MayPostAfter DEF InsertPost
    <2>2. CASE posts' = posts
        <3>1. PostsBy(u)' = PostsBy(u)
            BY <2>2 DEF PostsBy, LivePosts
        <3> QED
            BY <2>1, <3>1, PostGiveUp
    <2>3. CASE posts' # posts
        <3>1. PICK p \in PostIds, d \in Post :
                 IsNext(posts, p) /\ posts' = [posts EXCEPT ![p] = d] /\ d.author = req[r].user
            BY <1>3, <2>3, InsertsPost
        <3>2. p \notin PostsBy(u)
            BY <3>1 DEF IsNext, PostsBy, LivePosts
        <3>3. PostsBy(u)' = IF d.author = u THEN PostsBy(u) \cup {p} ELSE PostsBy(u) \ {p}
            BY <3>1, PostsByAfter
        <3>4. CASE req[r].user = u
            <4>1. r \in MayPost(u)
                BY <1>0, <1>3, <3>4 DEF MayPost, Counted, InsertPost, At
            <4> QED
                BY <2>1, <3>1, <3>2, <3>3, <3>4, <4>1, PostInsert
        <3>5. CASE req[r].user # u
            <4>1. PostsBy(u)' = PostsBy(u)
                BY <3>1, <3>2, <3>3, <3>5
            <4> QED
                BY <2>1, <4>1, PostGiveUp
        <3> QED
            BY <3>4, <3>5
    <2> QED
        BY <2>2, <2>3
<1> QED
    BY <1>1, <1>2, <1>3

\* Steps of a request that creates no post admit and withdraw none.
LEMMA MayPostKept ==
    ASSUME Typed, NEW u, NEW r \in Reqs, \A s \in Reqs : s # r => req'[s] = req[s],
           Busy(r) => req[r].op # "createPost" \/ req[r].pc = "countPosts",
           Busy(r)' => req'[r].op # "createPost" \/ req'[r].pc = "countPosts"
    PROVE  MayPost(u)' = MayPost(u)
<1>1. r \notin MayPost(u) /\ r \notin MayPost(u)'
    BY DEF MayPost, Counted
<1> QED
    BY <1>1, MayPostAfter

LEMMA StartsCount ==
    ASSUME Typed, NEW r \in Reqs, Start(r), NEW u
    PROVE  MayPost(u)' = MayPost(u)
<1>1. ASSUME NEW a, NEW op, NEW label \in {"countPosts", "ownPost", "resolvePost", "confirmRemoval"},
             NEW slug, NEW comment, NEW title, Arrive(r, a, op, label, slug, comment, title),
             op = "createPost" => label = "countPosts"
      PROVE  MayPost(u)' = MayPost(u)
    BY <1>1, AfterArrive, MayPostKept
<1>2. CASE StartCreatePost(r) \/ StartRemoveUser(r)
    BY <1>1, <1>2 DEF StartCreatePost, StartRemoveUser
<1>3. CASE StartPostEdit(r) \/ StartLike(r)
    BY <1>1, <1>3 DEF StartPostEdit, StartLike
<1>4. CASE StartComment(r) \/ StartCommentEdit(r)
    BY <1>1, <1>4 DEF StartComment, StartCommentEdit
<1> QED
    BY <1>2, <1>3, <1>4 DEF Start

LEMMA PostCapStep ==
    ASSUME Typed, [Next]_vars, NEW u \in UserIds
    PROVE  PostCap(u)!Step
<1>1. CASE UNCHANGED vars
    <2>1. PostsBy(u)' = PostsBy(u) /\ MayPost(u)' = MayPost(u)
        BY <1>1 DEF vars, PostsBy, LivePosts, MayPost, Counted, Busy
    <2> QED
        BY <2>1, PostStutter
<1>2. ASSUME NEW r \in Reqs, Start(r) PROVE PostCap(u)!Step
    <2>1. PostsBy(u)' = PostsBy(u)
        BY <1>2, StartsArrive DEF storeVars, PostsBy, LivePosts
    <2> QED
        BY <1>2, <2>1, StartsCount, PostStutter
<1>3. ASSUME NEW r \in Reqs, Step(r) PROVE PostCap(u)!Step
    <2>1. /\ Busy(r)
          /\ \A s \in Reqs : s # r => req'[s] = req[s]
          /\ Busy(r)' => req'[r].op = req[r].op
        BY <1>3, StepBusy, OthersWait, RepliesMove DEF Continued, Same
    <2>2. CASE req[r].op = "createPost"
        <3>1. CountPosts(r) \/ ProbeSlug(r) \/ InsertPost(r)
            <4>1. req[r].pc \in {"countPosts", "probeSlug", "insertPost"}
                BY <2>1, <2>2, BusyFields DEF Fits
            <4> QED
                BY <1>3, <4>1
                DEF Step, PostStep, CommentStep, AccountStep, At,
                    OwnerOfPost, LoadPost, SavePost, FindPost, RemovePostLikes, RemovePostThread,
                    DropPost, ResolvePost, CountComments, FindParent, CheckDepth, InsertComment,
                    OwnerOfComment, LoadComment, SaveComment, FindSubtree, DeleteSubtree,
                    WriteLike, ConfirmRemoval, ListOwnPosts, RemoveOwnComments, RemoveOwnLikes,
                    DropAccount
        <3> QED
            BY <2>2, <3>1, CapCreatePost
    <2>3. CASE req[r].op # "createPost"
        <3>1. MayPost(u)' = MayPost(u)
            BY <2>1, <2>3, MayPostKept
        <3>2. CASE posts' = posts
            <4>1. PostsBy(u)' = PostsBy(u)
                BY <3>2 DEF PostsBy, LivePosts
            <4> QED
                BY <3>1, <4>1, PostStutter
        <3>3. CASE PostRewritten
            <4>1. PICK p \in LivePosts, d \in Post :
                     posts' = [posts EXCEPT ![p] = d] /\ d.author = posts[p].author
                BY <3>3 DEF PostRewritten
            <4>2. p \in PostIds
                BY <4>1 DEF LivePosts
            <4>3. PostsBy(u)' = IF d.author = u THEN PostsBy(u) \cup {p} ELSE PostsBy(u) \ {p}
                BY <4>1, <4>2, PostsByAfter
            <4>4. PostsBy(u)' = PostsBy(u)
                BY <4>1, <4>3 DEF PostsBy
            <4> QED
                BY <3>1, <4>4, PostStutter
        <3>4. CASE PostDropped
            <4>1. PICK p \in PostIds : posts' = [posts EXCEPT ![p] = Gone]
                BY <3>4 DEF PostDropped
            <4>2. PostsBy(u)' = PostsBy(u) \ (PostsBy(u) \cap {p})
                <5>1. LivePosts' = LivePosts \ {p}
                      /\ \A q \in PostIds : q # p => posts'[q] = posts[q]
                    BY <4>1, PostsWithout
                <5> QED
                    BY <5>1 DEF PostsBy, LivePosts
            <4>3. PostsBy(u) \cap {p} \in SUBSET PostsBy(u)
                OBVIOUS
            <4> QED
                BY <3>1, <4>2, <4>3, PostRemove
        <3>5. ~ InsertPost(r)
            BY <2>1, <2>3, BusyFields, OpsAssumption DEF InsertPost, At, Fits
        <3>6. posts' = posts \/ PostRewritten \/ PostDropped
            <4>1. CASE SavePost(r)
                BY <4>1, SavesPost DEF PostRewritten
            <4>2. CASE DropPost(r)
                <5>1. req[r].post \in PostIds
                    BY <4>2, BusyFields, OpsAssumption DEF DropPost, At, Fits
                <5> QED
                    BY <4>2, <5>1 DEF DropPost, PostDropped
            <4> QED
                BY <1>3, <3>5, <4>1, <4>2
                DEF Step, PostStep, CommentStep, AccountStep, CountPosts, ProbeSlug,
                    OwnerOfPost, LoadPost, FindPost, RemovePostLikes, RemovePostThread,
                    ResolvePost, CountComments, FindParent, CheckDepth, InsertComment,
                    OwnerOfComment, LoadComment, SaveComment, FindSubtree, DeleteSubtree,
                    WriteLike, ConfirmRemoval, ListOwnPosts, RemoveOwnComments, RemoveOwnLikes,
                    DropAccount, storeVars
        <3> QED
            BY <3>2, <3>3, <3>4, <3>6
    <2> QED
        BY <2>2, <2>3
<1>4. CASE Crash
    <2>1. PostsBy(u)' = PostsBy(u) /\ MayPost(u)' = MayPost(u) \ Reqs
        BY <1>4 DEF Crash, PostsBy, LivePosts, storeVars, MayPost, Counted, Busy
    <2> QED
        BY <2>1, PostGiveUp
<1> QED
    BY <1>1, <1>2, <1>3, <1>4 DEF Next

\* Whatever else runs, an account's posts change as a collection does whose
\* creators count before they insert, each account apart from the others
\* (post.ts:182-197).
THEOREM PostsAreCapped == Spec => PostsCapped
<1>1. Init => \A u \in UserIds : PostCap(u)!Init
    BY DEF Init, PostCap!Init, PostsBy, LivePosts, Unborn, Counted, Busy
<1>2. Typed /\ [Next]_vars => [\A u \in UserIds : PostCap(u)!Step]_vars
    BY PostCapStep
<1> QED
    BY <1>1, <1>2, TypedAlways, PTL DEF Spec, PostsCapped

-----------------------------------------------------------------------------
(* The cap on the comments of a post. *)

MayComment(p) ==
    { r \in Counted("createComment", {"findParent", "checkDepth", "insertComment"}) :
        req[r].post = p }

LEMMA SameCommentCardinality == \A p, S : CommentCap(p)!Cardinality(S) = Cardinality(S)
BY DEF CommentCap!Cardinality, Cardinality

LEMMA CommentAdmit ==
    ASSUME NEW p, NEW r \in Reqs, Cardinality(CommentsOn(p)) < MaxCommentsPerPost,
           MayComment(p)' = MayComment(p) \cup {r}, CommentsOn(p)' = CommentsOn(p)
    PROVE  CommentCap(p)!Step
<1>1. CommentCap(p)!Admit(r)
    BY SameCommentCardinality DEF CommentCap!Admit, MayComment
<1> QED
    BY <1>1 DEF CommentCap!Step, CommentCap!Next

LEMMA CommentInsert ==
    ASSUME NEW p, NEW r \in MayComment(p), NEW c \in CommentIds \ CommentsOn(p),
           CommentsOn(p)' = CommentsOn(p) \cup {c}, MayComment(p)' = MayComment(p) \ {r}
    PROVE  CommentCap(p)!Step
<1>1. r \in Reqs
    BY DEF MayComment, Counted
<1>2. CommentCap(p)!Insert(r)
    BY DEF CommentCap!Insert, MayComment
<1> QED
    BY <1>1, <1>2 DEF CommentCap!Step, CommentCap!Next

LEMMA CommentGiveUp ==
    ASSUME NEW p, NEW R \in SUBSET Reqs,
           CommentsOn(p)' = CommentsOn(p), MayComment(p)' = MayComment(p) \ R
    PROVE  CommentCap(p)!Step
<1>1. CommentCap(p)!GiveUp(R)
    BY DEF CommentCap!GiveUp, MayComment
<1> QED
    BY <1>1 DEF CommentCap!Step, CommentCap!Next

LEMMA CommentRemove ==
    ASSUME NEW p, NEW S \in SUBSET CommentsOn(p), CommentsOn(p)' = CommentsOn(p) \ S,
           MayComment(p)' = MayComment(p)
    PROVE  CommentCap(p)!Step
<1>1. CommentCap(p)!Remove(S)
    BY DEF CommentCap!Remove, MayComment
<1> QED
    BY <1>1 DEF CommentCap!Step, CommentCap!Next

LEMMA CommentStutter ==
    ASSUME NEW p, CommentsOn(p)' = CommentsOn(p), MayComment(p)' = MayComment(p)
    PROVE  CommentCap(p)!Step
<1>1. {} \in SUBSET Reqs /\ MayComment(p)' = MayComment(p) \ {}
    OBVIOUS
<1> QED
    BY <1>1, CommentGiveUp

LEMMA MayCommentAfter ==
    ASSUME Typed, NEW p, NEW r \in Reqs, \A s \in Reqs : s # r => req'[s] = req[s]
    PROVE  /\ r \in MayComment(p)' => MayComment(p)' = MayComment(p) \cup {r}
           /\ r \notin MayComment(p)' => MayComment(p)' = MayComment(p) \ {r}
BY DEF MayComment, Counted, Busy

LEMMA MayCommentKept ==
    ASSUME Typed, NEW p, NEW r \in Reqs, \A s \in Reqs : s # r => req'[s] = req[s],
           Busy(r) => req[r].op # "createComment" \/ req[r].pc = "resolvePost",
           Busy(r)' => req'[r].op # "createComment"
                       \/ req'[r].pc \in {"resolvePost", "countComments"}
    PROVE  MayComment(p)' = MayComment(p)
<1>1. r \notin MayComment(p) /\ r \notin MayComment(p)'
    BY DEF MayComment, Counted
<1> QED
    BY <1>1, MayCommentAfter

\* A request that goes on past the count, or stops.
LEMMA CapGoesOn ==
    ASSUME Typed, NEW p, NEW r \in Reqs, \A s \in Reqs : s # r => req'[s] = req[s],
           comments' = comments, r \in MayComment(p)' => r \in MayComment(p)
    PROVE  CommentCap(p)!Step
<1>1. CommentsOn(p)' = CommentsOn(p)
    BY DEF CommentsOn, LiveComments
<1>2. CASE r \in MayComment(p)'
    <2>1. MayComment(p)' = MayComment(p)
        BY <1>2, MayCommentAfter
    <2> QED
        BY <1>1, <2>1, CommentStutter
<1>3. CASE r \notin MayComment(p)'
    <2>1. MayComment(p)' = MayComment(p) \ {r}
        BY <1>3, MayCommentAfter
    <2> QED
        BY <1>1, <2>1, CommentGiveUp
<1> QED
    BY <1>2, <1>3

LEMMA CapCreateComment ==
    ASSUME Typed, NEW p, NEW r \in Reqs, Step(r), req[r].op = "createComment",
           CountComments(r) \/ FindParent(r) \/ CheckDepth(r) \/ InsertComment(r)
    PROVE  CommentCap(p)!Step
<1>0. /\ Busy(r) /\ \A s \in Reqs : s # r => req'[s] = req[s]
      /\ Respond(r) => r \notin MayComment(p)'
    BY StepBusy, OthersWait, AfterRespond DEF MayComment, Counted
<1>1. CASE CountComments(r)
    <2>1. comments' = comments /\ CommentsOn(p)' = CommentsOn(p)
        BY <1>1 DEF CountComments, CommentsOn, LiveComments, storeVars
    <2>2. CASE r \in MayComment(p)'
        <3>1. PICK label : ~ Respond(r) /\ Goto(r, label)
                           /\ ~ (Cardinality(CommentsOn(req[r].post)) >= MaxCommentsPerPost)
            BY <1>0, <1>1, <2>2 DEF CountComments
        <3>2. req[r].post = p
            BY <1>0, <2>2, <3>1, AfterGoto DEF MayComment
        <3>3. Cardinality(CommentsOn(p)) \in Nat
            <4>1. CommentsOn(p) \in SUBSET CommentIds
                BY DEF CommentsOn, LiveComments
            <4> QED
                BY <4>1, IdsAssumption, FS_Subset, FS_CardinalityType
        <3>4. Cardinality(CommentsOn(p)) < MaxCommentsPerPost
            BY <3>1, <3>2, <3>3, LimitsAssumption
        <3>5. MayComment(p)' = MayComment(p) \cup {r}
            BY <1>0, <2>2, MayCommentAfter
        <3> QED
            BY <2>1, <3>4, <3>5, CommentAdmit
    <2>3. CASE r \notin MayComment(p)'
        BY <1>0, <2>1, <2>3, CapGoesOn
    <2> QED
        BY <2>2, <2>3
<1>2. CASE FindParent(r) \/ CheckDepth(r)
    <2>1. comments' = comments /\ req[r].pc \in {"findParent", "checkDepth"}
        BY <1>2 DEF FindParent, CheckDepth, storeVars, At
    <2>2. ASSUME r \in MayComment(p)' PROVE r \in MayComment(p)
        <3>1. PICK label : Goto(r, label)
            BY <1>0, <1>2, <2>2 DEF FindParent, CheckDepth
        <3>2. req[r].post = p
            BY <1>0, <2>2, <3>1, AfterGoto DEF MayComment
        <3> QED
            BY <1>0, <2>1, <3>2 DEF MayComment, Counted
    <2> QED
        BY <1>0, <2>1, <2>2, CapGoesOn
<1>3. CASE InsertComment(r)
    <2>1. MayComment(p)' = MayComment(p) \ {r}
        BY <1>0, <1>3, MayCommentAfter DEF InsertComment
    <2>2. PICK c \in CommentIds, d \in Comment :
             /\ IsNext(comments, c) /\ comments' = [comments EXCEPT ![c] = d]
             /\ d.post = req[r].post
        BY <1>3, InsertsComment
    <2>3. c \notin LiveComments /\ d.state = "live"
        BY <2>2 DEF IsNext, LiveComments, Comment
    <2>4. comments'[c] = d /\ \A e \in CommentIds : e # c => comments'[e] = comments[e]
        BY <2>2 DEF Typed, Stored
    <2>5. CommentsOn(p)' = IF req[r].post = p THEN CommentsOn(p) \cup {c} ELSE CommentsOn(p)
        BY <2>2, <2>3, <2>4 DEF CommentsOn, LiveComments
    <2>6. CASE req[r].post = p
        <3>1. r \in MayComment(p) /\ c \notin CommentsOn(p)
            BY <1>0, <1>3, <2>3, <2>6 DEF MayComment, Counted, InsertComment, At, CommentsOn
        <3> QED
            BY <2>1, <2>5, <2>6, <3>1, CommentInsert
    <2>7. CASE req[r].post # p
        BY <2>1, <2>5, <2>7, CommentGiveUp
    <2> QED
        BY <2>6, <2>7
<1> QED
    BY <1>1, <1>2, <1>3

LEMMA StartsComment ==
    ASSUME Typed, NEW r \in Reqs, Start(r), NEW p
    PROVE  MayComment(p)' = MayComment(p)
<1>1. ASSUME NEW a, NEW op, NEW label \in {"countPosts", "ownPost", "resolvePost", "confirmRemoval"},
             NEW slug, NEW comment, NEW title, Arrive(r, a, op, label, slug, comment, title),
             op = "createComment" => label = "resolvePost"
      PROVE  MayComment(p)' = MayComment(p)
    BY <1>1, AfterArrive, MayCommentKept
<1>2. CASE StartCreatePost(r) \/ StartRemoveUser(r)
    BY <1>1, <1>2 DEF StartCreatePost, StartRemoveUser
<1>3. CASE StartPostEdit(r) \/ StartLike(r)
    BY <1>1, <1>3 DEF StartPostEdit, StartLike
<1>4. CASE StartComment(r) \/ StartCommentEdit(r)
    BY <1>1, <1>4 DEF StartComment, StartCommentEdit
<1> QED
    BY <1>2, <1>3, <1>4 DEF Start

LEMMA CommentCapStep ==
    ASSUME Typed, [Next]_vars, NEW p \in PostIds
    PROVE  CommentCap(p)!Step
<1>1. CASE UNCHANGED vars
    <2>1. CommentsOn(p)' = CommentsOn(p) /\ MayComment(p)' = MayComment(p)
        BY <1>1 DEF vars, CommentsOn, LiveComments, MayComment, Counted, Busy
    <2> QED
        BY <2>1, CommentStutter
<1>2. ASSUME NEW r \in Reqs, Start(r) PROVE CommentCap(p)!Step
    <2>1. CommentsOn(p)' = CommentsOn(p)
        BY <1>2, StartsArrive DEF storeVars, CommentsOn, LiveComments
    <2> QED
        BY <1>2, <2>1, StartsComment, CommentStutter
<1>3. ASSUME NEW r \in Reqs, Step(r) PROVE CommentCap(p)!Step
    <2>1. /\ Busy(r)
          /\ \A s \in Reqs : s # r => req'[s] = req[s]
          /\ Busy(r)' => req'[r].op = req[r].op
        BY <1>3, StepBusy, OthersWait, RepliesMove DEF Continued, Same
    <2>2. CASE req[r].op = "createComment"
        <3>1. req[r].pc \in {"resolvePost", "countComments", "findParent", "checkDepth",
                             "insertComment"}
            BY <2>1, <2>2, BusyFields DEF Fits
        <3>2. ResolvePost(r) \/ CountComments(r) \/ FindParent(r) \/ CheckDepth(r)
              \/ InsertComment(r)
            BY <1>3, <3>1
            DEF Step, PostStep, CommentStep, AccountStep, At, CountPosts, ProbeSlug, InsertPost,
                OwnerOfPost, LoadPost, SavePost, FindPost, RemovePostLikes, RemovePostThread,
                DropPost, OwnerOfComment, LoadComment, SaveComment, FindSubtree, DeleteSubtree,
                WriteLike, ConfirmRemoval, ListOwnPosts, RemoveOwnComments, RemoveOwnLikes,
                DropAccount
        <3>3. CASE ResolvePost(r)
            <4>1. Busy(r)' => req'[r].pc = "countComments"
                <5>1. CASE Respond(r)
                    BY <5>1, AfterRespond
                <5>2. ASSUME NEW q, req' = [req EXCEPT ![r].pc = AfterResolve(req[r].op),
                                                       ![r].post = q]
                      PROVE  req'[r].pc = "countComments"
                    <6>1. AfterResolve(req[r].op) = "countComments"
                        BY <2>2 DEF AfterResolve
                    <6> QED
                        BY <2>1, <5>2, <6>1, AfterFound
                <5> QED
                    BY <3>3, <5>1, <5>2 DEF ResolvePost
            <4>2. req[r].pc = "resolvePost" /\ CommentsOn(p)' = CommentsOn(p)
                BY <3>3 DEF ResolvePost, At, storeVars, CommentsOn, LiveComments
            <4>3. MayComment(p)' = MayComment(p)
                BY <2>1, <4>1, <4>2, MayCommentKept
            <4> QED
                BY <4>2, <4>3, CommentStutter
        <3> QED
            BY <1>3, <2>2, <3>2, <3>3, CapCreateComment
    <2>3. CASE req[r].op # "createComment"
        <3>1. MayComment(p)' = MayComment(p)
            BY <2>1, <2>3, MayCommentKept
        <3>2. CASE comments' = comments
            <4>1. CommentsOn(p)' = CommentsOn(p)
                BY <3>2 DEF CommentsOn, LiveComments
            <4> QED
                BY <3>1, <4>1, CommentStutter
        <3>3. CASE CommentRewritten(r)
            <4>1. PICK c \in LiveComments, d \in Comment :
                     comments' = [comments EXCEPT ![c] = d] /\ d.post = comments[c].post
                BY <3>3 DEF CommentRewritten
            <4>2. d.state = "live" /\ c \in CommentIds /\ comments'[c] = d
                  /\ \A e \in CommentIds : e # c => comments'[e] = comments[e]
                BY <4>1 DEF LiveComments, Comment, Typed, Stored
            <4>3. CommentsOn(p)' = CommentsOn(p)
                BY <4>1, <4>2 DEF CommentsOn, LiveComments
            <4> QED
                BY <3>1, <4>3, CommentStutter
        <3>4. CASE SomeDeleted
            <4>1. PICK S : comments' = Without(S)
                BY <3>4 DEF SomeDeleted
            <4>2. CommentsOn(p)' = CommentsOn(p) \ (CommentsOn(p) \cap S)
                BY <4>1 DEF Without, CommentsOn, LiveComments, Gone
            <4>3. CommentsOn(p) \cap S \in SUBSET CommentsOn(p)
                OBVIOUS
            <4> QED
                BY <3>1, <4>2, <4>3, CommentRemove
        <3>5. ~ InsertComment(r)
            BY <2>1, <2>3, BusyFields, OpsAssumption DEF InsertComment, At, Fits
        <3>6. comments' = comments \/ CommentRewritten(r) \/ SomeDeleted
            <4>1. CASE SaveComment(r)
                <5>1. At(r, "saveComment") /\ req[r].op = "updateComment"
                    BY <4>1, BusyFields, OpsAssumption DEF SaveComment, At, Fits
                <5> QED
                    BY <4>1, <5>1, SavesComment DEF CommentRewritten
            <4>2. CASE RemovePostThread(r) \/ DeleteSubtree(r) \/ RemoveOwnComments(r)
                BY <4>2 DEF RemovePostThread, DeleteSubtree, RemoveOwnComments, SomeDeleted
            <4> QED
                BY <1>3, <3>5, <4>1, <4>2
                DEF Step, PostStep, CommentStep, AccountStep, CountPosts, ProbeSlug, InsertPost,
                    OwnerOfPost, LoadPost, SavePost, FindPost, RemovePostLikes, DropPost,
                    ResolvePost, CountComments, FindParent, CheckDepth,
                    OwnerOfComment, LoadComment, FindSubtree,
                    WriteLike, ConfirmRemoval, ListOwnPosts, RemoveOwnLikes,
                    DropAccount, storeVars
        <3> QED
            BY <3>2, <3>3, <3>4, <3>6
    <2> QED
        BY <2>2, <2>3
<1>4. CASE Crash
    <2>1. CommentsOn(p)' = CommentsOn(p) /\ MayComment(p)' = MayComment(p) \ Reqs
        BY <1>4 DEF Crash, CommentsOn, LiveComments, storeVars, MayComment, Counted, Busy
    <2> QED
        BY <2>1, CommentGiveUp
<1> QED
    BY <1>1, <1>2, <1>3, <1>4 DEF Next

\* Whatever else runs, the comments on a post change as a collection does whose
\* creators count before they insert, also when whole threads are deleted
\* between the two (comment.ts:110-147).
THEOREM CommentsAreCapped == Spec => CommentsCapped
<1>1. Init => \A p \in PostIds : CommentCap(p)!Init
    BY DEF Init, CommentCap!Init, CommentsOn, LiveComments, Unborn, Counted, Busy
<1>2. Typed /\ [Next]_vars => [\A p \in PostIds : CommentCap(p)!Step]_vars
    BY CommentCapStep
<1> QED
    BY <1>1, <1>2, TypedAlways, PTL DEF Spec, CommentsCapped

-----------------------------------------------------------------------------
(* The overshoots: documents and requests past the check hold a slot each. *)

Slots(items, admitted, limit) ==
    Cardinality(items) + Cardinality(admitted) <= limit + Cardinality(Reqs) - 1

\* A request is admitted below the limit, or turns its admission into a document,
\* or slots become free.
SlotsMove(items, admitted, i, a, limit) ==
    \/ Cardinality(items) < limit /\ i = items
    \/ /\ \E d : d \notin items /\ i = items \cup {d}
       /\ \E r \in admitted : a = admitted \ {r}
    \/ i \subseteq items /\ a \subseteq admitted

LEMMA ReqSizes ==
    \A S \in SUBSET Reqs :
        /\ IsFiniteSet(S) /\ Cardinality(S) \in Nat /\ Cardinality(Reqs) \in Nat
        /\ Cardinality(S) <= Cardinality(Reqs)
BY ReqsAssumption, FS_Subset, FS_CardinalityType

LEMMA NoSlots ==
    ASSUME NEW limit \in Nat
    PROVE  Slots({}, {}, limit)
<1>1. Cardinality({}) = 0
    BY FS_EmptySet
<1>2. Cardinality(Reqs) \in Nat /\ Cardinality(Reqs) # 0
    BY ReqsAssumption, FS_EmptySet, FS_CardinalityType
<1> QED
    BY <1>1, <1>2 DEF Slots

LEMMA SlotsKept ==
    ASSUME NEW limit \in Nat,
           NEW items, IsFiniteSet(items), NEW admitted \in SUBSET Reqs,
           NEW i, IsFiniteSet(i), NEW a \in SUBSET Reqs,
           Slots(items, admitted, limit), SlotsMove(items, admitted, i, a, limit)
    PROVE  Slots(i, a, limit)
<1> DEFINE n == Cardinality(items)
           k == Cardinality(admitted)
           m == Cardinality(i)
           l == Cardinality(a)
           N == Cardinality(Reqs)
<1>1. n \in Nat /\ k \in Nat /\ m \in Nat /\ l \in Nat /\ N \in Nat /\ l <= N
    BY ReqSizes, FS_CardinalityType
<1>2. n + k <= limit + N - 1
    BY DEF Slots
<1>3. CASE n < limit /\ i = items
    <2>1. m = n
        BY <1>3
    <2> HIDE DEF n, k, m, l, N
    <2>2. m + l <= limit + N - 1
        BY <1>1, <1>3, <2>1
    <2> QED
        BY <2>2 DEF Slots, m, l, N
<1>4. CASE /\ \E d : d \notin items /\ i = items \cup {d}
           /\ \E r \in admitted : a = admitted \ {r}
    <2>1. PICK r \in admitted : a = admitted \ {r}
        BY <1>4
    <2>2. PICK d : d \notin items /\ i = items \cup {d}
        BY <1>4
    <2>3. m = n + 1
        BY <2>2, FS_AddElement
    <2>4. l = k - 1
        BY <2>1, ReqSizes, FS_RemoveElement
    <2> HIDE DEF n, k, m, l, N
    <2>5. m + l <= limit + N - 1
        BY <1>1, <1>2, <2>3, <2>4
    <2> QED
        BY <2>5 DEF Slots, m, l, N
<1>5. CASE i \subseteq items /\ a \subseteq admitted
    <2>1. m <= n /\ l <= k
        BY <1>5, ReqSizes, FS_Subset
    <2> HIDE DEF n, k, m, l, N
    <2>2. m + l <= limit + N - 1
        BY <1>1, <1>2, <2>1
    <2> QED
        BY <2>2 DEF Slots, m, l, N
<1> QED
    BY <1>3, <1>4, <1>5 DEF SlotsMove

LEMMA PostSlotsMove ==
    ASSUME NEW u, PostCap(u)!Step
    PROVE  SlotsMove(PostsBy(u), MayPost(u), PostsBy(u)', MayPost(u)', MaxPostsPerUser)
<1>1. CASE UNCHANGED PostCap(u)!cappedVars
    BY <1>1 DEF SlotsMove, PostCap!cappedVars, MayPost
<1>2. ASSUME NEW r \in Reqs, PostCap(u)!Admit(r)
      PROVE  SlotsMove(PostsBy(u), MayPost(u), PostsBy(u)', MayPost(u)', MaxPostsPerUser)
    BY <1>2, SamePostCardinality DEF SlotsMove, PostCap!Admit, MayPost
<1>3. ASSUME NEW r \in Reqs, PostCap(u)!Insert(r)
      PROVE  SlotsMove(PostsBy(u), MayPost(u), PostsBy(u)', MayPost(u)', MaxPostsPerUser)
    BY <1>3 DEF SlotsMove, PostCap!Insert, MayPost
<1>4. ASSUME NEW R \in SUBSET Reqs, PostCap(u)!GiveUp(R)
      PROVE  SlotsMove(PostsBy(u), MayPost(u), PostsBy(u)', MayPost(u)', MaxPostsPerUser)
    BY <1>4 DEF SlotsMove, PostCap!GiveUp, MayPost
<1>5. ASSUME NEW S \in SUBSET PostsBy(u), PostCap(u)!Remove(S)
      PROVE  SlotsMove(PostsBy(u), MayPost(u), PostsBy(u)', MayPost(u)', MaxPostsPerUser)
    BY <1>5 DEF SlotsMove, PostCap!Remove, MayPost
<1> QED
    BY <1>1, <1>2, <1>3, <1>4, <1>5 DEF PostCap!Step, PostCap!Next

LEMMA CommentSlotsMove ==
    ASSUME NEW p, CommentCap(p)!Step
    PROVE  SlotsMove(CommentsOn(p), MayComment(p), CommentsOn(p)', MayComment(p)',
                     MaxCommentsPerPost)
<1> DEFINE Move == SlotsMove(CommentsOn(p), MayComment(p), CommentsOn(p)', MayComment(p)',
                             MaxCommentsPerPost)
<1>1. CASE UNCHANGED CommentCap(p)!cappedVars
    BY <1>1 DEF SlotsMove, CommentCap!cappedVars, MayComment
<1>2. ASSUME NEW r \in Reqs, CommentCap(p)!Admit(r) PROVE Move
    BY <1>2, SameCommentCardinality DEF SlotsMove, CommentCap!Admit, MayComment
<1>3. ASSUME NEW r \in Reqs, CommentCap(p)!Insert(r) PROVE Move
    BY <1>3 DEF SlotsMove, CommentCap!Insert, MayComment
<1>4. ASSUME NEW R \in SUBSET Reqs, CommentCap(p)!GiveUp(R) PROVE Move
    BY <1>4 DEF SlotsMove, CommentCap!GiveUp, MayComment
<1>5. ASSUME NEW S \in SUBSET CommentsOn(p), CommentCap(p)!Remove(S) PROVE Move
    BY <1>5 DEF SlotsMove, CommentCap!Remove, MayComment
<1> QED
    BY <1>1, <1>2, <1>3, <1>4, <1>5 DEF CommentCap!Step, CommentCap!Next

\* An account's posts pass the cap by at most the other requests in flight, each of
\* which may have counted before any of them inserted (post.ts:182-197).
PostsOvershoot ==
    \A u \in UserIds : Cardinality(PostsBy(u)) <= MaxPostsPerUser + Cardinality(Reqs) - 1

\* A post's comments pass the cap by at most the other requests in flight, however
\* long a reply looks for its parent between the count and the insert
\* (comment.ts:110-147).
CommentsOvershoot ==
    \A p \in PostIds : Cardinality(CommentsOn(p)) <= MaxCommentsPerPost + Cardinality(Reqs) - 1

PostSlots == \A u \in UserIds : Slots(PostsBy(u), MayPost(u), MaxPostsPerUser)

CommentSlots == \A p \in PostIds : Slots(CommentsOn(p), MayComment(p), MaxCommentsPerPost)

Sized ==
    /\ \A u : IsFiniteSet(PostsBy(u)) /\ MayPost(u) \in SUBSET Reqs
    /\ \A p : IsFiniteSet(CommentsOn(p)) /\ MayComment(p) \in SUBSET Reqs

LEMMA CollectionsFinite == Sized /\ Sized'
<1>1. Sized
    <2>1. \A u : PostsBy(u) \subseteq PostIds /\ MayPost(u) \in SUBSET Reqs
        BY DEF PostsBy, LivePosts, MayPost, Counted
    <2>2. \A p : CommentsOn(p) \subseteq CommentIds /\ MayComment(p) \in SUBSET Reqs
        BY DEF CommentsOn, LiveComments, MayComment, Counted
    <2> QED
        BY <2>1, <2>2, IdsAssumption, FS_Subset DEF Sized
<1> QED
    BY <1>1, PTL

LEMMA SlotsBoundItems ==
    ASSUME NEW items, IsFiniteSet(items), NEW admitted \in SUBSET Reqs, NEW limit \in Nat,
           Slots(items, admitted, limit)
    PROVE  Cardinality(items) <= limit + Cardinality(Reqs) - 1
<1> DEFINE n == Cardinality(items)
           k == Cardinality(admitted)
           N == Cardinality(Reqs)
<1>1. n \in Nat /\ k \in Nat /\ N \in Nat
    BY ReqSizes, FS_CardinalityType
<1>2. n + k <= limit + N - 1
    BY DEF Slots
<1> HIDE DEF n, k, N
<1>3. n <= limit + N - 1
    BY <1>1, <1>2
<1> QED
    BY <1>3 DEF n, N

LEMMA PostSlotsAlways == Spec => []PostSlots
<1>1. Init => PostSlots
    <2>1. Init => \A u \in UserIds : PostsBy(u) = {} /\ MayPost(u) = {}
        BY DEF Init, PostsBy, LivePosts, Unborn, MayPost, Counted, Busy
    <2> QED
        BY <2>1, NoSlots, LimitsAssumption DEF PostSlots
<1>2. Typed /\ PostSlots /\ [Next]_vars => PostSlots'
    <2> SUFFICES ASSUME Typed, PostSlots, [Next]_vars, NEW u \in UserIds
                 PROVE  Slots(PostsBy(u)', MayPost(u)', MaxPostsPerUser)
        BY DEF PostSlots, Slots
    <2>1. /\ IsFiniteSet(PostsBy(u)) /\ MayPost(u) \in SUBSET Reqs
          /\ IsFiniteSet(PostsBy(u)') /\ MayPost(u)' \in SUBSET Reqs
        BY CollectionsFinite DEF Sized
    <2>2. SlotsMove(PostsBy(u), MayPost(u), PostsBy(u)', MayPost(u)', MaxPostsPerUser)
        BY PostCapStep, PostSlotsMove
    <2>3. Slots(PostsBy(u), MayPost(u), MaxPostsPerUser)
        BY DEF PostSlots
    <2> QED
        BY <2>1, <2>2, <2>3, SlotsKept, LimitsAssumption
<1> QED
    BY <1>1, <1>2, TypedAlways, PTL DEF Spec

\* The requests that passed the count and the posts of their account never need more
\* places than the limit and one for every other request (post.ts:182-197).
THEOREM PostSlotsHold == Spec => []PostSlotsBounded
<1>1. PostSlots => PostSlotsBounded
    BY SamePostCardinality
    DEF PostSlots, Slots, PostSlotsBounded, PostCap!SlotsBounded, MayPost
<1> QED
    BY <1>1, PostSlotsAlways, PTL

\* An account never has more than MaxPostsPerUser posts and one more for every other
\* request that may be in flight: racing creates pass the count together, but a slot is
\* free again only when a request ends or a post goes (post.ts:182-197).
THEOREM PostsOvershootBounded == Spec => []PostsOvershoot
<1>1. PostSlots => PostsOvershoot
    BY CollectionsFinite, SlotsBoundItems, LimitsAssumption DEF Sized, PostSlots, PostsOvershoot
<1> QED
    BY <1>1, PostSlotsAlways, PTL

\* A post never has more than MaxCommentsPerPost comments and one more for every other
\* request that may be in flight, also when threads are deleted or the post goes between
\* a count and its insert (comment.ts:110-147).
THEOREM CommentsOvershootBounded == Spec => []CommentsOvershoot
<1>1. Init => CommentSlots
    <2>1. Init => \A p \in PostIds : CommentsOn(p) = {} /\ MayComment(p) = {}
        BY DEF Init, CommentsOn, LiveComments, Unborn, MayComment, Counted, Busy
    <2> QED
        BY <2>1, NoSlots, LimitsAssumption DEF CommentSlots
<1>2. Typed /\ CommentSlots /\ [Next]_vars => CommentSlots'
    <2> SUFFICES ASSUME Typed, CommentSlots, [Next]_vars, NEW p \in PostIds
                 PROVE  Slots(CommentsOn(p)', MayComment(p)', MaxCommentsPerPost)
        BY DEF CommentSlots, Slots
    <2>1. /\ IsFiniteSet(CommentsOn(p)) /\ MayComment(p) \in SUBSET Reqs
          /\ IsFiniteSet(CommentsOn(p)') /\ MayComment(p)' \in SUBSET Reqs
        BY CollectionsFinite DEF Sized
    <2>2. SlotsMove(CommentsOn(p), MayComment(p), CommentsOn(p)', MayComment(p)',
                    MaxCommentsPerPost)
        BY CommentCapStep, CommentSlotsMove
    <2>3. Slots(CommentsOn(p), MayComment(p), MaxCommentsPerPost)
        BY DEF CommentSlots
    <2> QED
        BY <2>1, <2>2, <2>3, SlotsKept, LimitsAssumption
<1>3. CommentSlots => CommentsOvershoot
    BY CollectionsFinite, SlotsBoundItems, LimitsAssumption DEF Sized, CommentSlots, CommentsOvershoot
<1> QED
    BY <1>1, <1>2, <1>3, TypedAlways, PTL DEF Spec

-----------------------------------------------------------------------------
(* Where each document of the next state comes from.                       *)

\* The steps that write.
Writes(r) ==
    \/ InsertPost(r) \/ SavePost(r) \/ DropPost(r)
    \/ InsertComment(r) \/ SaveComment(r)
    \/ RemovePostThread(r) \/ DeleteSubtree(r) \/ RemoveOwnComments(r)
    \/ WriteLike(r) \/ RemovePostLikes(r) \/ RemoveOwnLikes(r) \/ DropAccount(r)

LEMMA WhoWrites ==
    ASSUME [Next]_vars
    PROVE  UNCHANGED storeVars \/ \E r \in Reqs : Step(r) /\ Writes(r)
<1>1. ASSUME NEW r \in Reqs, Start(r) PROVE UNCHANGED storeVars
    BY <1>1 DEF Start, StartCreatePost, StartPostEdit, StartLike, StartComment,
       StartCommentEdit, StartRemoveUser, Arrive
<1>2. ASSUME NEW r \in Reqs, Step(r) PROVE UNCHANGED storeVars \/ Writes(r)
    BY <1>2
    DEF Step, PostStep, CommentStep, AccountStep, CountPosts, ProbeSlug, OwnerOfPost, LoadPost,
        FindPost, ResolvePost, CountComments, FindParent, CheckDepth, OwnerOfComment,
        LoadComment, FindSubtree, ConfirmRemoval, ListOwnPosts, Writes
<1> QED
    BY <1>1, <1>2 DEF Next, Crash, vars, storeVars

LEMMA PostOrigin ==
    ASSUME Typed, [Next]_vars, NEW p \in LivePosts'
    PROVE  \/ p \in LivePosts /\ posts'[p] = posts[p]
           \/ \E r \in Reqs :
                 /\ InsertPost(r) /\ p \in PostIds \ LivePosts
                 /\ posts'[p].author = req[r].user /\ posts'[p].writer = req[r].user
                 /\ posts'[p].title = req[r].title /\ posts'[p].slug = Cand(r)
           \/ \E r \in Reqs :
                 LET moved == req[r].title # NoTitle /\ Cand(r) # req[r].slug IN
                 /\ SavePost(r) /\ p = req[r].post /\ p \in LivePosts
                 /\ posts'[p].author = posts[p].author /\ posts'[p].writer = req[r].user
                 /\ posts'[p].title = IF req[r].title = NoTitle THEN posts[p].title
                                      ELSE req[r].title
                 /\ posts'[p].slug = IF moved THEN Cand(r) ELSE posts[p].slug
<1>1. CASE posts' = posts
    BY <1>1 DEF LivePosts
<1>2. ASSUME NEW r \in Reqs, InsertPost(r), posts' # posts
      PROVE  \/ p \in LivePosts /\ posts'[p] = posts[p]
             \/ /\ p \in PostIds \ LivePosts
                /\ posts'[p].author = req[r].user /\ posts'[p].writer = req[r].user
                /\ posts'[p].title = req[r].title /\ posts'[p].slug = Cand(r)
    <2>1. PICK i \in PostIds, d \in Post :
             /\ IsNext(posts, i) /\ posts' = [posts EXCEPT ![i] = d]
             /\ d.author = req[r].user /\ d.writer = req[r].user
             /\ d.title = req[r].title /\ d.slug = Cand(r)
        BY <1>2, InsertsPost
    <2>2. i \notin LivePosts
        BY <2>1 DEF IsNext, LivePosts
    <2>3. /\ LivePosts' = LivePosts \cup {i} /\ posts'[i] = d
          /\ \A q \in PostIds : q # i => posts'[q] = posts[q]
        BY <2>1, PostsAfter
    <2>4. p \in PostIds
        BY DEF LivePosts
    <2> QED
        BY <2>1, <2>2, <2>3, <2>4
<1>3. ASSUME NEW r \in Reqs, SavePost(r), posts' # posts
      PROVE  \/ p \in LivePosts /\ posts'[p] = posts[p]
             \/ LET moved == req[r].title # NoTitle /\ Cand(r) # req[r].slug IN
                /\ p = req[r].post /\ p \in LivePosts
                /\ posts'[p].author = posts[p].author /\ posts'[p].writer = req[r].user
                /\ posts'[p].title = IF req[r].title = NoTitle THEN posts[p].title
                                     ELSE req[r].title
                /\ posts'[p].slug = IF moved THEN Cand(r) ELSE posts[p].slug
    <2> DEFINE moved == req[r].title # NoTitle /\ Cand(r) # req[r].slug
    <2>1. PICK i \in LivePosts, d \in Post :
             /\ i = req[r].post /\ posts' = [posts EXCEPT ![i] = d]
             /\ d.author = posts[i].author /\ d.writer = req[r].user
             /\ d.title = IF req[r].title = NoTitle THEN posts[i].title ELSE req[r].title
             /\ d.slug = IF moved THEN Cand(r) ELSE posts[i].slug
        BY <1>3, SavesPost
    <2>2. i \in PostIds /\ p \in PostIds
        BY DEF LivePosts
    <2>3. /\ LivePosts' = LivePosts \cup {i} /\ posts'[i] = d
          /\ \A q \in PostIds : q # i => posts'[q] = posts[q]
        BY <2>1, <2>2, PostsAfter
    <2> QED
        BY <2>1, <2>2, <2>3
<1>4. ASSUME NEW r \in Reqs, Step(r), DropPost(r) PROVE p \in LivePosts /\ posts'[p] = posts[p]
    <2>1. req[r].post \in PostIds /\ posts' = [posts EXCEPT ![req[r].post] = Gone]
        BY <1>4, BusyFields, OpsAssumption DEF DropPost, At, Fits
    <2> QED
        BY <2>1, PostsWithout DEF LivePosts
<1>5. \/ posts' = posts
      \/ \E r \in Reqs : Step(r) /\ (InsertPost(r) \/ SavePost(r) \/ DropPost(r))
    BY WhoWrites
    DEF Writes, InsertComment, SaveComment, RemovePostThread, DeleteSubtree, RemoveOwnComments,
        WriteLike, RemovePostLikes, RemoveOwnLikes, DropAccount, storeVars
<1> QED
    BY <1>1, <1>2, <1>3, <1>4, <1>5

LEMMA PostLost ==
    ASSUME Typed, [Next]_vars, NEW p \in LivePosts, p \notin LivePosts'
    PROVE  \E r \in Reqs :
              DropPost(r) /\ p = req[r].post /\ UNCHANGED <<users, comments, likes>>
<1>1. posts' # posts
    BY DEF LivePosts
<1>2. ASSUME NEW r \in Reqs, InsertPost(r) PROVE FALSE
    BY <1>1, <1>2, InsertsPost, PostsAfter
<1>3. ASSUME NEW r \in Reqs, SavePost(r) PROVE FALSE
    <2>1. PICK i \in LivePosts, d \in Post : posts' = [posts EXCEPT ![i] = d]
        BY <1>1, <1>3, SavesPost
    <2> QED
        BY <2>1, PostsAfter DEF LivePosts
<1>4. ASSUME NEW r \in Reqs, DropPost(r)
      PROVE  p = req[r].post /\ UNCHANGED <<users, comments, likes>>
    <2>1. req[r].post \in PostIds /\ posts' = [posts EXCEPT ![req[r].post] = Gone]
        BY <1>4, BusyFields, OpsAssumption DEF DropPost, At, Fits
    <2> QED
        BY <1>4, <2>1, PostsWithout DEF DropPost
<1> QED
    BY <1>1, <1>2, <1>3, <1>4, WhoWrites
    DEF Writes, InsertComment, SaveComment, RemovePostThread, DeleteSubtree, RemoveOwnComments,
        WriteLike, RemovePostLikes, RemoveOwnLikes, DropAccount, storeVars

LEMMA CommentOrigin ==
    ASSUME Typed, [Next]_vars, NEW c \in LiveComments'
    PROVE  \/ c \in LiveComments /\ comments'[c] = comments[c]
           \/ \E r \in Reqs :
                 /\ At(r, "insertComment")
                 /\ comments'[c].author = req[r].user /\ comments'[c].writer = req[r].user
                 /\ comments'[c].post = req[r].post
                 /\ UNCHANGED <<users, posts, likes>>
           \/ \E r \in Reqs :
                 /\ At(r, "saveComment") /\ c = req[r].comment /\ c \in LiveComments
                 /\ comments'[c].author = comments[c].author
                 /\ comments'[c].writer = req[r].user
                 /\ comments'[c].post = comments[c].post
                 /\ UNCHANGED <<users, posts, likes>>
<1>0. c \in CommentIds /\ comments'[c].state = "live"
    BY DEF LiveComments
<1>1. CASE comments' = comments
    BY <1>1 DEF LiveComments
<1>2. ASSUME NEW r \in Reqs, InsertComment(r)
      PROVE  \/ c \in LiveComments /\ comments'[c] = comments[c]
             \/ /\ At(r, "insertComment")
                /\ comments'[c].author = req[r].user /\ comments'[c].writer = req[r].user
                /\ comments'[c].post = req[r].post
                /\ UNCHANGED <<users, posts, likes>>
    <2>1. PICK i \in CommentIds, d \in Comment :
             /\ comments' = [comments EXCEPT ![i] = d]
             /\ d.author = req[r].user /\ d.writer = req[r].user /\ d.post = req[r].post
        BY <1>2, InsertsComment
    <2>2. CASE c = i
        <3>1. comments'[c] = d
            BY <2>1, <2>2 DEF Typed, Stored
        <3> QED
            BY <1>2, <2>1, <3>1 DEF InsertComment
    <2>3. CASE c # i
        BY <1>0, <2>1, <2>3 DEF Typed, Stored, LiveComments
    <2> QED
        BY <2>2, <2>3
<1>3. ASSUME NEW r \in Reqs, SaveComment(r), comments' # comments
      PROVE  \/ c \in LiveComments /\ comments'[c] = comments[c]
             \/ /\ At(r, "saveComment") /\ c = req[r].comment /\ c \in LiveComments
                /\ comments'[c].author = comments[c].author
                /\ comments'[c].writer = req[r].user
                /\ comments'[c].post = comments[c].post
                /\ UNCHANGED <<users, posts, likes>>
    <2>1. PICK i \in LiveComments, d \in Comment :
             /\ i = req[r].comment
             /\ comments' = [comments EXCEPT ![i] = d]
             /\ d.author = comments[i].author /\ d.writer = req[r].user
             /\ d.post = comments[i].post
        BY <1>3, SavesComment
    <2>2. CASE c = i
        <3>1. comments'[c] = d
            BY <1>0, <2>1, <2>2 DEF Typed, Stored
        <3> QED
            BY <1>3, <2>1, <2>2, <3>1 DEF SaveComment
    <2>3. CASE c # i
        BY <1>0, <2>1, <2>3 DEF Typed, Stored, LiveComments
    <2> QED
        BY <2>2, <2>3
<1>4. ASSUME NEW r \in Reqs, RemovePostThread(r) \/ DeleteSubtree(r) \/ RemoveOwnComments(r)
      PROVE  c \in LiveComments /\ comments'[c] = comments[c]
    <2>1. PICK S : comments' = Without(S)
        BY <1>4 DEF RemovePostThread, DeleteSubtree, RemoveOwnComments
    <2> QED
        BY <1>0, <2>1 DEF Without, Gone, LiveComments
<1>5. \/ comments' = comments
      \/ \E r \in Reqs : \/ InsertComment(r) \/ SaveComment(r)
                         \/ RemovePostThread(r) \/ DeleteSubtree(r) \/ RemoveOwnComments(r)
    BY WhoWrites
    DEF Writes, InsertPost, SavePost, DropPost, WriteLike, RemovePostLikes, RemoveOwnLikes,
        DropAccount, storeVars
<1> QED
    BY <1>1, <1>2, <1>3, <1>4, <1>5

LEMMA LikeOrigin ==
    ASSUME [Next]_vars, NEW l \in likes', l \notin likes
    PROVE  \E r \in Reqs :
              /\ At(r, "writeLike") /\ l = <<req[r].user, req[r].post>>
              /\ UNCHANGED <<users, posts, comments>>
BY WhoWrites
DEF Writes, InsertPost, SavePost, DropPost, InsertComment, SaveComment, RemovePostThread,
    DeleteSubtree, RemoveOwnComments, WriteLike, RemovePostLikes, RemoveOwnLikes, DropAccount,
    storeVars

LEMMA AccountsOnlyGo ==
    ASSUME [Next]_vars
    PROVE  \/ users' = users
           \/ \E r \in Reqs : /\ At(r, "dropAccount") /\ users' = users \ {req[r].user}
                              /\ UNCHANGED <<posts, comments, likes>>
BY WhoWrites
DEF Writes, InsertPost, SavePost, DropPost, InsertComment, SaveComment, RemovePostThread,
    DeleteSubtree, RemoveOwnComments, WriteLike, RemovePostLikes, RemoveOwnLikes, DropAccount,
    storeVars

-----------------------------------------------------------------------------
(* Sequences of slugs, and subtrees. *)

LEMMA HeadOrTail ==
    ASSUME NEW S, NEW s \in Seq(S), s # <<>>, NEW x \in Range(s)
    PROVE  x \in {Head(s)} \cup Range(Tail(s))
<1>1. PICK i \in 1 .. Len(s) : x = s[i]
    BY DEF Range
<1>2. CASE i = 1
    BY <1>1, <1>2
<1>3. CASE i # 1
    <2>1. i - 1 \in 1 .. Len(Tail(s)) /\ Tail(s)[i - 1] = x
        BY <1>1, <1>3
    <2>2. Tail(s) \in Seq(S) /\ DOMAIN Tail(s) = 1 .. Len(Tail(s))
        OBVIOUS
    <2> QED
        BY <2>1, <2>2 DEF Range
<1> QED
    BY <1>2, <1>3

\* userService.remove lists every post of the account.
LEMMA OwnSlugsCover ==
    ASSUME Stored, NEW S \in SUBSET LivePosts, NEW own \in SetToSeqs(S), NEW p \in S
    PROVE  posts[p].slug \in Range([i \in DOMAIN own |-> posts[own[i]].slug])
<1>1. /\ IsFiniteSet(S) /\ Cardinality(S) \in Nat
      /\ Cardinality(1 .. Cardinality(S)) = Cardinality(S)
    <2>1. IsFiniteSet(S)
        BY LivePost, IdsAssumption, FS_Subset
    <2> QED
        BY <2>1, FS_CardinalityType, FS_Interval
<1>2. PICK n \in Nat : n = Cardinality(S)
    BY <1>1
<1>3. own \in [1 .. n -> S] /\ \A i, j \in 1 .. n : i # j => own[i] # own[j]
    BY <1>2 DEF SetToSeqs
<1>4. own \in Injection(1 .. n, S)
    BY <1>3 DEF Injection, IsInjective
<1>5. own \in Surjection(1 .. n, S)
    BY <1>1, <1>2, <1>4, FS_Injection
<1>6. PICK i \in 1 .. n : own[i] = p
    BY <1>5 DEF Surjection
<1> QED
    BY <1>3, <1>6 DEF Range

\* A reply to a comment of the subtree is in the subtree.
LEMMA SubtreeClosed ==
    ASSUME NEW c, NEW d \in LiveComments, comments[d].parent \in LiveComments,
           comments[d].parent \in Subtree(c), c \in LiveComments
    PROVE  d \in Subtree(c)
<1> DEFINE p == comments[d].parent
<1>1. p \in Ancestors(d)
    BY AncestorsHold DEF HoldsParents
<1>2. CASE p = c
    BY <1>1, <1>2 DEF Subtree
<1>3. CASE c \in Ancestors(p)
    <2>1. HoldsParents(Ancestors(d), p) /\ Ancestors(d) \in SUBSET LiveComments
        BY <1>1, AncestorsHold DEF HoldsParents
    <2>2. c \in Ancestors(d)
        BY <1>3, <2>1 DEF Ancestors
    <2> QED
        BY <2>2 DEF Subtree
<1> QED
    BY <1>2, <1>3 DEF Subtree

-----------------------------------------------------------------------------
(* Requests as they overlap.  What the record says of a step.              *)

Recorded ==
    /\ \A x \in slipped : Busy(x[1])' /\ x[2] \in LivePosts' => x \in slipped'
    /\ \A r \in Reqs, p \in GotSlug :
          /\ Busy(r)' /\ posts'[p].slug \in Wanted(r)
          /\ posts'[p].author # req[r].user
          => <<r, p>> \in slipped'
    /\ crossed \cap LivePosts' \subseteq crossed'
    /\ \A p \in LivePosts \cap LivePosts' :
          (\E r \in Reqs : Renaming(r, p)') /\ p \notin crossed'
             => posts'[p].slug = posts[p].slug /\ posts'[p].title = posts[p].title
    /\ \A p \in LivePosts' :
          /\ p \in unlisted \/ p \in GotSlug
          /\ RemovalPast(posts'[p].author, AfterList)
          /\ RemovalPast(posts[p].author, AfterList)'
          => p \in unlisted'

RecordedComments ==
    /\ \A x \in lateComments : x[2] \in LiveComments' => x \in lateComments'
    /\ \A c \in LiveComments' \ LiveComments :
          /\ ThreadSwept(comments'[c].post) => <<"post", c>> \in lateComments'
          /\ Collected(comments'[c].parent) => <<"parent", c>> \in lateComments'
          /\ RemovalPast(comments'[c].author, {"ownLikes", "dropAccount"}) =>
                <<"account", c>> \in lateComments'

RecordedLikes ==
    /\ \A x \in lateLikes : x[2] \in likes' => x \in lateLikes'
    /\ \A l \in likes' \ likes :
          /\ LikesSwept(l[2]) => <<"post", l>> \in lateLikes'
          /\ RemovalPast(l[1], {"dropAccount"}) => <<"account", l>> \in lateLikes'

LEMMA RecordHolds ==
    ASSUME [HNext]_allVars
    PROVE  [Next]_vars /\ Recorded
<1>1. CASE HNext
    <2>1. Next /\ RecordSlipped /\ RecordCrossed /\ RecordUnlisted
        BY <1>1 DEF HNext, Record
    <2>2. \A x \in slipped : Busy(x[1])' /\ x[2] \in LivePosts' => x \in slipped'
        BY <2>1 DEF RecordSlipped
    <2>3. ASSUME NEW r \in Reqs, NEW p \in GotSlug, Busy(r)', posts'[p].slug \in Wanted(r),
                 posts'[p].author # req[r].user
          PROVE  <<r, p>> \in slipped'
        <3>1. p \in LivePosts'
            BY DEF GotSlug
        <3> QED
            BY <2>1, <2>3, <3>1 DEF RecordSlipped
    <2>4. crossed \cap LivePosts' \subseteq crossed'
        BY <2>1 DEF RecordCrossed
    <2>5. ASSUME NEW p \in LivePosts \cap LivePosts', NEW r \in Reqs, Renaming(r, p)', p \notin crossed'
          PROVE  posts'[p].slug = posts[p].slug /\ posts'[p].title = posts[p].title
        BY <2>1, <2>5 DEF RecordCrossed
    <2>6. ASSUME NEW p \in LivePosts', p \in unlisted \/ p \in GotSlug,
                 RemovalPast(posts'[p].author, AfterList),
                 RemovalPast(posts[p].author, AfterList)'
          PROVE  p \in unlisted'
        BY <2>1, <2>6 DEF RecordUnlisted
    <2> QED
        BY <2>1, <2>2, <2>3, <2>4, <2>5, <2>6 DEF Recorded
<1>2. CASE UNCHANGED allVars
    <2>1. /\ UNCHANGED vars /\ posts' = posts /\ LivePosts' = LivePosts /\ GotSlug = {}
          /\ slipped' = slipped /\ crossed' = crossed /\ unlisted' = unlisted
        BY <1>2 DEF allVars, historyVars, vars, LivePosts, GotSlug
    <2> QED
        BY <2>1 DEF Recorded
<1> QED
    BY <1>1, <1>2

LEMMA RecordHoldsLate ==
    ASSUME [HNext]_allVars
    PROVE  RecordedComments /\ RecordedLikes
<1>1. CASE HNext
    <2>1. RecordComments /\ RecordLikes
        BY <1>1 DEF HNext, Record
    <2>2. \A x \in lateComments : x[2] \in LiveComments' => x \in lateComments'
        BY <2>1 DEF RecordComments
    <2>3. ASSUME NEW c \in LiveComments' \ LiveComments, NEW why \in {"post", "parent", "account"},
                 \/ why = "post" /\ ThreadSwept(comments'[c].post)
                 \/ why = "parent" /\ Collected(comments'[c].parent)
                 \/ /\ why = "account"
                    /\ RemovalPast(comments'[c].author, {"ownLikes", "dropAccount"})
          PROVE  <<why, c>> \in lateComments'
        BY <2>1, <2>3 DEF RecordComments
    <2>4. \A x \in lateLikes : x[2] \in likes' => x \in lateLikes'
        BY <2>1 DEF RecordLikes
    <2>5. ASSUME NEW l \in likes' \ likes, NEW why \in {"post", "account"},
                 \/ why = "post" /\ LikesSwept(l[2])
                 \/ why = "account" /\ RemovalPast(l[1], {"dropAccount"})
          PROVE  <<why, l>> \in lateLikes'
        BY <2>1, <2>5 DEF RecordLikes
    <2> QED
        BY <2>2, <2>3, <2>4, <2>5 DEF RecordedComments, RecordedLikes
<1>2. CASE UNCHANGED allVars
    BY <1>2 DEF allVars, historyVars, vars, LiveComments, RecordedComments, RecordedLikes
<1> QED
    BY <1>1, <1>2

\* The history hides nothing: what was proved of the server holds here too.
LEMMA HistoryImplements == HSpec => Spec
<1>1. HInit => Init
    BY DEF HInit
<1>2. [HNext]_allVars => [Next]_vars
    BY RecordHolds
<1> QED
    BY <1>1, <1>2, PTL DEF HSpec, Spec

\* In the next state a request that is under way waited, came in or moved.
LEMMA Waits ==
    ASSUME Typed, [Next]_vars, NEW s \in Reqs, Busy(s)'
    PROVE  \/ req'[s] = req[s] /\ Busy(s)
           \/ Start(s)
           \/ Step(s) /\ Busy(s)
<1>1. CASE UNCHANGED vars
    BY <1>1 DEF vars, Busy
<1>2. ASSUME NEW r \in Reqs, Start(r), r # s PROVE req'[s] = req[s] /\ Busy(s)
    BY <1>2, StartsArrive DEF Busy
<1>3. ASSUME NEW r \in Reqs, Step(r), r # s PROVE req'[s] = req[s] /\ Busy(s)
    BY <1>3, OthersWait DEF Busy
<1>4. CASE Crash
    BY <1>4 DEF Crash, Busy
<1> QED
    BY <1>1, <1>2, <1>3, <1>4, StepBusy DEF Next

\* Where requests come in, and the awaits that move to none of those below.
Doors == {"countPosts", "ownPost", "resolvePost", "confirmRemoval"}
Elsewhere == {"countComments", "ownComment", "writeLike", "findParent", "checkDepth",
              "insertComment", "loadComment", "saveComment", "findSubtree", "listPosts"}

LEMMA StartsAtDoor ==
    ASSUME Typed, NEW r \in Reqs, Start(r)
    PROVE  /\ req'[r].pc \in Doors /\ UNCHANGED storeVars
           /\ \A s \in Reqs : s # r => req'[s] = req[s]
<1>1. ASSUME NEW u, NEW op, NEW label \in Doors, NEW slug, NEW comment, NEW title,
             Arrive(r, u, op, label, slug, comment, title)
      PROVE  req'[r].pc \in Doors
    BY <1>1, AfterArrive
<1>2. CASE StartCreatePost(r) \/ StartRemoveUser(r)
    BY <1>1, <1>2, StartsArrive DEF StartCreatePost, StartRemoveUser, Doors
<1>3. CASE StartPostEdit(r) \/ StartLike(r)
    BY <1>1, <1>3, StartsArrive, AfterArrive DEF StartPostEdit, StartLike, Doors
<1>4. CASE StartComment(r) \/ StartCommentEdit(r)
    <2>1. "resolvePost" \in Doors
        BY DEF Doors
    <2>2. PICK u, op, slug, comment : Arrive(r, u, op, "resolvePost", slug, comment, NoTitle)
        BY <1>4 DEF StartComment, StartCommentEdit
    <2>3. req'[r].pc = "resolvePost"
        BY <2>2, AfterArrive
    <2> QED
        BY <2>1, <2>3, StartsArrive
<1> QED
    BY <1>2, <1>3, <1>4 DEF Start

\* Which step brings a request to which await.
LEMMA StepsTo ==
    ASSUME Typed, NEW r \in Reqs, Step(r), Busy(r)'
    PROVE  \/ req'[r].pc \in Elsewhere
           \/ req'[r].pc = "probeSlug" /\ req'[r].op = "createPost"
           \/ ProbeSlug(r) /\ req'[r].pc \in {"probeSlug", "insertPost", "savePost"}
           \/ OwnerOfPost(r) /\ req'[r].pc \in {"loadPost", "findPost"}
           \/ LoadPost(r) /\ req'[r].pc \in {"probeSlug", "savePost"}
           \/ FindPost(r) /\ req'[r].pc = "postLikes"
           \/ RemovePostLikes(r) /\ req'[r].pc = "postThread"
           \/ RemovePostThread(r) /\ req'[r].pc = "dropPost"
           \/ DropPost(r) /\ req'[r].pc \in {"findPost", "ownComments"}
           \/ ListOwnPosts(r) /\ req'[r].pc \in {"findPost", "ownComments"}
           \/ RemoveOwnComments(r) /\ req'[r].pc = "ownLikes"
           \/ RemoveOwnLikes(r) /\ req'[r].pc = "dropAccount"
           \/ FindSubtree(r) /\ req'[r].pc = "deleteSubtree"
<1>0. ~ Respond(r) /\ Busy(r)
    BY AfterRespond, StepBusy
<1>1. CASE CountPosts(r)
    <2>1. Goto(r, "probeSlug") /\ req[r].op = "createPost"
        BY <1>0, <1>1, BusyFields, OpsAssumption DEF CountPosts, At, Fits
    <2> QED
        BY <1>0, <2>1, AfterGoto
<1>2. CASE OwnerOfPost(r)
    BY <1>0, <1>2, AfterGoto DEF OwnerOfPost
<1>3. CASE ProbeSlug(r)
    <2>1. req[r].pc = "probeSlug"
        BY <1>3 DEF ProbeSlug, At
    <2>2. CASE req' = [req EXCEPT ![r].n = @ + 1]
        BY <1>0, <1>3, <2>1, <2>2, AfterProbe
    <2>3. CASE Goto(r, "insertPost") \/ Goto(r, "savePost")
        BY <1>0, <1>3, <2>3, AfterGoto
    <2> QED
        BY <1>3, <2>2, <2>3 DEF ProbeSlug
<1>4. CASE LoadPost(r)
    <2>1. PICK p : \/ req' = [req EXCEPT ![r].pc = "savePost", ![r].post = p, ![r].title = NoTitle]
                   \/ req' = [req EXCEPT ![r].pc = "probeSlug", ![r].post = p]
        BY <1>0, <1>4 DEF LoadPost
    <2>2. CASE req' = [req EXCEPT ![r].pc = "savePost", ![r].post = p, ![r].title = NoTitle]
        BY <1>0, <1>4, <2>2, AfterLoadKeeps
    <2>3. CASE req' = [req EXCEPT ![r].pc = "probeSlug", ![r].post = p]
        BY <1>0, <1>4, <2>3, AfterFound
    <2> QED
        BY <2>1, <2>2, <2>3
<1>5. CASE FindPost(r)
    <2>1. PICK p : req' = [req EXCEPT ![r].pc = "postLikes", ![r].post = p]
        BY <1>0, <1>5 DEF FindPost
    <2> QED
        BY <1>0, <1>5, <2>1, AfterFound
<1>6. CASE RemovePostLikes(r) \/ RemovePostThread(r)
    BY <1>0, <1>6, AfterGoto DEF RemovePostLikes, RemovePostThread
<1>7. CASE DropPost(r) \/ ListOwnPosts(r)
    <2>1. PICK s, t : \/ Goto(r, "ownComments")
                      \/ req' = [req EXCEPT ![r].pc = "findPost", ![r].slug = s, ![r].todo = t]
        BY <1>0, <1>7 DEF DropPost, ListOwnPosts
    <2>2. CASE Goto(r, "ownComments")
        BY <1>0, <1>7, <2>2, AfterGoto
    <2>3. CASE req' = [req EXCEPT ![r].pc = "findPost", ![r].slug = s, ![r].todo = t]
        BY <1>0, <1>7, <2>3, AfterNextPost
    <2> QED
        BY <2>1, <2>2, <2>3
<1>8. CASE RemoveOwnComments(r) \/ RemoveOwnLikes(r)
    BY <1>0, <1>8, AfterGoto DEF RemoveOwnComments, RemoveOwnLikes
<1>9. CASE FindSubtree(r)
    BY <1>9, AfterFindSubtree
<1>10. CASE ResolvePost(r)
    <2>1. PICK p : req' = [req EXCEPT ![r].pc = AfterResolve(req[r].op), ![r].post = p]
        BY <1>0, <1>10 DEF ResolvePost
    <2>2. req'[r].pc = AfterResolve(req[r].op)
        BY <1>0, <2>1, AfterFound
    <2> QED
        BY <2>2 DEF AfterResolve, Elsewhere
<1>11. CASE \/ CountComments(r) \/ FindParent(r) \/ CheckDepth(r)
            \/ OwnerOfComment(r) \/ LoadComment(r) \/ ConfirmRemoval(r)
    <2>1. \E label \in Elsewhere : Goto(r, label)
        BY <1>0, <1>11
        DEF CountComments, FindParent, CheckDepth, OwnerOfComment, LoadComment, ConfirmRemoval,
            Elsewhere
    <2> QED
        BY <1>0, <2>1, AfterGoto
<1>12. CASE \/ InsertPost(r) \/ SavePost(r) \/ InsertComment(r) \/ SaveComment(r)
            \/ DeleteSubtree(r) \/ WriteLike(r) \/ DropAccount(r)
    BY <1>0, <1>12
    DEF InsertPost, SavePost, InsertComment, SaveComment, DeleteSubtree, WriteLike, DropAccount
<1> QED
    BY <1>1, <1>2, <1>3, <1>4, <1>5, <1>6, <1>7, <1>8, <1>9, <1>10, <1>11, <1>12
    DEF Step, PostStep, CommentStep, AccountStep

-----------------------------------------------------------------------------
(* What each request holds while others run.                               *)

\* From here on a request goes by the id of the post that it looked up.
Holding(r) ==
    \/ req[r].op = "updatePost" /\ req[r].pc \in {"probeSlug", "savePost"}
    \/ req[r].pc \in {"postLikes", "postThread", "dropPost"}

Mine(r, p) == posts[p].author = req[r].user \/ <<r, p>> \in slipped

\* The slugs and the post of r are its own user's.
Tracked(r) ==
    /\ \A p \in LivePosts : posts[p].slug \in Wanted(r) => Mine(r, p)
    /\ Holding(r) =>
          /\ req[r].post \in PostIds /\ posts[req[r].post].state # "unborn"
          /\ req[r].post \in LivePosts => Mine(r, req[r].post)

\* A post has the slug it had when it was loaded to be renamed.
Fresh(r) ==
    \A p \in LivePosts \ crossed :
        Renaming(r, p) /\ req[r].pc \in {"probeSlug", "savePost"} => posts[p].slug = req[r].slug

\* The likes, then the comments, of the post are gone.
Swept(r) ==
    /\ req[r].pc \in {"postThread", "dropPost"} =>
          \A l \in likes : l[2] = req[r].post => <<"post", l>> \in lateLikes
    /\ req[r].pc = "dropPost" =>
          \A c \in LiveComments : comments[c].post = req[r].post => <<"post", c>> \in lateComments

\* Whether the removal r has listed post p, or has it in hand, or came too early for it.
Listed(r, p) ==
    \/ p \in unlisted
    \/ posts[p].slug \in Wanted(r)
    \/ p = req[r].post /\ req[r].pc \in {"postLikes", "postThread", "dropPost"}

\* What is left of the account: posts still on the list, then nothing.
Emptied(r) ==
    req[r].op = "removeUser" =>
        /\ req[r].pc \in AfterList =>
              \A p \in PostsBy(req[r].user) : Listed(r, p)
        /\ req[r].pc \in {"ownLikes", "dropAccount"} =>
              \A c \in CommentsBy(req[r].user) : <<"account", c>> \in lateComments
        /\ req[r].pc = "dropAccount" =>
              \A l \in likes : l[1] = req[r].user => <<"account", l>> \in lateLikes

\* The subtree that was read holds the replies to what it holds.
Gathered(r) ==
    req[r].pc = "deleteSubtree" =>
        \A d \in LiveComments :
            comments[d].parent \in req[r].ids \cap LiveComments =>
                d \in req[r].ids \/ <<"parent", d>> \in lateComments

LEMMA PostsEvolve ==
    ASSUME Typed, [Next]_vars, NEW p \in PostIds, posts[p].state # "unborn"
    PROVE  /\ posts'[p].state # "unborn"
           /\ p \in LivePosts' => p \in LivePosts /\ posts'[p].author = posts[p].author
<1>1. CASE posts' = posts
    BY <1>1 DEF LivePosts
<1>2. CASE PostCreated
    <2>1. PICK i \in PostIds, d \in Post : posts' = [posts EXCEPT ![i] = d] /\ IsNext(posts, i)
        BY <1>2 DEF PostCreated
    <2>2. i # p
        BY <2>1 DEF IsNext
    <2> QED
        BY <2>1, <2>2, PostsAfter DEF LivePosts
<1>3. CASE PostRewritten
    <2>1. PICK i \in LivePosts, d \in Post :
             posts' = [posts EXCEPT ![i] = d] /\ d.author = posts[i].author
        BY <1>3 DEF PostRewritten
    <2>2. CASE i = p
        BY <2>1, <2>2, PostsAfter DEF LivePosts, Post
    <2>3. CASE i # p
        BY <2>1, <2>3, PostsAfter DEF LivePosts
    <2> QED
        BY <2>2, <2>3
<1>4. CASE PostDropped
    <2>1. PICK i \in PostIds : posts' = [posts EXCEPT ![i] = Gone]
        BY <1>4 DEF PostDropped
    <2>2. CASE i = p
        BY <2>1, <2>2, PostsWithout DEF Typed, Stored, Gone
    <2>3. CASE i # p
        BY <2>1, <2>3, PostsWithout DEF LivePosts
    <2> QED
        BY <2>2, <2>3
<1> QED
    BY <1>1, <1>2, <1>3, <1>4, HowPostsChange

\* A post keeps its author, and its slug unless it has just got another.
LEMMA PostKept ==
    ASSUME Typed, [Next]_vars, NEW p \in LivePosts', p \notin GotSlug
    PROVE  p \in LivePosts /\ posts'[p].slug = posts[p].slug /\ posts'[p].author = posts[p].author
<1>1. p \in LivePosts /\ posts'[p].slug = posts[p].slug
    BY DEF GotSlug
<1>2. p \in PostIds /\ posts[p].state # "unborn"
    BY <1>1 DEF LivePosts
<1> QED
    BY <1>1, <1>2, PostsEvolve

\* Mine is not lost while the request runs.
LEMMA MineKept ==
    ASSUME Typed, [Next]_vars, Recorded, NEW s \in Reqs, Busy(s)', req'[s].user = req[s].user,
           NEW p \in LivePosts, p \in LivePosts', Mine(s, p)
    PROVE  Mine(s, p)'
<1>1. posts'[p].author = posts[p].author
    BY PostsEvolve DEF LivePosts
<1>2. <<s, p>> \in slipped => <<s, p>> \in slipped'
    BY DEF Recorded
<1> QED
    BY <1>1, <1>2 DEF Mine

\* The slugs that s wanted before a step are still of its own posts after it.
LEMMA WantedKept ==
    ASSUME NEW s \in Reqs, Typed, Busy(s), Tracked(s), [Next]_vars, Recorded,
           Busy(s)', req'[s].user = req[s].user,
           NEW p \in LivePosts', posts'[p].slug \in Wanted(s)
    PROVE  Mine(s, p)'
<1>1. CASE p \in GotSlug
    <2>1. posts'[p].author = req[s].user \/ <<s, p>> \in slipped'
        BY <1>1 DEF Recorded
    <2> QED
        BY <2>1 DEF Mine
<1>2. CASE p \notin GotSlug
    <2>1. p \in LivePosts /\ posts[p].slug \in Wanted(s)
        BY <1>2, PostKept
    <2> QED
        BY <2>1, MineKept DEF Tracked
<1> QED
    BY <1>1, <1>2

LEMMA HeldKept ==
    ASSUME NEW s \in Reqs, Typed, Busy(s), Tracked(s), Holding(s), [Next]_vars, Recorded,
           Busy(s)', req'[s].user = req[s].user, req'[s].post = req[s].post
    PROVE  /\ req'[s].post \in PostIds /\ posts'[req'[s].post].state # "unborn"
           /\ req'[s].post \in LivePosts' => Mine(s, req[s].post)'
<1>1. req[s].post \in PostIds /\ posts[req[s].post].state # "unborn"
    BY DEF Tracked
<1>2. /\ posts'[req[s].post].state # "unborn"
      /\ req[s].post \in LivePosts' => req[s].post \in LivePosts
    BY <1>1, PostsEvolve
<1>3. req[s].post \in LivePosts => Mine(s, req[s].post)
    BY DEF Tracked
<1> QED
    BY <1>1, <1>2, <1>3, MineKept

\* What two of the steps put into a request.
LEMMA FoundPost ==
    ASSUME Typed, NEW r \in Reqs, Busy(r), NEW label, NEW p \in PostIds,
           req' = [req EXCEPT ![r].pc = label, ![r].post = p]
    PROVE  req'[r].post = p
<1>1. req[r] \in Request
    BY BusyFields
<1> QED
    BY <1>1 DEF Typed, Request

LEMMA FoundSlug ==
    ASSUME Typed, NEW r \in Reqs, Busy(r), NEW s \in Slug, NEW t \in Seq(Slug),
           req' = [req EXCEPT ![r].pc = "findPost", ![r].slug = s, ![r].todo = t]
    PROVE  req'[r].slug = s /\ req'[r].todo = t
<1>1. req[r] \in Request
    BY BusyFields
<1> QED
    BY <1>1 DEF Typed, Request

-----------------------------------------------------------------------------
(* The slugs and the post in hand.                                         *)

\* Awaits at which a request wants no slug and holds no post.
LEMMA NothingTracked ==
    ASSUME NEW s \in Reqs,
           \/ req'[s].pc \in Doors \cup Elsewhere
           \/ req'[s].pc \in {"insertPost", "ownComments", "ownLikes", "dropAccount",
                              "deleteSubtree"}
           \/ req'[s].pc = "probeSlug" /\ req'[s].op = "createPost"
    PROVE  Tracked(s)'
<1>1. Wanted(s)' = {} /\ ~ Holding(s)'
    BY DEF Wanted, Holding, Doors, Elsewhere
<1> QED
    BY <1>1 DEF Tracked

\* The steps that use no slug.
LEMMA TrackedOn ==
    ASSUME NEW s \in Reqs, Typed, Busy(s), Tracked(s), Holding(s), [Next]_vars, Recorded,
           Busy(s)', req'[s].user = req[s].user, req'[s].post = req[s].post,
           Wanted(s)' \subseteq Wanted(s)
    PROVE  Tracked(s)'
BY WantedKept, HeldKept DEF Tracked

LEMMA TrackedRename ==
    ASSUME NEW s \in Reqs, Typed, Busy(s), Tracked(s), [Next]_vars, Recorded, Busy(s)',
           \/ LoadPost(s) /\ req'[s].pc \in {"probeSlug", "savePost"}
           \/ ProbeSlug(s) /\ req'[s].pc \in {"probeSlug", "insertPost", "savePost"}
    PROVE  Tracked(s)'
<1>1. CASE LoadPost(s)
    <2>1. PICK p \in PostsAt(req[s].slug) :
             \/ req' = [req EXCEPT ![s].pc = "savePost", ![s].post = p, ![s].title = NoTitle]
             \/ req' = [req EXCEPT ![s].pc = "probeSlug", ![s].post = p]
        BY <1>1, AfterRespond DEF LoadPost
    <2>2. /\ req'[s].post = p /\ req'[s].user = req[s].user /\ req'[s].op = req[s].op
          /\ req'[s].pc \in {"probeSlug", "savePost"}
        <3>1. CASE req' = [req EXCEPT ![s].pc = "savePost", ![s].post = p, ![s].title = NoTitle]
            BY <3>1, AfterLoadKeeps
        <3>2. CASE req' = [req EXCEPT ![s].pc = "probeSlug", ![s].post = p]
            <4>1. p \in PostIds
                BY DEF PostsAt, LivePosts
            <4>2. req'[s].post = p
                BY <3>2, <4>1, FoundPost
            <4> QED
                BY <3>2, <4>2, AfterFound
        <3> QED
            BY <2>1, <3>1, <3>2
    <2>3. p \in LivePosts /\ Mine(s, p)
        <3>1. req[s].slug \in Wanted(s)
            BY <1>1 DEF LoadPost, At, Wanted
        <3> QED
            BY <3>1 DEF Tracked, PostsAt
    <2>4. posts' = posts /\ LivePosts' = LivePosts
        BY <1>1 DEF LoadPost, storeVars, LivePosts
    <2>5. Mine(s, p)'
        BY <2>2, <2>3, <2>4, MineKept
    <2>6. Wanted(s)' = {}
        BY <2>2, <1>1, BusyFields, OpsAssumption DEF LoadPost, At, Wanted, Fits
    <2>7. p \in PostIds /\ posts'[p].state # "unborn"
        BY <2>3, <2>4 DEF LivePosts
    <2> QED
        BY <2>2, <2>5, <2>6, <2>7 DEF Tracked, Mine
<1>2. CASE ProbeSlug(s) /\ req[s].op = "updatePost"
    <2>1. /\ req'[s].user = req[s].user /\ req'[s].op = req[s].op
          /\ req'[s].post = req[s].post /\ Holding(s)
        BY <1>2, AfterProbe, AfterGoto DEF ProbeSlug, Holding, At
    <2>2. Wanted(s)' = {}
        BY <1>2, <2>1 DEF Wanted, ProbeSlug, At
    <2> QED
        BY <2>1, <2>2, TrackedOn
<1>3. CASE ProbeSlug(s) /\ req[s].op # "updatePost"
    <2>1. req[s].op = "createPost"
        BY <1>3, BusyFields, OpsAssumption DEF ProbeSlug, At, Fits
    <2>2. req'[s].op = "createPost" /\ req'[s].pc \in {"probeSlug", "insertPost"}
        BY <1>3, <2>1, AfterProbe, AfterGoto DEF ProbeSlug, At
    <2> QED
        BY <2>2, NothingTracked
<1> QED
    BY <1>1, <1>2, <1>3

\* requireOwner saw the user's own post at the slug, and no other post is there.
LEMMA TrackedOwner ==
    ASSUME NEW s \in Reqs, Typed, SlugsUnique, Busy(s), Busy(s)', OwnerOfPost(s),
           req'[s].pc \in {"loadPost", "findPost"}
    PROVE  Tracked(s)'
<1>1. PICK p \in PostsAt(req[s].slug) : posts[p].author = req[s].user
    BY AfterRespond DEF OwnerOfPost
<1>2. \E label : Goto(s, label)
    BY AfterRespond DEF OwnerOfPost
<1>3. /\ req'[s].slug = req[s].slug /\ req'[s].user = req[s].user /\ req'[s].op # "removeUser"
    BY <1>2, AfterGoto, BusyFields, OpsAssumption DEF OwnerOfPost, At, Fits
<1>4. Wanted(s)' = {req[s].slug} /\ ~ Holding(s)'
    BY <1>3 DEF Wanted, Holding
<1>5. posts' = posts /\ LivePosts' = LivePosts
    BY DEF OwnerOfPost, storeVars, LivePosts
<1>6. \A q \in LivePosts : posts[q].slug = req[s].slug => posts[q].author = req[s].user
    BY <1>1 DEF SlugsUnique, PostsAt
<1> QED
    BY <1>3, <1>4, <1>5, <1>6 DEF Tracked, Mine

LEMMA RangeOfTail ==
    ASSUME NEW S, NEW s \in Seq(S), s # <<>>
    PROVE  Head(s) \in Range(s) /\ Range(Tail(s)) \subseteq Range(s)
<1>1. Head(s) = s[1] /\ 1 \in DOMAIN s
    OBVIOUS
<1>2. ASSUME NEW i \in DOMAIN Tail(s)
      PROVE  Tail(s)[i] = s[i + 1] /\ i + 1 \in DOMAIN s
    <2>1. i \in 1 .. Len(s) - 1 /\ Len(s) \in Nat /\ DOMAIN s = 1 .. Len(s)
        OBVIOUS
    <2> QED
        BY <2>1
<1> QED
    BY <1>1, <1>2 DEF Range

\* userService.remove listed its own posts.
LEMMA TrackedList ==
    ASSUME NEW s \in Reqs, Typed, SlugsUnique, Busy(s), Busy(s)', ListOwnPosts(s)
    PROVE  Tracked(s)'
<1>1. PICK own \in SetToSeqs(PostsBy(req[s].user)) :
         LET slugs == [i \in DOMAIN own |-> posts[own[i]].slug] IN
         IF slugs = <<>> THEN Goto(s, "ownComments")
         ELSE req' = [req EXCEPT ![s].pc = "findPost", ![s].slug = Head(slugs),
                                 ![s].todo = Tail(slugs)]
    BY DEF ListOwnPosts
<1> DEFINE slugs == [i \in DOMAIN own |-> posts[own[i]].slug]
<1>2. CASE slugs = <<>>
    BY <1>1, <1>2, AfterGoto, NothingTracked
<1>3. CASE slugs # <<>>
    <2>1. req' = [req EXCEPT ![s].pc = "findPost", ![s].slug = Head(slugs), ![s].todo = Tail(slugs)]
        BY <1>1, <1>3
    <2>3. slugs \in Seq(Slug)
        BY OwnSlugs DEF Typed, PostsBy
    <2>2. /\ req'[s].pc = "findPost" /\ req'[s].slug = Head(slugs) /\ req'[s].todo = Tail(slugs)
          /\ req'[s].user = req[s].user
        <3> HIDE DEF slugs
        <3>1. Head(slugs) \in Slug /\ Tail(slugs) \in Seq(Slug)
            BY <1>3, <2>3
        <3>2. req'[s].slug = Head(slugs) /\ req'[s].todo = Tail(slugs)
            BY <2>1, <3>1, FoundSlug
        <3> QED
            BY <2>1, <3>2, AfterNextPost
    <2>4. Wanted(s)' \subseteq Range(slugs) /\ ~ Holding(s)'
        <3>1. Head(slugs) \in Range(slugs) /\ Range(Tail(slugs)) \subseteq Range(slugs)
            BY <1>3, <2>3, RangeOfTail
        <3> QED
            BY <2>2, <3>1 DEF Wanted, Holding
    <2>5. \A x \in Range(slugs) : \E p \in PostsBy(req[s].user) : posts[p].slug = x
        <3>1. \A i \in DOMAIN own : own[i] \in PostsBy(req[s].user)
            BY DEF SetToSeqs, Range
        <3> QED
            BY <3>1 DEF Range
    <2>6. posts' = posts /\ LivePosts' = LivePosts
        BY DEF ListOwnPosts, storeVars, LivePosts
    <2>7. \A p \in LivePosts : posts[p].slug \in Range(slugs) => posts[p].author = req[s].user
        BY <2>5 DEF PostsBy, SlugsUnique
    <2> QED
        BY <2>2, <2>4, <2>6, <2>7 DEF Tracked, Mine
<1> QED
    BY <1>2, <1>3
\* postService.remove: the slug is looked up, then its post goes, then the next slug.
LEMMA TrackedRemove ==
    ASSUME NEW s \in Reqs, Typed, Busy(s), Tracked(s), [Next]_vars, Recorded, Busy(s)',
           \/ FindPost(s) \/ RemovePostLikes(s) \/ RemovePostThread(s)
           \/ DropPost(s) /\ req'[s].pc \in {"findPost", "ownComments"}
    PROVE  Tracked(s)'
<1>1. CASE FindPost(s)
    <2>1. PICK p \in PostsAt(req[s].slug) :
             req' = [req EXCEPT ![s].pc = "postLikes", ![s].post = p]
        BY <1>1, AfterRespond DEF FindPost
    <2>2. /\ req'[s].pc = "postLikes" /\ req'[s].post = p /\ req'[s].user = req[s].user
          /\ req'[s].op = req[s].op /\ req'[s].todo = req[s].todo
        <3>1. p \in PostIds
            BY DEF PostsAt, LivePosts
        <3>2. req'[s].post = p
            BY <2>1, <3>1, FoundPost
        <3> QED
            BY <2>1, <3>2, AfterFound
    <2>3. req[s].slug \in Wanted(s) /\ Wanted(s)' \subseteq Wanted(s)
        BY <1>1, <2>2 DEF FindPost, At, Wanted, Busy
    <2>4. p \in LivePosts /\ Mine(s, p)
        BY <2>3 DEF Tracked, PostsAt
    <2>5. posts' = posts /\ LivePosts' = LivePosts
        BY <1>1 DEF FindPost, storeVars, LivePosts
    <2>6. Mine(s, p)' /\ p \in PostIds /\ posts'[p].state # "unborn"
        BY <2>2, <2>4, <2>5, MineKept DEF LivePosts
    <2>7. \A q \in LivePosts' : posts'[q].slug \in Wanted(s)' => Mine(s, q)'
        BY <2>2, <2>3, WantedKept
    <2> QED
        BY <2>2, <2>6, <2>7 DEF Tracked, Mine
<1>2. CASE RemovePostLikes(s) \/ RemovePostThread(s)
    <2>1. \E label \in {"postThread", "dropPost"} : Goto(s, label)
        BY <1>2 DEF RemovePostLikes, RemovePostThread
    <2>2. Holding(s) /\ req[s].pc \in {"postLikes", "postThread"}
        BY <1>2 DEF RemovePostLikes, RemovePostThread, At, Holding
    <2>3. /\ req'[s].pc \in {"postThread", "dropPost"} /\ req'[s].user = req[s].user
          /\ req'[s].post = req[s].post /\ req'[s].op = req[s].op /\ req'[s].todo = req[s].todo
        BY <2>1, AfterGoto
    <2>4. Wanted(s)' \subseteq Wanted(s)
        BY <2>2, <2>3 DEF Wanted
    <2> QED
        BY <2>2, <2>3, <2>4, TrackedOn
<1>3. CASE DropPost(s) /\ req'[s].pc = "ownComments"
    BY <1>3, NothingTracked
<1>4. CASE DropPost(s) /\ req'[s].pc = "findPost"
    <2>1. /\ req[s].todo # <<>>
          /\ req' = [req EXCEPT ![s].pc = "findPost", ![s].slug = Head(req[s].todo),
                                ![s].todo = Tail(req[s].todo)]
        BY <1>4, AfterRespond, AfterGoto DEF DropPost
    <2>2. /\ req'[s].slug = Head(req[s].todo) /\ req'[s].todo = Tail(req[s].todo)
          /\ req'[s].user = req[s].user
        <3>1. req[s].todo \in Seq(Slug)
            BY BusyFields
        <3>2. Head(req[s].todo) \in Slug /\ Tail(req[s].todo) \in Seq(Slug)
            BY <2>1, <3>1
        <3>3. req'[s].slug = Head(req[s].todo) /\ req'[s].todo = Tail(req[s].todo)
            BY <2>1, <3>2, FoundSlug
        <3> QED
            BY <2>1, <3>3, AfterNextPost
    <2>3. req[s].op = "removeUser" /\ req[s].todo \in Seq(Slug) /\ req[s].pc = "dropPost"
        BY <1>4, <2>1, BusyFields, OpsAssumption, AfterRespond DEF DropPost, At, Fits
    <2>4. Wanted(s)' \subseteq Range(req[s].todo) /\ ~ Holding(s)'
        <3>1. /\ Head(req[s].todo) \in Range(req[s].todo)
              /\ Range(Tail(req[s].todo)) \subseteq Range(req[s].todo)
            BY <2>1, <2>3, RangeOfTail
        <3> QED
            BY <1>4, <2>2, <3>1 DEF Wanted, Holding
    <2>5. Range(req[s].todo) \subseteq Wanted(s)
        BY <2>3 DEF Wanted
    <2>6. \A q \in LivePosts' : posts'[q].slug \in Wanted(s)' => Mine(s, q)'
        BY <2>2, <2>4, <2>5, WantedKept
    <2> QED
        BY <2>4, <2>6 DEF Tracked
<1> QED
    BY <1>1, <1>2, <1>3, <1>4

LEMMA TrackedStep ==
    ASSUME NEW s \in Reqs, Typed, SlugsUnique, [Next]_vars, Recorded, Busy(s)',
           Busy(s) => Tracked(s)
    PROVE  Tracked(s)'
<1>1. CASE req'[s] = req[s] /\ Busy(s)
    <2>1. Wanted(s)' = Wanted(s) /\ Holding(s)' = Holding(s)
        BY <1>1 DEF Wanted, Holding, Busy
    <2>2. \A q \in LivePosts' : posts'[q].slug \in Wanted(s)' => Mine(s, q)'
        BY <1>1, <2>1, WantedKept
    <2> QED
        BY <1>1, <2>1, <2>2, HeldKept DEF Tracked
<1>2. CASE Start(s)
    BY <1>2, StartsAtDoor, NothingTracked
<1>3. CASE Step(s) /\ Busy(s)
    BY <1>3, StepsTo, NothingTracked, TrackedRename, TrackedOwner, TrackedList, TrackedRemove
<1> QED
    BY <1>1, <1>2, <1>3, Waits

-----------------------------------------------------------------------------
(* Renames, sweeps and subtrees.                                           *)

LEMMA FreshStep ==
    ASSUME NEW s \in Reqs, Typed, [Next]_vars, Recorded, Busy(s)',
           Busy(s) => Tracked(s) /\ Fresh(s)
    PROVE  Fresh(s)'
<1> SUFFICES ASSUME NEW p \in LivePosts', p \notin crossed', Renaming(s, p)',
                    req'[s].pc \in {"probeSlug", "savePost"}
             PROVE  posts'[p].slug = req'[s].slug
    BY DEF Fresh
<1>0. req'[s].op = "updatePost" /\ req'[s].post = p /\ req'[s].title # NoTitle
    BY DEF Renaming
<1>1. CASE req'[s] = req[s] /\ Busy(s)
    <2>1. Holding(s) /\ Renaming(s, p)
        BY <1>0, <1>1 DEF Holding, Renaming
    <2>2. p \in LivePosts
        BY <1>0, <1>1, <2>1, PostsEvolve DEF Tracked
    <2>3. p \notin crossed /\ posts'[p].slug = posts[p].slug
        BY <2>2 DEF Recorded
    <2> QED
        BY <1>1, <2>1, <2>2, <2>3 DEF Fresh
<1>2. CASE Start(s)
    BY <1>2, StartsAtDoor DEF Doors
<1>3. CASE Step(s) /\ Busy(s)
    <2>1. ProbeSlug(s) \/ LoadPost(s)
        BY <1>0, <1>3, StepsTo DEF Elsewhere
    <2>2. posts' = posts /\ LivePosts' = LivePosts
        BY <2>1 DEF ProbeSlug, LoadPost, storeVars, LivePosts
    <2>3. CASE ProbeSlug(s)
        <3>1. /\ req'[s].op = req[s].op /\ req'[s].post = req[s].post /\ req[s].pc = "probeSlug"
              /\ req'[s].title = req[s].title /\ req'[s].slug = req[s].slug
            BY <1>3, <2>3, AfterProbe, AfterGoto DEF ProbeSlug, At
        <3>2. Renaming(s, p)
            BY <1>0, <1>3, <3>1 DEF Renaming
        <3>3. p \notin crossed
            BY <2>2 DEF Recorded
        <3> QED
            BY <1>3, <2>2, <3>1, <3>2, <3>3 DEF Fresh
    <2>4. CASE LoadPost(s)
        <3>1. PICK q \in PostsAt(req[s].slug) :
                 \/ req' = [req EXCEPT ![s].pc = "savePost", ![s].post = q, ![s].title = NoTitle]
                 \/ req' = [req EXCEPT ![s].pc = "probeSlug", ![s].post = q]
            BY <2>4, AfterRespond DEF LoadPost
        <3>2. q \in PostIds /\ posts[q].slug = req[s].slug
            BY DEF PostsAt, LivePosts
        <3>3. req' = [req EXCEPT ![s].pc = "probeSlug", ![s].post = q]
            BY <1>0, <1>3, <3>1, AfterLoadKeeps
        <3>4. req'[s].post = q
            BY <1>3, <3>2, <3>3, FoundPost
        <3>5. req'[s].slug = req[s].slug
            BY <1>3, <3>3, AfterFound
        <3> QED
            BY <1>0, <2>2, <3>2, <3>4, <3>5
    <2> QED
        BY <2>1, <2>3, <2>4
<1> QED
    BY <1>1, <1>2, <1>3, Waits

\* A comment that was there before kept where it hangs.
LEMMA CommentKept ==
    ASSUME Typed, [Next]_vars, NEW c \in LiveComments', c \in LiveComments
    PROVE  /\ comments'[c].post = comments[c].post /\ comments'[c].parent = comments[c].parent
           /\ comments'[c].author = comments[c].author
BY CommentsEvolve DEF LiveComments

LEMMA SweptStep ==
    ASSUME NEW s \in Reqs, Typed, [Next]_vars, RecordedComments, RecordedLikes, Busy(s)',
           Busy(s) => Swept(s)
    PROVE  Swept(s)'
<1>1. CASE req'[s] = req[s] /\ Busy(s)
    <2>1. ASSUME req[s].pc \in {"postThread", "dropPost"}, NEW l \in likes', l[2] = req[s].post
          PROVE  <<"post", l>> \in lateLikes'
        <3>1. LikesSwept(l[2])
            BY <1>1, <2>1 DEF LikesSwept, Removing
        <3>2. l \in likes => <<"post", l>> \in lateLikes
            BY <1>1, <2>1 DEF Swept
        <3>3. CASE l \in likes
            <4>1. <<"post", l>>[2] = l
                OBVIOUS
            <4> QED
                BY <3>2, <3>3, <4>1, <2>1 DEF RecordedLikes
        <3>4. CASE l \notin likes
            BY <2>1, <3>1, <3>4 DEF RecordedLikes
        <3> QED
            BY <3>3, <3>4
    <2>2. ASSUME req[s].pc = "dropPost", NEW c \in LiveComments', comments'[c].post = req[s].post
          PROVE  <<"post", c>> \in lateComments'
        <3>1. ThreadSwept(comments'[c].post)
            BY <1>1, <2>2 DEF ThreadSwept, Removing
        <3>2. CASE c \in LiveComments
            <4>1. <<"post", c>> \in lateComments
                BY <1>1, <2>2, <3>2, CommentKept DEF Swept
            <4>2. <<"post", c>>[2] = c
                OBVIOUS
            <4> QED
                BY <4>1, <4>2 DEF RecordedComments
        <3>3. CASE c \notin LiveComments
            BY <3>1, <3>3 DEF RecordedComments
        <3> QED
            BY <3>2, <3>3
    <2> QED
        BY <1>1, <2>1, <2>2 DEF Swept
<1>2. CASE Start(s)
    BY <1>2, StartsAtDoor DEF Doors, Swept
<1>3. CASE Step(s) /\ Busy(s)
    <2>1. CASE req'[s].pc \notin {"postThread", "dropPost"}
        BY <2>1 DEF Swept
    <2>2. CASE RemovePostLikes(s) /\ req'[s].pc = "postThread"
        <3>1. req'[s].post = req[s].post
            BY <1>3, <2>2, AfterGoto DEF RemovePostLikes
        <3> QED
            BY <2>2, <3>1 DEF RemovePostLikes, Swept
    <2>3. CASE RemovePostThread(s) /\ req'[s].pc = "dropPost"
        <3>1. req'[s].post = req[s].post /\ req[s].pc = "postThread" /\ likes' = likes
            BY <1>3, <2>3, AfterGoto DEF RemovePostThread, At
        <3>2. \A l \in likes' : l[2] = req'[s].post => <<"post", l>> \in lateLikes'
            <4>1. \A l : <<"post", l>>[2] = l
                OBVIOUS
            <4> QED
                BY <1>3, <3>1, <4>1 DEF Swept, RecordedLikes
        <3>3. \A c \in LiveComments' : comments'[c].post # req'[s].post
            BY <2>3, <3>1 DEF RemovePostThread, Without, CommentsOn, LiveComments, Gone
        <3> QED
            BY <2>3, <3>2, <3>3 DEF Swept
    <2> QED
        BY <1>3, <2>1, <2>2, <2>3, StepsTo DEF Elsewhere
<1> QED
    BY <1>1, <1>2, <1>3, Waits

LEMMA GatheredStep ==
    ASSUME NEW s \in Reqs, Typed, Threads, [Next]_vars, RecordedComments, Busy(s)',
           Busy(s) => Gathered(s)
    PROVE  Gathered(s)'
<1>1. CASE req'[s] = req[s] /\ Busy(s)
    <2> SUFFICES ASSUME req[s].pc = "deleteSubtree", NEW d \in LiveComments',
                        comments'[d].parent \in req[s].ids \cap LiveComments'
                 PROVE  d \in req[s].ids \/ <<"parent", d>> \in lateComments'
        BY <1>1 DEF Gathered
    <2>1. CASE d \in LiveComments
        <3>1. comments'[d].parent = comments[d].parent
            BY <2>1, CommentKept
        <3>2. comments[d].parent \in CommentIds /\ comments[d].parent # None
            BY <3>1, NoneApart DEF LiveComments
        <3>3. comments[comments[d].parent].state # "unborn"
            BY <2>1, <3>2 DEF Threads, Referred
        <3>4. comments[d].parent \in LiveComments
            BY <3>1, <3>2, <3>3, CommentsEvolve
        <3>5. d \in req[s].ids \/ <<"parent", d>> \in lateComments
            BY <1>1, <2>1, <3>1, <3>4 DEF Gathered
        <3>6. <<"parent", d>>[2] = d
            OBVIOUS
        <3> QED
            BY <3>5, <3>6 DEF RecordedComments
    <2>2. CASE d \notin LiveComments
        <3>1. Collected(comments'[d].parent)
            BY <1>1 DEF Collected, At
        <3> QED
            BY <2>2, <3>1 DEF RecordedComments
    <2> QED
        BY <2>1, <2>2
<1>2. CASE Start(s)
    BY <1>2, StartsAtDoor DEF Doors, Gathered
<1>3. CASE Step(s) /\ Busy(s)
    <2>1. CASE req'[s].pc # "deleteSubtree"
        BY <2>1 DEF Gathered
    <2>2. CASE FindSubtree(s)
        <3> DEFINE c == req[s].comment
        <3>1. req'[s].ids = Subtree(c) /\ comments' = comments /\ LiveComments' = LiveComments
            BY <2>2, AfterFindSubtree DEF FindSubtree, storeVars, LiveComments
        <3>2. ASSUME NEW d \in LiveComments, comments[d].parent \in Subtree(c) \cap LiveComments
              PROVE  d \in Subtree(c)
            <4>1. CASE c \in LiveComments
                BY <3>2, <4>1, SubtreeClosed
            <4>2. CASE c \notin LiveComments
                BY <3>2, <4>2, AncestorsHold DEF Subtree
            <4> QED
                BY <4>1, <4>2
        <3> QED
            BY <3>1, <3>2 DEF Gathered
    <2> QED
        BY <1>3, <2>1, <2>2, StepsTo DEF Elsewhere
<1> QED
    BY <1>1, <1>2, <1>3, Waits

-----------------------------------------------------------------------------
(* The list of a removal.                                                  *)

\* What the removal has on its list stays there.
LEMMA StaysListed ==
    ASSUME NEW s \in Reqs, Typed, [Next]_vars, Recorded, Busy(s), Busy(s)',
           req[s].op = "removeUser", req[s].pc \in AfterList,
           req'[s].op = "removeUser", req'[s].pc \in AfterList, req'[s].user = req[s].user,
           NEW p \in PostsBy(req[s].user)'
    PROVE  \/ p \in unlisted'
           \/ /\ p \in PostsBy(req[s].user) /\ posts'[p].slug = posts[p].slug
              /\ p \notin unlisted
<1>1. p \in LivePosts' /\ posts'[p].author = req[s].user
    BY DEF PostsBy
<1>2. RemovalPast(req[s].user, AfterList)
    BY DEF RemovalPast, Erasing
<1>3. RemovalPast(posts[p].author, AfterList)'
    BY <1>1 DEF RemovalPast, Erasing
<1>4. p \in unlisted \/ p \in GotSlug => p \in unlisted'
    BY <1>1, <1>2, <1>3 DEF Recorded
<1>5. p \notin GotSlug => p \in PostsBy(req[s].user) /\ posts'[p].slug = posts[p].slug
    BY <1>1, PostKept DEF PostsBy
<1> QED
    BY <1>4, <1>5

\* A removal that has listed the posts of the account, and one that lists them now.
LEMMA ListKept ==
    ASSUME NEW s \in Reqs, Typed, SlugsUnique, [Next]_vars, Recorded, Busy(s)',
           Busy(s) => Emptied(s), req'[s].op = "removeUser", req'[s].pc \in AfterList
    PROVE  \A p \in PostsBy(req[s].user)' : Listed(s, p)'
<1> SUFFICES ASSUME NEW p \in PostsBy(req[s].user)', p \notin unlisted'
             PROVE  \/ posts'[p].slug \in Wanted(s)'
                    \/ p = req'[s].post /\ req'[s].pc \in {"postLikes", "postThread", "dropPost"}
    BY DEF Listed
<1>0. ASSUME Busy(s), req[s].op = "removeUser", req[s].pc \in AfterList, req'[s].user = req[s].user
      PROVE  /\ p \in PostsBy(req[s].user) /\ posts'[p].slug = posts[p].slug
             /\ \/ posts[p].slug \in Wanted(s)
                \/ p = req[s].post /\ req[s].pc \in {"postLikes", "postThread", "dropPost"}
    <2>1. p \in PostsBy(req[s].user) /\ posts'[p].slug = posts[p].slug /\ p \notin unlisted
        BY <1>0, StaysListed
    <2> QED
        BY <1>0, <2>1 DEF Emptied, Listed
<1>1. CASE req'[s] = req[s] /\ Busy(s)
    <2>1. Wanted(s)' = Wanted(s)
        BY <1>1 DEF Wanted, Busy
    <2> QED
        BY <1>0, <1>1, <2>1
<1>2. CASE Start(s)
    BY <1>2, StartsAtDoor DEF Doors, AfterList
<1>3. CASE ListOwnPosts(s)
    <2>1. PICK own \in SetToSeqs(PostsBy(req[s].user)) :
             LET slugs == [i \in DOMAIN own |-> posts[own[i]].slug] IN
             IF slugs = <<>> THEN Goto(s, "ownComments")
             ELSE req' = [req EXCEPT ![s].pc = "findPost", ![s].slug = Head(slugs),
                                     ![s].todo = Tail(slugs)]
        BY <1>3 DEF ListOwnPosts
    <2> DEFINE slugs == [i \in DOMAIN own |-> posts[own[i]].slug]
    <2>2. Busy(s) /\ posts' = posts /\ LivePosts' = LivePosts
        BY <1>3 DEF ListOwnPosts, At, storeVars, LivePosts
    <2>3. slugs \in Seq(Slug)
        BY OwnSlugs DEF Typed, PostsBy
    <2>4. ASSUME req'[s].user = req[s].user
          PROVE  posts[p].slug \in Range(slugs) /\ posts'[p].slug = posts[p].slug
        <3>1. p \in PostsBy(req[s].user)
            BY <2>2, <2>4 DEF PostsBy
        <3>2. PostsBy(req[s].user) \in SUBSET LivePosts
            BY DEF PostsBy
        <3> QED
            BY <2>2, <3>1, <3>2, OwnSlugsCover DEF Typed
    <2>5. CASE slugs = <<>>
        <3>1. req'[s].user = req[s].user
            BY <2>1, <2>2, <2>5, AfterGoto
        <3> QED
            BY <2>4, <2>5, <3>1 DEF Range
    <2>6. CASE slugs # <<>>
        <3> HIDE DEF slugs
        <3>1. req' = [req EXCEPT ![s].pc = "findPost", ![s].slug = Head(slugs),
                                 ![s].todo = Tail(slugs)]
            BY <2>1, <2>6 DEF slugs
        <3>2. Head(slugs) \in Slug /\ Tail(slugs) \in Seq(Slug)
            BY <2>3, <2>6
        <3>3. req'[s].slug = Head(slugs) /\ req'[s].todo = Tail(slugs)
            BY <2>2, <3>1, <3>2, FoundSlug
        <3>4. req'[s].user = req[s].user /\ req'[s].pc = "findPost"
            BY <2>2, <3>1, AfterNextPost
        <3>5. posts[p].slug \in {Head(slugs)} \cup Range(Tail(slugs))
            BY <2>3, <2>4, <2>6, <3>4, HeadOrTail
        <3> QED
            BY <2>4, <3>3, <3>4, <3>5 DEF Wanted
    <2> QED
        BY <2>5, <2>6
<1>4. CASE FindPost(s) /\ req'[s].pc = "postLikes"
    <2>1. PICK q \in PostsAt(req[s].slug) :
             req' = [req EXCEPT ![s].pc = "postLikes", ![s].post = q]
        BY <1>4, AfterRespond DEF FindPost
    <2>2. Busy(s) /\ req[s].pc = "findPost" /\ posts' = posts
        BY <1>4 DEF FindPost, At, storeVars
    <2>3. /\ req'[s].user = req[s].user /\ req'[s].op = req[s].op /\ req'[s].todo = req[s].todo
        BY <2>1, <2>2, AfterFound
    <2>4. q \in PostIds /\ q \in LivePosts /\ posts[q].slug = req[s].slug
        BY DEF PostsAt, LivePosts
    <2>5. req'[s].post = q
        BY <2>1, <2>2, <2>4, FoundPost
    <2>6. p \in PostsBy(req[s].user) /\ posts[p].slug \in Wanted(s)
        BY <1>0, <2>2, <2>3 DEF AfterList
    <2>7. CASE posts[p].slug = req[s].slug
        BY <1>4, <2>4, <2>5, <2>6, <2>7 DEF SlugsUnique, PostsBy
    <2>8. CASE posts[p].slug \in Range(req[s].todo)
        BY <1>4, <2>2, <2>3, <2>8 DEF Wanted
    <2> QED
        BY <2>2, <2>6, <2>7, <2>8 DEF Wanted
<1>5. CASE RemovePostLikes(s) \/ RemovePostThread(s)
    <2>1. \E label \in {"postThread", "dropPost"} : Goto(s, label)
        BY <1>5 DEF RemovePostLikes, RemovePostThread
    <2>2. Busy(s) /\ req[s].pc \in {"postLikes", "postThread"}
        BY <1>5 DEF RemovePostLikes, RemovePostThread, At
    <2>3. /\ req'[s].pc \in {"postThread", "dropPost"} /\ req'[s].user = req[s].user
          /\ req'[s].post = req[s].post /\ req'[s].op = req[s].op /\ req'[s].todo = req[s].todo
        BY <2>1, <2>2, AfterGoto
    <2>4. /\ posts'[p].slug = posts[p].slug
          /\ posts[p].slug \in Wanted(s) \/ p = req[s].post
        BY <1>0, <2>2, <2>3 DEF AfterList
    <2>5. Wanted(s)' = Wanted(s)
        BY <2>2, <2>3 DEF Wanted
    <2> QED
        BY <2>3, <2>4, <2>5
<1>6. CASE DropPost(s) /\ req'[s].pc \in {"findPost", "ownComments"}
    <2>1. /\ Busy(s) /\ req[s].pc = "dropPost" /\ req[s].post \in PostIds
          /\ posts' = [posts EXCEPT ![req[s].post] = Gone] /\ req[s].todo \in Seq(Slug)
        BY <1>6, BusyFields, OpsAssumption DEF DropPost, At, Fits
    <2>2. p # req[s].post
        BY <2>1, PostsWithout DEF PostsBy
    <2>3. \/ /\ req[s].todo = <<>> /\ Goto(s, "ownComments")
          \/ /\ req[s].todo # <<>>
             /\ req' = [req EXCEPT ![s].pc = "findPost", ![s].slug = Head(req[s].todo),
                                   ![s].todo = Tail(req[s].todo)]
        BY <1>6, AfterRespond DEF DropPost
    <2>4. CASE req[s].todo = <<>> /\ Goto(s, "ownComments")
        <3>1. req'[s].user = req[s].user /\ req'[s].op = req[s].op
            BY <2>1, <2>4, AfterGoto
        <3>2. posts[p].slug \in Range(req[s].todo)
            BY <1>0, <2>1, <2>2, <3>1 DEF AfterList, Wanted
        <3> QED
            BY <2>4, <3>2 DEF Range
    <2>5. CASE /\ req[s].todo # <<>>
               /\ req' = [req EXCEPT ![s].pc = "findPost", ![s].slug = Head(req[s].todo),
                                     ![s].todo = Tail(req[s].todo)]
        <3>1. Head(req[s].todo) \in Slug /\ Tail(req[s].todo) \in Seq(Slug)
            BY <2>1, <2>5
        <3>2. req'[s].slug = Head(req[s].todo) /\ req'[s].todo = Tail(req[s].todo)
            BY <2>1, <2>5, <3>1, FoundSlug
        <3>3. req'[s].user = req[s].user /\ req'[s].op = req[s].op /\ req'[s].pc = "findPost"
            BY <2>1, <2>5, AfterNextPost
        <3>4. posts[p].slug \in Range(req[s].todo) /\ posts'[p].slug = posts[p].slug
            BY <1>0, <2>1, <2>2, <3>3 DEF AfterList, Wanted
        <3>5. posts[p].slug \in {Head(req[s].todo)} \cup Range(Tail(req[s].todo))
            BY <2>1, <2>5, <3>4, HeadOrTail
        <3> QED
            BY <3>2, <3>3, <3>4, <3>5 DEF Wanted
    <2> QED
        BY <2>3, <2>4, <2>5
<1>7. CASE RemoveOwnComments(s) \/ RemoveOwnLikes(s)
    <2>1. \E label : Goto(s, label)
        BY <1>7 DEF RemoveOwnComments, RemoveOwnLikes
    <2>2. Busy(s) /\ req[s].pc \in {"ownComments", "ownLikes"}
        BY <1>7 DEF RemoveOwnComments, RemoveOwnLikes, At
    <2>3. req'[s].user = req[s].user /\ req'[s].op = req[s].op
        BY <2>1, <2>2, AfterGoto
    <2>4. posts[p].slug \in Wanted(s)
        BY <1>0, <2>2, <2>3 DEF AfterList
    <2> QED
        BY <2>2, <2>4 DEF Wanted
<1>8. CASE OwnerOfPost(s)
    <2>1. \E label : Goto(s, label)
        BY <1>8, AfterRespond DEF OwnerOfPost
    <2>2. Busy(s) /\ req[s].op # "removeUser"
        BY <1>8, BusyFields, OpsAssumption DEF OwnerOfPost, At, Fits
    <2> QED
        BY <2>1, <2>2, AfterGoto
<1> QED
    BY <1>1, <1>2, <1>3, <1>4, <1>5, <1>6, <1>7, <1>8, Waits, StepsTo DEF AfterList, Elsewhere

LEMMA EmptiedStep ==
    ASSUME NEW s \in Reqs, Typed, SlugsUnique, [Next]_vars,
           Recorded, RecordedComments, RecordedLikes, Busy(s)',
           Busy(s) => Emptied(s)
    PROVE  Emptied(s)'
<1> SUFFICES ASSUME req'[s].op = "removeUser"
             PROVE  Emptied(s)'
    BY DEF Emptied
<1> DEFINE u == req'[s].user
<1>1. req'[s].pc \in AfterList => \A p \in PostsBy(req[s].user)' : Listed(s, p)'
    BY ListKept
<1>2. ASSUME req'[s].pc \in {"ownLikes", "dropAccount"}, NEW c \in CommentsBy(req[s].user)'
      PROVE  <<"account", c>> \in lateComments'
    <2>0. c \in LiveComments' /\ comments'[c].author = u /\ <<"account", c>>[2] = c
        BY DEF CommentsBy
    <2>1. CASE req'[s] = req[s] /\ Busy(s)
        <3>1. CASE c \in LiveComments
            <4>1. c \in CommentsBy(req[s].user)
                BY <2>0, <2>1, <3>1, CommentKept DEF CommentsBy
            <4>2. <<"account", c>> \in lateComments
                BY <1>2, <2>1, <4>1 DEF Emptied
            <4> QED
                BY <2>0, <4>2 DEF RecordedComments
        <3>2. CASE c \notin LiveComments
            <4>1. RemovalPast(comments'[c].author, {"ownLikes", "dropAccount"})
                BY <1>2, <2>0, <2>1 DEF RemovalPast, Erasing
            <4> QED
                BY <2>0, <3>2, <4>1 DEF RecordedComments
        <3> QED
            BY <3>1, <3>2
    <2>2. CASE Start(s)
        BY <1>2, <2>2, StartsAtDoor DEF Doors
    <2>3. CASE RemoveOwnComments(s)
        <3>1. req'[s].user = req[s].user
            BY <2>3, AfterGoto DEF RemoveOwnComments, At
        <3> QED
            BY <2>0, <2>3, <3>1
            DEF RemoveOwnComments, Without, CommentsBy, LiveComments, Gone
    <2>4. CASE RemoveOwnLikes(s)
        <3>1. req'[s].user = req[s].user /\ req'[s].op = req[s].op
            BY <2>4, AfterGoto DEF RemoveOwnLikes, At
        <3>2. c \in CommentsBy(req[s].user)
            BY <2>0, <2>4, <3>1 DEF RemoveOwnLikes, CommentsBy, LiveComments
        <3>3. <<"account", c>> \in lateComments
            BY <2>4, <3>1, <3>2 DEF RemoveOwnLikes, At, Emptied
        <3> QED
            BY <2>0, <3>3 DEF RecordedComments
    <2> QED
        BY <1>2, <2>1, <2>2, <2>3, <2>4, Waits, StepsTo DEF Elsewhere
<1>3. ASSUME req'[s].pc = "dropAccount", NEW l \in likes', l[1] = u
      PROVE  <<"account", l>> \in lateLikes'
    <2>0. <<"account", l>>[2] = l
        OBVIOUS
    <2>1. CASE req'[s] = req[s] /\ Busy(s)
        <3>1. CASE l \in likes
            <4>1. <<"account", l>> \in lateLikes
                BY <1>3, <2>1, <3>1 DEF Emptied
            <4> QED
                BY <2>0, <1>3, <4>1 DEF RecordedLikes
        <3>2. CASE l \notin likes
            <4>1. RemovalPast(l[1], {"dropAccount"})
                BY <1>3, <2>1 DEF RemovalPast, Erasing
            <4> QED
                BY <1>3, <3>2, <4>1 DEF RecordedLikes
        <3> QED
            BY <3>1, <3>2
    <2>2. CASE Start(s)
        BY <1>3, <2>2, StartsAtDoor DEF Doors
    <2>3. CASE RemoveOwnLikes(s)
        <3>1. req'[s].user = req[s].user
            BY <2>3, AfterGoto DEF RemoveOwnLikes, At
        <3> QED
            BY <1>3, <2>3, <3>1 DEF RemoveOwnLikes
    <2> QED
        BY <1>3, <2>1, <2>2, <2>3, Waits, StepsTo DEF Elsewhere
<1> QED
    BY <1>1, <1>2, <1>3 DEF Emptied

\* What every request under way can count on.
HistInv ==
    \A r \in Reqs :
        Busy(r) => Tracked(r) /\ Fresh(r) /\ Swept(r) /\ Emptied(r) /\ Gathered(r)

LEMMA HistAlways == HSpec => []HistInv
<1>1. HInit => HistInv
    BY DEF HInit, Init, Busy, HistInv
<1>2. Typed /\ SlugsUnique /\ Threads /\ HistInv /\ [HNext]_allVars => HistInv'
    <2> SUFFICES ASSUME Typed, SlugsUnique, Threads, HistInv, [HNext]_allVars,
                        NEW s \in Reqs, Busy(s)'
                 PROVE  (Tracked(s) /\ Fresh(s) /\ Swept(s) /\ Emptied(s) /\ Gathered(s))'
        BY DEF HistInv
    <2>1. [Next]_vars /\ Recorded /\ RecordedComments /\ RecordedLikes
        BY RecordHolds, RecordHoldsLate
    <2>2. Busy(s) => Tracked(s) /\ Fresh(s) /\ Swept(s) /\ Emptied(s) /\ Gathered(s)
        BY DEF HistInv
    <2> QED
        BY <2>1, <2>2, TrackedStep, FreshStep, SweptStep, EmptiedStep, GatheredStep
<1> QED
    BY <1>1, <1>2, HistoryImplements, TypedAlways, UniqueSlugs, ThreadsAlways, PTL DEF HSpec

\* A request rewrites or deletes only the posts of its own user, unless the slug it
\* was allowed to use was handed to another author's post before it looked it up again
\* (require-owner.ts:29-37, posts.ts:63-87).
THEOREM OwnersChange == HSpec => ChangedByOwner
<1>1. Typed /\ HistInv /\ [HNext]_allVars =>
        [ \A r \in Reqs, p \in LivePosts :
             Busy(r) /\ req'[r] # req[r] /\ posts'[p] # posts[p]
               => req[r].user = posts[p].author \/ <<r, p>> \in slipped ]_allVars
    <2> SUFFICES ASSUME Typed, HistInv, [HNext]_allVars, NEW r \in Reqs, NEW p \in LivePosts,
                        Busy(r), req'[r] # req[r], posts'[p] # posts[p]
                 PROVE  Mine(r, p)
        BY DEF Mine
    <2>0. [Next]_vars
        BY RecordHolds
    <2>1. ASSUME NEW t \in Reqs, SavePost(t) \/ DropPost(t), p = req[t].post PROVE Mine(r, p)
        <3>1. Step(t) /\ Busy(t)
            BY <2>1 DEF Step, PostStep, SavePost, DropPost, At
        <3>2. t = r
            BY <3>1, OthersWait
        <3>3. Holding(r)
            <4>1. CASE SavePost(t)
                BY <3>2, <4>1, BusyFields, OpsAssumption DEF SavePost, At, Fits, Holding
            <4>2. CASE DropPost(t)
                BY <3>2, <4>2 DEF DropPost, At, Holding
            <4> QED
                BY <2>1, <4>1, <4>2
        <3> QED
            BY <2>1, <3>2, <3>3 DEF HistInv, Tracked
    <2>2. CASE p \in LivePosts'
        BY <2>0, <2>1, <2>2, PostOrigin
    <2>3. CASE p \notin LivePosts'
        BY <2>0, <2>1, <2>3, PostLost
    <2> QED
        BY <2>2, <2>3
<1> QED
    BY <1>1, HistoryImplements, TypedAlways, HistAlways, PTL DEF HSpec, ChangedByOwner

LEMMA CandidateDerived ==
    ASSUME NEW t \in Titles, NEW n \in Nat
    PROVE  Derived(Candidate(t, n), t)
<1> DEFINE b == Slugify[t][2]
<1>1. b \in Seq(Nat)
    BY TitlesAssumption
<1>2. CASE n = 1
    BY <1>2 DEF Derived, Candidate
<1>3. CASE n # 1
    <2>1. Candidate(t, n) = <<Slugify[t][1], Append(b, n)>>
        BY <1>3 DEF Candidate
    <2>2. Append(b, n) # <<>> /\ Append(b, n)[Len(Append(b, n))] = n
        BY <1>1
    <2>3. Candidate(t, n)[2] = Append(b, n)
        BY <2>1
    <2> HIDE DEF b
    <2> QED
        BY <2>2, <2>3 DEF Derived
<1> QED
    BY <1>2, <1>3

\* The slug of a post is a candidate of its title, unless a rename overtook another
\* that had loaded the post (post.ts:206-218).
THEOREM SlugsFollow == HSpec => []SlugFollowsTitle
<1>1. HInit => SlugFollowsTitle
    BY DEF HInit, Init, LivePosts, Unborn, SlugFollowsTitle
<1>2. Typed /\ HistInv /\ SlugFollowsTitle /\ [HNext]_allVars => SlugFollowsTitle'
    <2> SUFFICES ASSUME Typed, HistInv, SlugFollowsTitle, [HNext]_allVars,
                        NEW p \in LivePosts', p \notin crossed'
                 PROVE  Derived(posts'[p].slug, posts'[p].title)
        BY DEF SlugFollowsTitle, Derived
    <2>0. [Next]_vars /\ Recorded
        BY RecordHolds
    <2>1. p \notin crossed
        BY <2>0 DEF Recorded
    <2>2. CASE p \in LivePosts /\ posts'[p] = posts[p]
        BY <2>1, <2>2 DEF SlugFollowsTitle
    <2>3. ASSUME NEW r \in Reqs, InsertPost(r),
                 posts'[p].title = req[r].title, posts'[p].slug = Cand(r)
          PROVE  Derived(posts'[p].slug, posts'[p].title)
        <3>1. req[r].title \in Titles /\ req[r].n \in Nat
            BY <2>3, BusyFields, OpsAssumption DEF InsertPost, At, Fits
        <3> QED
            BY <2>3, <3>1, CandidateDerived DEF Cand
    <2>4. ASSUME NEW r \in Reqs, SavePost(r), p = req[r].post, p \in LivePosts,
                 posts'[p].title = IF req[r].title = NoTitle THEN posts[p].title
                                   ELSE req[r].title,
                 posts'[p].slug = IF req[r].title # NoTitle /\ Cand(r) # req[r].slug
                                  THEN Cand(r) ELSE posts[p].slug
          PROVE  Derived(posts'[p].slug, posts'[p].title)
        <3>1. CASE req[r].title = NoTitle
            BY <2>1, <2>4, <3>1 DEF SlugFollowsTitle
        <3>2. CASE req[r].title # NoTitle
            <4>1. /\ req[r].title \in Titles /\ req[r].n \in Nat /\ req[r].op = "updatePost"
                  /\ Busy(r) /\ req[r].pc = "savePost"
                BY <2>4, <3>2, BusyFields, OpsAssumption DEF SavePost, At, Fits
            <4>2. posts[p].slug = req[r].slug
                BY <2>1, <2>4, <3>2, <4>1 DEF HistInv, Fresh, Renaming
            <4>3. posts'[p].slug = Cand(r) /\ posts'[p].title = req[r].title
                BY <2>4, <3>2, <4>2
            <4> QED
                BY <4>1, <4>3, CandidateDerived DEF Cand
        <3> QED
            BY <3>1, <3>2
    <2> QED
        BY <2>0, <2>2, <2>3, <2>4, PostOrigin
<1> QED
    BY <1>1, <1>2, HistoryImplements, TypedAlways, HistAlways, PTL DEF HSpec

-----------------------------------------------------------------------------
(* What overlapping requests can leave behind.                              *)

\* A like or a comment whose post has gone was written after the removal of the post
\* had passed it; every other one went before the post, whichever removals, crashes
\* and writes overlapped (post.ts:224-234).
THEOREM NothingOutlives == HSpec => []NothingOutlivesPost
<1>1. HInit => NothingOutlivesPost
    BY DEF HInit, Init, LiveComments, Unborn, NothingOutlivesPost
<1>2. Typed /\ HistInv /\ NothingOutlivesPost /\ [HNext]_allVars => NothingOutlivesPost'
    <2> SUFFICES ASSUME Typed, HistInv, NothingOutlivesPost, [HNext]_allVars
                 PROVE  NothingOutlivesPost'
        OBVIOUS
    <2>0. [Next]_vars /\ RecordedComments /\ RecordedLikes
        BY RecordHolds, RecordHoldsLate
    <2>1. ASSUME NEW l \in likes', l[2] \notin LivePosts'
          PROVE  <<"post", l>> \in lateLikes'
        <3>0. <<"post", l>>[2] = l
            OBVIOUS
        <3>1. CASE l \in likes /\ l[2] \in LivePosts
            <4>1. PICK r \in Reqs : DropPost(r) /\ l[2] = req[r].post
                BY <2>0, <2>1, <3>1, PostLost
            <4>2. <<"post", l>> \in lateLikes
                BY <3>1, <4>1 DEF DropPost, At, HistInv, Swept
            <4> QED
                BY <2>0, <2>1, <3>0, <4>2 DEF RecordedLikes
        <3>2. CASE l \in likes /\ l[2] \notin LivePosts
            BY <2>0, <2>1, <3>0, <3>2 DEF NothingOutlivesPost, RecordedLikes
        <3>3. CASE l \notin likes
            <4>1. l[2] \notin LivePosts
                BY <2>0, <2>1, <3>3, PostLost
            <4>2. LikesSwept(l[2])
                BY <4>1 DEF LikesSwept
            <4> QED
                BY <2>0, <2>1, <3>3, <4>2 DEF RecordedLikes
        <3> QED
            BY <3>1, <3>2, <3>3
    <2>2. ASSUME NEW c \in LiveComments', comments'[c].post \notin LivePosts'
          PROVE  <<"post", c>> \in lateComments'
        <3>0. <<"post", c>>[2] = c
            OBVIOUS
        <3>1. CASE c \in LiveComments /\ comments[c].post \in LivePosts
            <4>1. comments'[c].post = comments[c].post
                BY <2>0, <3>1, CommentKept
            <4>2. PICK r \in Reqs : DropPost(r) /\ comments[c].post = req[r].post
                BY <2>0, <2>2, <3>1, <4>1, PostLost
            <4>3. <<"post", c>> \in lateComments
                BY <3>1, <4>2 DEF DropPost, At, HistInv, Swept
            <4> QED
                BY <2>0, <3>0, <4>3 DEF RecordedComments
        <3>2. CASE c \in LiveComments /\ comments[c].post \notin LivePosts
            BY <2>0, <3>0, <3>2 DEF NothingOutlivesPost, RecordedComments
        <3>3. CASE c \notin LiveComments
            <4>1. comments' # comments
                BY <3>3 DEF LiveComments
            <4>2. comments'[c].post \notin LivePosts
                BY <2>0, <2>2, <4>1, PostLost
            <4>3. ThreadSwept(comments'[c].post)
                BY <4>2 DEF ThreadSwept
            <4> QED
                BY <2>0, <3>3, <4>3 DEF RecordedComments
        <3> QED
            BY <3>1, <3>2, <3>3
    <2> QED
        BY <2>1, <2>2 DEF NothingOutlivesPost
<1> QED
    BY <1>1, <1>2, HistoryImplements, TypedAlways, HistAlways, PTL DEF HSpec

\* An account that has gone left only what came up when its removal had passed it,
\* whatever other requests of the account or of others, other removals of it and
\* crashes did (user.ts:185-209, users.ts:51).
THEOREM ErasureComplete == HSpec => []ErasedLeaveNothing
<1>1. HInit => ErasedLeaveNothing
    BY DEF HInit, Init, ErasedLeaveNothing
<1>2. Typed /\ HistInv /\ ErasedLeaveNothing /\ [HNext]_allVars => ErasedLeaveNothing'
    <2> SUFFICES ASSUME Typed, HistInv, ErasedLeaveNothing, [HNext]_allVars,
                        NEW u \in UserIds, u \notin users'
                 PROVE  /\ PostsBy(u)' \subseteq unlisted'
                        /\ \A c \in CommentsBy(u)' : <<"account", c>> \in lateComments'
                        /\ \A l \in likes' : l[1] = u => <<"account", l>> \in lateLikes'
        BY DEF ErasedLeaveNothing
    <2>0. [Next]_vars /\ Recorded /\ RecordedComments /\ RecordedLikes
        BY RecordHolds, RecordHoldsLate
    <2>1. \A x : <<"account", x>>[2] = x
        OBVIOUS
    <2>2. \A S : RemovalPast(u, S)'
        BY DEF RemovalPast
    <2>3. CASE u \in users
        <3>1. PICK r \in Reqs : /\ At(r, "dropAccount") /\ users' = users \ {req[r].user}
                                /\ UNCHANGED <<posts, comments, likes>>
            BY <2>0, <2>3, AccountsOnlyGo
        <3>2. /\ Busy(r) /\ req[r].pc = "dropAccount" /\ req[r].user = u
              /\ req[r].op = "removeUser"
            BY <2>3, <3>1, BusyFields, OpsAssumption DEF At, Fits
        <3>3. Emptied(r) /\ RemovalPast(u, AfterList) /\ Wanted(r) = {}
            BY <3>2 DEF HistInv, RemovalPast, Erasing, AfterList, Wanted
        <3>4. PostsBy(u)' = PostsBy(u) /\ CommentsBy(u)' = CommentsBy(u) /\ likes' = likes
            BY <3>1 DEF PostsBy, CommentsBy, LivePosts, LiveComments
        <3>5. PostsBy(u) \subseteq unlisted
            BY <3>2, <3>3 DEF Emptied, Listed, AfterList
        <3>6. ASSUME NEW p \in PostsBy(u)' PROVE p \in unlisted'
            <4>1. p \in LivePosts' /\ posts'[p].author = u /\ p \in unlisted
                BY <3>4, <3>5, <3>6 DEF PostsBy
            <4>2. RemovalPast(posts[p].author, AfterList)'
                BY <4>1 DEF RemovalPast
            <4> QED
                BY <2>0, <3>3, <4>1, <4>2 DEF Recorded
        <3>7. ASSUME NEW c \in CommentsBy(u)' PROVE <<"account", c>> \in lateComments'
            <4>1. c \in LiveComments' /\ <<"account", c>> \in lateComments
                BY <3>2, <3>3, <3>4, <3>7 DEF Emptied, CommentsBy
            <4> QED
                BY <2>0, <2>1, <4>1 DEF RecordedComments
        <3>8. ASSUME NEW l \in likes', l[1] = u PROVE <<"account", l>> \in lateLikes'
            <4>1. <<"account", l>> \in lateLikes
                BY <3>2, <3>3, <3>4, <3>8 DEF Emptied
            <4> QED
                BY <2>0, <2>1, <3>8, <4>1 DEF RecordedLikes
        <3> QED
            BY <3>6, <3>7, <3>8
    <2>4. CASE u \notin users
        <3>0. \A S : RemovalPast(u, S)
            BY <2>4 DEF RemovalPast
        <3>1. ASSUME NEW p \in PostsBy(u)' PROVE p \in unlisted'
            <4>1. p \in LivePosts' /\ posts'[p].author = u
                BY <3>1 DEF PostsBy
            <4>2. p \notin GotSlug => p \in unlisted
                BY <2>0, <2>4, <4>1, PostKept DEF ErasedLeaveNothing, PostsBy
            <4>3. RemovalPast(posts[p].author, AfterList)'
                BY <4>1 DEF RemovalPast
            <4> QED
                BY <2>0, <3>0, <4>1, <4>2, <4>3 DEF Recorded
        <3>2. ASSUME NEW c \in CommentsBy(u)' PROVE <<"account", c>> \in lateComments'
            <4>1. c \in LiveComments' /\ comments'[c].author = u
                BY <3>2 DEF CommentsBy
            <4>2. CASE c \in LiveComments
                <5>1. <<"account", c>> \in lateComments
                    BY <2>0, <2>4, <4>1, <4>2, CommentKept DEF ErasedLeaveNothing, CommentsBy
                <5> QED
                    BY <2>0, <2>1, <4>1, <5>1 DEF RecordedComments
            <4>3. CASE c \notin LiveComments
                BY <2>0, <3>0, <4>1, <4>3 DEF RecordedComments
            <4> QED
                BY <4>2, <4>3
        <3>3. ASSUME NEW l \in likes', l[1] = u PROVE <<"account", l>> \in lateLikes'
            <4>1. CASE l \in likes
                BY <2>0, <2>1, <2>4, <3>3, <4>1 DEF ErasedLeaveNothing, RecordedLikes
            <4>2. CASE l \notin likes
                BY <2>0, <3>0, <3>3, <4>2 DEF RecordedLikes
            <4> QED
                BY <4>1, <4>2
        <3> QED
            BY <3>1, <3>2, <3>3
    <2> QED
        BY <2>3, <2>4
<1> QED
    BY <1>1, <1>2, HistoryImplements, TypedAlways, HistAlways, PTL DEF HSpec

\* The replies that a deletion leaves without their parent were written after it had
\* read the subtree (comment.ts:163-199).
THEOREM ThreadsGoWhole == HSpec => DeletionOrphansNothing
<1>1. Typed /\ HistInv /\ [HNext]_allVars =>
        [ (\E r \in Reqs : At(r, "deleteSubtree") /\ ~ Busy(r)') /\ comments' # comments
            => \A c \in Orphans' \ Orphans : <<"parent", c>> \in lateComments ]_allVars
    <2> SUFFICES ASSUME Typed, HistInv, [HNext]_allVars, NEW r \in Reqs,
                        At(r, "deleteSubtree"), ~ Busy(r)', comments' # comments,
                        NEW c \in Orphans' \ Orphans
                 PROVE  <<"parent", c>> \in lateComments
        OBVIOUS
    <2>0. [Next]_vars
        BY RecordHolds
    <2>1. comments' = Without(req[r].ids)
        <3>1. PICK t \in Reqs : Step(t) /\ Writes(t)
            BY <2>0, WhoWrites DEF storeVars
        <3>2. t = r
            BY <3>1, OthersWait DEF Busy, At
        <3> QED
            BY <3>1, <3>2
            DEF Writes, At, InsertPost, SavePost, DropPost, InsertComment, SaveComment,
                RemovePostThread, DeleteSubtree, RemoveOwnComments, WriteLike,
                RemovePostLikes, RemoveOwnLikes, DropAccount
    <2>2. /\ LiveComments' = LiveComments \ req[r].ids
          /\ \A d \in LiveComments' : comments'[d] = comments[d]
        BY <2>1 DEF Without, LiveComments, Gone
    <2>3. /\ c \in LiveComments /\ c \notin req[r].ids
          /\ comments[c].parent \in LiveComments \cap req[r].ids
        BY <2>2 DEF Orphans
    <2> QED
        BY <2>3 DEF HistInv, Gathered, At
<1> QED
    BY <1>1, HistoryImplements, TypedAlways, HistAlways, PTL DEF HSpec, DeletionOrphansNothing

=============================================================================
