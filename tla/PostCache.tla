------------------------------ MODULE PostCache ------------------------------
(***************************************************************************)
(* What one browser holds of one post: the feed and the detail entries of  *)
(* the query cache (hooks/use-posts.ts, lib/query-client.ts), the          *)
(* optimistic like (hooks/use-likes.ts, LikeButton.tsx), the sign-in and   *)
(* sign-out that invalidate both (hooks/use-auth.ts) and the edit form     *)
(* seeded from the detail (EditPostPage.tsx, AutoForm.tsx), against what   *)
(* the server serializes for a viewer (lib/services/post.ts).              *)
(*                                                                         *)
(* Nobody else likes or edits the post.  TanStack Query is modelled from   *)
(* what the code asks of it: an invalidation marks every entry stale and   *)
(* refetches the observed ones; it replaces a fetch that runs only for an  *)
(* observed entry that has data; a cancelled fetch restores the entry it   *)
(* started from; writing an entry makes it fresh.                          *)
(***************************************************************************)
EXTENDS Integers, FiniteSets

CONSTANTS
    MaxActs,    \* bound: clicks on the like button, sign-ins, sign-outs, saves
    MaxAges     \* bound: entries that grow old

ASSUME BoundsAssumption == MaxActs \in Nat /\ MaxAges \in Nat

Keys == {"list", "detail"}
Pages == {"feed", "post", "edit", "login"}
Toggles == 1 .. MaxActs

VARIABLES
    session,    \* the cookie is of a session the server has
    mine,       \* the viewer's like is in the database
    body,       \* the post's body in the database: "full" or "teaser"
    me,         \* the cached identity is not null
    page,       \* the page that is mounted
    cache,      \* cache[k]: the entry of the query cache
    toggle,     \* toggle[t]: a like or unlike mutation
    form,       \* the body the edit form holds, "none" when it is not mounted
    auth,       \* the sign-in or sign-out in progress
    acts,       \* how many of the former there were
    ages        \* how often an entry grew old

server == <<session, mine, body>>
authVars == <<me, auth>>
bounds == <<acts, ages>>
vars == <<server, authVars, page, cache, toggle, form, bounds>>

None == [gated |-> TRUE, liked |-> "none", count |-> 0, body |-> "none"]
Idle == [pc |-> "idle"]
Unused == [pc |-> "unused"]
Done == [pc |-> "done"]

Payloads == [gated : BOOLEAN, liked : {"none", "yes", "no"}, count : -MaxActs .. MaxActs + 1,
             body : {"full", "teaser"}]
Texts == {"full", "teaser"}

TypeOK ==
    /\ {session, mine, me} \subseteq BOOLEAN
    /\ body \in Texts
    /\ page \in Pages
    /\ \A k \in Keys :
          /\ cache[k].data \in Payloads \cup {None}
          /\ {cache[k].stale, cache[k].error, cache[k].behind} \subseteq BOOLEAN
          /\ cache[k].fetch.pc \in {"idle", "asked", "half", "read"}
    /\ \A t \in Toggles : toggle[t].pc \in {"unused", "sent", "applied", "settling", "done"}
    /\ form \in Texts \cup {"none"}
    /\ form # "none" => page = "edit"
    /\ auth \in {"none", "login", "logout", "loggedOut"}
    /\ acts \in 0 .. MaxActs /\ ages \in 0 .. MaxAges

\* An entry that was never fetched.
Missing == [data |-> None, stale |-> FALSE, error |-> FALSE, fetch |-> Idle, behind |-> FALSE]

Init ==
    /\ session \in BOOLEAN /\ me = session
    /\ mine \in BOOLEAN
    /\ body = "full"
    /\ page = "login"
    /\ cache = [k \in Keys |-> Missing]
    /\ toggle = [t \in Toggles |-> Unused]
    /\ form = "none"
    /\ auth = "none" /\ acts = 0 /\ ages = 0

-----------------------------------------------------------------------------
(* The query cache. *)

\* The entry a mounted page observes: usePosts on the feed, usePost on the
\* post and on its editor.
Observed(p) ==
    CASE p = "feed" -> {"list"}
      [] p \in {"post", "edit"} -> {"detail"}
      [] p = "login" -> {}

Running(e) == e.fetch # Idle

\* A request goes out with the cookie of the moment.
StartFetch(e, as) ==
    [e EXCEPT !.fetch = [pc |-> "asked", as |-> as,
                         back |-> [data |-> e.data, stale |-> e.stale, error |-> e.error],
                         old |-> FALSE]]

\* An entry is fetched when a page that observes it mounts, unless it is fresh
\* or a fetch runs.
Mount(c, p) ==
    [k \in Keys |-> IF k \in Observed(p) /\ ~Running(c[k]) /\ (c[k].stale \/ c[k].data = None)
                    THEN StartFetch(c[k], session) ELSE c[k]]

Outdated(f) == IF f = Idle THEN Idle ELSE [f EXCEPT !.old = TRUE]

\* invalidateQueries on posts.all, a prefix of both keys.
Invalidate(c, p, as) ==
    [k \in Keys |->
        LET e == [c[k] EXCEPT !.stale = (c[k].data # None), !.fetch = Outdated(c[k].fetch)]
        IN IF k \in Observed(p) /\ (e.data # None \/ ~Running(e)) THEN StartFetch(e, as) ELSE e]

\* cancelQueries on posts.all.
Cancel(c) ==
    [k \in Keys |->
        IF Running(c[k])
        THEN [c[k] EXCEPT !.data = c[k].fetch.back.data, !.stale = c[k].fetch.back.stale,
                          !.error = c[k].fetch.back.error, !.fetch = Idle]
        ELSE c[k]]

\* setQueryData, for an entry that has data.
Write(e, data) ==
    IF data = None THEN e ELSE [e EXCEPT !.data = data, !.stale = FALSE, !.error = FALSE]

\* A mutation that waits for the refetch of k is over when that fetch ends.
Release(ts, K) ==
    [t \in Toggles |-> IF ts[t].pc = "settling" /\ ts[t].waits \subseteq K THEN Done ELSE ts[t]]

\* The button that issued the mutations is gone.
Unmounted(ts) ==
    [t \in Toggles |-> IF ts[t].pc \in {"unused", "done"} THEN ts[t]
                       ELSE [ts[t] EXCEPT !.shown = FALSE]]

-----------------------------------------------------------------------------
(* Serialization on the server. *)

\* toDto: the full body goes to a signed-in reader of the post, never into the
\* feed; `gated` tells an anonymous reader.
Dto(k, viewer, liked, count) ==
    [gated |-> ~viewer, liked |-> liked, count |-> count,
     body |-> IF viewer /\ k = "detail" THEN body ELSE "teaser"]

\* likedPostIds, undefined for an anonymous viewer.
LikedBy(viewer) == IF ~viewer THEN "none" ELSE IF mine THEN "yes" ELSE "no"

Likes == IF mine THEN 1 ELSE 0

-----------------------------------------------------------------------------
(* Mutants: the bug each stands for is the one its name says. *)

TransitionKeepsPosts(who) ==
    /\ me' = who
    /\ auth' = "none"
    /\ UNCHANGED <<cache, toggle>>

SeedOutlivesPage(c, p) ==
    IF form # "none" THEN form
    ELSE IF p # "edit" \/ ~me \/ c["detail"].data = None \/ c["detail"].error THEN "none"
    ELSE c["detail"].data.body

FetchFailsUnnoticed(k) ==
    /\ Running(cache[k])
    /\ cache' = [cache EXCEPT ![k].fetch = Idle, ![k].error = (k = "detail")]
    /\ toggle' = IF k \in Observed(page) THEN Unmounted(toggle) ELSE toggle
    /\ form' = IF page = "edit" /\ k = "detail" THEN "none" ELSE form
    /\ UNCHANGED <<server, authVars, page, bounds>>

-----------------------------------------------------------------------------
(* Fetches. *)

\* The edit form seeds its fields when it mounts, and never again.
Seed(c, p) ==
    IF p # "edit" \/ ~me \/ c["detail"].data = None \/ c["detail"].error THEN "none"
    ELSE IF form # "none" THEN form
    ELSE c["detail"].data.body

\* The server finds the post and who likes it, then counts the likes.
ReadLiked(k) ==
    /\ cache[k].fetch.pc = "asked"
    /\ LET f == cache[k].fetch
           viewer == f.as /\ session
       IN cache' = [cache EXCEPT ![k].fetch =
                       [pc |-> "half", as |-> viewer, liked |-> LikedBy(viewer),
                        back |-> f.back, old |-> f.old]]
    /\ UNCHANGED <<server, authVars, page, toggle, form, bounds>>

ReadCount(k) ==
    /\ cache[k].fetch.pc = "half"
    /\ LET f == cache[k].fetch
       IN cache' = [cache EXCEPT ![k].fetch =
                       [pc |-> "read", got |-> Dto(k, f.as, f.liked, Likes),
                        back |-> f.back, old |-> f.old]]
    /\ UNCHANGED <<server, authVars, page, toggle, form, bounds>>

\* The answer makes the entry fresh, whenever it was asked for.
Land(k) ==
    /\ cache[k].fetch.pc = "read"
    /\ cache' = [cache EXCEPT ![k] =
                    [data |-> cache[k].fetch.got, stale |-> FALSE, error |-> FALSE,
                     fetch |-> Idle, behind |-> cache[k].fetch.old]]
    /\ toggle' = Release(toggle, {k})
    /\ form' = Seed(cache', page)
    /\ UNCHANGED <<server, authVars, page, bounds>>

\* The request failed twice.  A page whose query is in error shows a message
\* in place of the button and of the form.
FetchFails(k) ==
    /\ Running(cache[k])
    /\ cache' = [cache EXCEPT ![k].fetch = Idle, ![k].error = (k = "detail")]
    /\ toggle' = LET ts == Release(toggle, {k}) IN
                 IF k \in Observed(page) THEN Unmounted(ts) ELSE ts
    /\ form' = Seed(cache', page)
    /\ UNCHANGED <<server, authVars, page, bounds>>

\* Five minutes pass.
Age(k) ==
    /\ cache[k].data # None /\ ~cache[k].stale /\ ages < MaxAges
    /\ ages' = ages + 1
    /\ cache' = [cache EXCEPT ![k].stale = TRUE]
    /\ UNCHANGED <<server, authVars, page, toggle, form, acts>>

\* The window is focused or online again.
Refocus ==
    /\ cache' = Mount(cache, page)
    /\ cache' # cache
    /\ UNCHANGED <<server, authVars, page, toggle, form, bounds>>

\* The reader goes to another page; RequireAuth turns an anonymous one away
\* from the editor.
Go(p) ==
    /\ p # page
    /\ p = "edit" => me
    /\ page' = p
    /\ cache' = Mount(cache, p)
    /\ toggle' = Unmounted(toggle)
    /\ form' = Seed(cache, p)
    /\ UNCHANGED <<server, authVars, bounds>>

-----------------------------------------------------------------------------
(* The like button. *)

Liked(data) == [data EXCEPT !.liked = "yes", !.count = @ + 1]
Unliked(data) == [data EXCEPT !.liked = "no", !.count = @ - 1]

\* The button's isPending: of the mutations it issued, not of an earlier one.
Pending == \E t \in Toggles : toggle[t].pc \in {"sent", "applied", "settling"} /\ toggle[t].shown

\* onMutate: cancel what is in flight, keep what the caches hold, and write
\* the expected result into both.
Click(t) ==
    LET c == Cancel(cache)
        like == cache["detail"].data.liked # "yes"
        Expected(data) == IF data = None THEN None ELSE IF like THEN Liked(data) ELSE Unliked(data)
    IN /\ page = "post" /\ cache["detail"].data # None /\ ~cache["detail"].error
       /\ ~Pending
       /\ acts < MaxActs /\ acts' = acts + 1
       /\ toggle[t].pc = "unused" /\ \A u \in 1 .. t - 1 : toggle[u].pc # "unused"
       /\ cache' = [k \in Keys |-> Write(c[k], Expected(c[k].data))]
       /\ toggle' = [Release(toggle, Keys) EXCEPT ![t] =
                        [pc |-> "sent", like |-> like, as |-> session, shown |-> TRUE,
                         back |-> [k \in Keys |-> c[k].data]]]
       /\ UNCHANGED <<server, authVars, page, form, ages>>

\* The server handles the request; a retry does the same again.
Apply(t) ==
    /\ toggle[t].pc = "sent" /\ toggle[t].as /\ session
    /\ mine' = toggle[t].like
    /\ toggle' = [toggle EXCEPT ![t].pc = "applied"]
    /\ UNCHANGED <<session, body, authVars, page, cache, form, bounds>>

\* onSettled invalidates and waits for the refetch of what is on screen.
Settle(c, p) == Invalidate(c, p, session)

Settled(ts, t) ==
    [ts EXCEPT ![t] = IF Observed(page) = {} THEN Done
                      ELSE [pc |-> "settling", waits |-> Observed(page), shown |-> ts[t].shown]]

\* Refetches that an invalidation replaces end the wait for them.
Replaced(c) == { k \in Observed(page) : Running(c[k]) /\ c[k].data # None }

Answer(t) ==
    /\ toggle[t].pc = "applied"
    /\ cache' = Settle(cache, page)
    /\ toggle' = Settled(Release(toggle, Replaced(cache)), t)
    /\ UNCHANGED <<server, authVars, page, form, bounds>>

\* onError puts back what onMutate kept.
RollBack(c, t) == [k \in Keys |-> Write(c[k], toggle[t].back[k])]

\* Both tries failed, or their answers were lost.
Fail(t) ==
    /\ toggle[t].pc \in {"sent", "applied"}
    /\ cache' = Settle(RollBack(cache, t), page)
    /\ toggle' = Settled(Release(toggle, Replaced(RollBack(cache, t))), t)
    /\ UNCHANGED <<server, authVars, page, form, bounds>>

-----------------------------------------------------------------------------
(* Signing in and out, and the editor. *)

Begin(kind) ==
    /\ auth = "none" /\ acts < MaxActs
    /\ acts' = acts + 1
    /\ auth' = kind
    /\ UNCHANGED <<server, me, page, cache, toggle, form, ages>>

Login == page = "login" /\ Begin("login")
Logout == me /\ Begin("logout")

\* useAuthTransition: the new identity, then every post is invalidated.
Transition(who) ==
    /\ me' = who
    /\ cache' = Invalidate(cache, page, who)
    /\ toggle' = Release(toggle, Replaced(cache))
    /\ auth' = "none"

\* The answer brings the cookie.
LoginAnswered ==
    /\ auth = "login"
    /\ session' = TRUE
    /\ Transition(TRUE)
    /\ UNCHANGED <<mine, body, page, form, bounds>>

LogoutApplied ==
    /\ auth = "logout" /\ session
    /\ session' = FALSE
    /\ auth' = "loggedOut"
    /\ UNCHANGED <<mine, body, me, page, cache, toggle, form, bounds>>

LogoutAnswered ==
    /\ auth = "loggedOut"
    /\ Transition(FALSE)
    /\ form' = "none"
    /\ UNCHANGED <<server, page, bounds>>

AuthFails ==
    /\ auth # "none"
    /\ auth' = "none"
    /\ UNCHANGED <<server, me, page, cache, toggle, form, bounds>>

\* The form is saved as it was seeded; the answer is not delayed.
Save ==
    /\ page = "edit" /\ form # "none" /\ session /\ acts < MaxActs
    /\ acts' = acts + 1
    /\ body' = form
    /\ page' = "post"
    /\ cache' = Invalidate(cache, "edit", session)
    /\ toggle' = Release(toggle, Replaced(cache))
    /\ form' = "none"
    /\ UNCHANGED <<session, mine, authVars, ages>>

-----------------------------------------------------------------------------
Next ==
    \/ \E k \in Keys : ReadLiked(k) \/ ReadCount(k) \/ Land(k) \/ FetchFails(k) \/ Age(k)
    \/ Refocus
    \/ \E p \in Pages : Go(p)
    \/ \E t \in Toggles : Click(t) \/ Apply(t) \/ Answer(t) \/ Fail(t)
    \/ Login \/ Logout \/ LoginAnswered \/ LogoutApplied \/ LogoutAnswered \/ AuthFails
    \/ Save

Spec == Init /\ [][Next]_vars

-----------------------------------------------------------------------------
\* Nothing is in progress, and no answer to a sign-out was lost.
Quiet ==
    /\ \A t \in Toggles : toggle[t].pc \in {"unused", "done"}
    /\ auth = "none" /\ me = session

\* Once every mutation is over, an entry that counts as fresh tells what the
\* server would: for this viewer, gated or not, liked or not, and how often.
\* Only an answer that was on its way before the last change, and that the
\* invalidation let run, may be fresh and wrong (use-likes.ts:53-55,
\* use-auth.ts:25-33, use-posts.ts:7-12).
SettledAgrees ==
    Quiet => \A k \in Keys :
        LET e == cache[k] IN
        e.data # None /\ ~e.stale /\ ~Running(e) /\ ~e.behind
            => /\ e.data.gated = ~session
               /\ e.data.liked = LikedBy(session)
               /\ e.data.count = Likes

\* A button that is disabled until a refetch is over waits for one that runs:
\* fetches that are cancelled, replaced or shared never leave it disabled for
\* good (use-likes.ts:55, LikeButton.tsx:21-28).
ButtonNotStuck ==
    \A t \in Toggles : toggle[t].pc = "settling" => \E k \in toggle[t].waits : Running(cache[k])

-----------------------------------------------------------------------------
(* A statement of the code's comments that its steps do not keep. *)

\* use-auth.ts:25-33: a sign-in drops what was cached for the anonymous reader,
\* so a form that is saved unedited leaves the text as it was.
SaveKeepsText == body = "full"
=============================================================================
