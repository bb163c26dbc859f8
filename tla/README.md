# Verification of Blog-Chat-app

TLA+ models of the server's services, of its sessions and sockets, and of what the
client keeps of them, checked with TLC on small instances, with theorems TLAPS
checks for every value of the constants. Line references are to the repository;
`post.ts`, `comment.ts`, `like.ts`, `user.ts`, `oauth.ts` and `chat.ts` are those of
`apps/server/src/lib/services/`; `realtime/index.ts`, `routes/`, `middleware/` and
`lib/session.ts` those of `apps/server/src/`; `use-*.ts` and `*.tsx` those of
`apps/client/src/` (`hooks/`, `pages/`, `components/patterns/`).

## The system

One Node process serves an Express API and a Socket.io server over MongoDB (the
content) and Redis (sessions and the chat buffer); a React client talks to both. The
process handles all requests on one thread. A handler runs undisturbed up to its
next `await`; whatever other handlers do in between can change what it has already
read. Nothing uses a MongoDB transaction, so every multi-call operation can be
interleaved with any other and cut off at any call by a crash.

| Component | State | Operations | Made correct by |
|---|---|---|---|
| Chat buffer (`chat.ts`, `realtime/index.ts`, `lib/redis.ts`) | Redis list and expiry, commands in flight | `append` (lPush, lTrim, expire), `list`, `message` handler | over the cap only by appends still at work, contiguous history, publish only what is stored, every message answered |
| Posts (`post.ts`, `routes/v1/posts.ts`) | posts collection, unique slug index | create, update, remove, owner check | unique slugs, cap per account with a bounded overshoot, changed by their owner only, nothing left behind |
| Comments (`comment.ts`, `routes/v1/comments.ts`) | comments collection, parent edges | create, update, remove a subtree | bounded depth, replies on their post, whole subtrees deleted, written by their author only |
| Likes (`like.ts`) | pairs, unique index | like, unlike | no like without its post |
| Accounts (`user.ts`, `oauth.ts`, `routes/v1/users.ts`, `auth.ts`) | users collection, unique indexes | signup, OAuth, profile, removal | cap with a bounded overshoot, unique names, erasure complete |
| Sessions (`lib/session.ts`, `routes/v1/auth.ts`, `users.ts`) | Redis keys, the cookie | sign-in, logout, profile update, removal | a session speaks for one account; logout ends what it should; what outlives its session is accounted for |
| Realtime (`realtime/index.ts`) | open sockets, user rooms | handshake, presence, typing, disconnect | presence as the room sees it is current |
| Chat client (`use-chat.ts`, `ChatRoom.tsx`) | snapshot, live messages, draft, status | merge, send, type, reconnect | no message twice, none missing, every message answered |
| Post cache (`use-posts.ts`, `use-likes.ts`, `use-auth.ts`, `EditPostPage.tsx`) | query cache, like button, edit form | optimistic like, invalidation, sign-in and out, save | the cache settles on the server's state |
| Comment section (`use-comments.ts`, `CommentThread.tsx`, `CommentForm.tsx`) | list, tree, forms, mutations | write, reply, edit, delete, retry | own comments on screen, no text lost from a form that stays, no form stuck |
| Edges (validation, errors, environment, uploads, seed, static files, the other pages) | none that is shared | parsing, signing, wiring, rendering | not about interleaving |

Interactions: routes call services after `requireAuth`, `requireOwner` and
`validate`; `postService.remove` calls the comment service; `userService.remove`
calls `postService.remove`; logout calls `disconnectUser` of the realtime module;
chat messages go socket -> `append` -> Redis -> `io.emit` -> the hook of every page;
the client's mutations invalidate query-cache entries, whose refetches read what the
services wrote.

Hard behaviours: check-then-act over awaits (caps, slug probes, owner checks, depth
checks), cascades without transactions, pipelined Redis commands with partial
failure, stale session or slug reads, races between a removal and writes that
resolved their target before it, crashes inside a cascade; on the client, refetches
that are cancelled, shared or replaced while mutations wait for them, rollbacks to
old snapshots, retries of what was already done, a history and a live stream that
overlap, transports that die with what was on its way. `PROJECT.json` lists each at
its line, with the properties that watch it.

## Modules

### Chat buffer

`ChatLog` is the room without Redis: a log of stored messages, a stream of published
ones, the refused ones. A message is published at most once, after it was stored, in
the order of the log, never after a refusal.

`ChatBuffer` is the code. `handler[m]` is where the `message` handler of `m` stands;
`wire` and `replies` are the FIFO connection of the one shared client
(`lib/redis.ts`); `list` and `ttl` are the Redis key. `OnMessage`, `OnReply`
(`Resume`, `Abandon`) are the handler and `append`; `Execute` is Redis running the
next command; `ReplyError`, `Disconnect`, `KeyExpires` and `Crash` are the failures.
`done`, `log`, `epoch` and `room` are history variables: no guard reads them.
`Disconnect` rejects what was sent and keeps what was not yet written, as the client
library does with its offline queue.

`ChatBuffer` implements `ChatLog` (`ImplementsChatLog`: the log is `log`, the stream
is `room`, the refused are the failed handlers). What makes it true is the FIFO
connection: an append ahead in lPush stays ahead at every command.

### Content

`BlogStore` holds the four collections and the request slots. `req[r]` keeps what a
handler holds between two awaits: its label `pc`, its user, the slug of the URL, the
post or comment it has loaded. A slug is its words and the numbers that end it, so
that `foo-2` is one slug whether it is the second candidate of "Foo" or the first of
"Foo 2"; a title without letters or digits has the empty slug, which the schema
refuses. Post bodies, tags and covers are abstracted to `writer`, the user whose
request wrote the document last.

`PostService`, `CommentService` and `AccountRemoval` (likes and
`userService.remove`) have one action for every database call of the code. Whatever
the code does after the call and before the next await is part of the action, and
what a query leaves open stays open: the order in which a removal finds an account's
posts is any. `Ancestors`, what `$graphLookup` climbs to, is the least set that
holds the parents. `Blog` composes them: requests start in free slots, each step of
any of them may come next, and a crash ends them all and leaves the collections.

`BlogHistory` adds a record of what requests did to each other (`HNext` is `Next` and
`Record`); no action reads it. The owner check, the cascades and the slug of a rename
are right for a request that runs alone and can be upset by one that overlaps. The
record names each overlap that can upset them, and the properties say that nothing
else does:

| Record | What it holds | What it excuses |
|---|---|---|
| `slipped` | request and post: another author's post got a slug that the request had already taken for its own user's | rewriting or deleting that post (`ChangedByOwner`) |
| `crossed` | posts renamed while another request had loaded them for a rename | a slug that is not one of the title's (`SlugFollowsTitle`) |
| `unlisted` | posts that got their slug when a removal of their author had listed the posts already | outliving the account (`ErasedLeaveNothing`) |
| `lateComments`, `lateLikes` | what was written when a removal had passed the call that would have deleted it: with its post, its parent's subtree or its author's account | outliving the post or the account, or losing the parent (`NothingOutlivesPost`, `ErasedLeaveNothing`, `DeletionOrphansNothing`) |

A removal has passed a call while it stands at a later await, and when it is over; one
that a crash ended has passed nothing. Without the excuses each of the five statements
fails as soon as two requests overlap, which is what the code does (see below).

`CappedCollection` is the abstract cap of `demo-limits.ts`: creators count, and
insert later. `Blog` shows that each account's posts and each post's comments change
only as this collection does (`PostsCapped`, `CommentsCapped`), and `Accounts` the
same of accounts made by signup (`SignupsCapped`), so the overshoot bound proved for
the abstract module is theirs; `PostSlotsBounded` states it for the posts of an
account, with those about to be written counted in.

`MCBlog` gives TLC the titles and their slugs and the symmetry sets.

### Accounts

`Accounts` has signup, Google sign-in (`oauthService.findOrCreate`) and profile
updates over one users collection with its unique indexes; `signins` records which
account each Google identity reached. `InsertSignup`, `InsertOAuth` and `SaveUser`
are where the indexes refuse a name or email that an earlier check found free. The
last step of a removal may come at any time (`DropAccount`; its cascades are in
`AccountRemoval`). `MCAccounts` gives TLC the usernames.

### Sessions and sockets

`Realtime` is the session store, the cookies of `NBrowsers` browsers, the socket
server's view of each socket and one chat page per browser. A request is two steps or
three: `Start` is express-session loading what the cookie names. A sign-in then
destroys the session it loaded (`Regenerate`), and saves a new one and sets the
cookie (`Establish`); a profile update saves the session it loaded (`Save`); a logout
destroys it (`Destroy`) and, back from Redis, clears the cookie and ends the user's
sockets (`Revoke`); the removal of an account only destroys. A socket is `handshake`
between the session middleware on its handshake request and `io.use`/`connection`
(`Connect`), `open`, `dead` when its transport is gone and the server has not noticed
(`ServerNotices`), `closed` after. `inbox` holds the presence lists and lifecycle
events on their way to a page, `Deliver` the listeners. `overtaken`, the handshakes
that ran while the session they had loaded was destroyed, `loggedOut`, and
`abandoned`, the sessions ended by a sign-in over them or by an account removal,
which end no socket, are history. `disconnectUser` ends the sockets of a room in one
go, as the code does without an `await`. `MCRealtime` adds the symmetry of users.

### The chat page

`ChatClient` is `use-chat.ts` and `ChatRoom.tsx` over the abstract room: its
`stored`, `published` and `refused` change only by the actions of `ChatLog`
(`INSTANCE ChatLog`), which `ChatBuffer` implements. The history answer is any suffix
of the log, which is what `TranscriptIsSuffix` leaves. `fetch`, `snapshot` and `live`
are the query and the state of the hook; `Shown` is the merged list, a message at
each place of the history or of what came live and is not in it; `outbox` and `inbox`
are the two directions of the socket, lost with the transport. `Type` and `Submit`
are the input: a draft of blanks is typing (`value.length > 0`) and is not sent
(`trim()`). `Drop` is a transport lost at any point of a connection, also before the
page has heard that it is connected; `Kick` is the end of a socket by the server,
after which the client does not reconnect. What `told`, `cut`, `covered` and `beyond`
record is history that the properties speak about and no guard reads, except `cut`,
which keeps the answer to an earlier socket from reaching a later one.

### The client caches

`PostCache` is one post in one browser: the feed and the detail entry of the query
cache, the like mutation with its optimistic write and its rollback, sign-in and
sign-out with their invalidation, the editor that seeds its form from the detail.
The server's answer is built in two reads, likers first and count second, as
`post.ts` does. `Mount`, `Invalidate`, `Cancel`, `Write` and `Release` are what the
code asks of TanStack Query, modelled from its use and marked external: an
invalidation marks entries stale and refetches the observed ones, replacing a fetch
that runs only where there is data already. A rollback can leave a cached count off
by one for every act there has been, and no more.

`CommentSection` is the discussion under a post: the stored thread as the services
leave it, the cached list, the tree `CommentThread.tsx` builds, and the composer,
reply and edit forms with their mutations. What a comment hangs from is its `Line`,
the least set that holds it and the parents of its own; `Shown` are the comments
whose line reaches a root. An item keeps its forms as long as React finds it in the
same place (`Kept`); one that moves, because what it hung from has gone, loses them
with their text, which `FailedDraftKept` allows. A comment's text is abstracted to
the mutation of the reader that wrote it last; the mutations are tried twice, and a
try may have taken effect before its answer was lost.

## Runs

| Run | Question | Bounds |
|---|---|---|
| `chat` | Does the pipelined append keep the room's promises under errors, lost connections, expiry and crashes, is the list over its cap only by what has not been trimmed, and is every message answered? | 3 messages, cap 1: enough for two appends to overtake a third at every command and for the list to be trimmed and overshoot |
| `blog_posts` | Do overlapping creates, renames and deletions of two accounts keep slugs unique, true to their titles and in their owner's hands? | 2 requests, 2 accounts, 2 posts, cap 1, titles that collide and alias; no comments |
| `blog_threads` | Do overlapping creates, replies and subtree deletions keep threads well formed and the caps' overshoot bounded? | 2 requests of one account (who writes makes no difference here), 3 posts against a cap of 1, 4 comments against a cap of 3, depth 1, one title without a slug |
| `blog_removals` | What is left of a post or an account removed while other requests and sessions of the account go on, and is every request answered? | 2 requests of one account, 2 posts, 1 comment, likes; any number of crashes |
| `accounts` | Do racing signups, Google sign-ins, profile updates and removals keep accounts unique and apart, and the signup cap's overshoot bounded? | 2 requests, 2 account ids, cap 1, names that alias or are too short, 2 emails, 1 Google identity |
| `realtime` | Do sessions and sockets agree, and does presence stay current, whatever signs in, drops, reconnects and logs out? | 2 browsers, 2 accounts, 4 session ids, 3 sockets, 2 requests, 4 of both |
| `chat_client` | Does one page show the room right, and hear of what it sent, over two visits? | 1 message of its own and 1 of others, 2 visits, 2 connections, 1 typing notice waiting |
| `post_cache` | Does the cache settle on the server's state, and the button on enabled? | 2 clicks, sign-ins, sign-outs or saves, 1 entry that grows old; any number of page changes, refocuses and failures |
| `comment_section` | Does the reader's own writing stay on screen and in the forms? | 3 comments, 2 submits or deletions with a retry each, 1 act of another account |
| `buffer_over_cap` | `chat.ts:25-26` says that the list never exceeds its cap: one lPush puts it over | 2 messages, cap 1 |
| `orphan_replies` | `comment.ts:166-170` rules out orphaned replies: account removal makes them, without any race | 1 request |
| `edit_truncates` | `use-auth.ts:26-33` drops viewer-scoped data at sign-in: the editor opens on the anonymous reader's teaser and a save cuts the post | a sign-in and a save |

What the three violation runs show:

- `buffer_over_cap`: "the list can never exceed the cap even briefly"
  (`chat.ts:25-26`). The code awaits lPush and then sends lTrim: the list is over the
  cap in between, by one message for every append that overlaps, and a list whose
  trim never ran stays over until the next append. `BufferBound` is what holds
  instead: over the cap are only messages of the newest end whose own lTrim has not
  run.

- `orphan_replies`: `userService.remove` deletes the account's comments one by one,
  not their subtrees (`user.ts:206`); replies of others stay without a parent.
  `CommentThread` shows them as roots, which `OwnCommentsShown` relies on.
- `edit_truncates`: an anonymous reader opens a post, so that its detail is cached
  with the teaser; signs in; opens the editor. The invalidation only marks the
  entry stale, `EditPostPage` renders `AutoForm` as soon as there is data, and
  `AutoForm` reads its `initialValues` once: the refetched body never reaches the
  form, and "Save changes" writes the teaser over the post.

Deadlock is not checked: messages, ids and acts run out, and the models stop there.
Ids are used once each and in order, as ObjectIds are; a create starts only while an
id is left for it (`IdLeft`), which bounds the runs and nothing else. Two requests
are enough for the races of the server: every check-then-act pair needs one request
between the check and the act of another. `realtime` needs two browsers for the
presence of another user, a session id for every sign-in and one more for each that
is signed in over, three sockets for a reconnect while another page is there, and two
requests for a logout against a profile update or a second sign-in. In `chat_client`
one message each way gives every order of history, live event and reconnect; two
visits are what a request shared between visits needs. In `post_cache` two toggles,
or one and a sign-out, are what a rollback to an old snapshot needs. In
`comment_section` two jobs are a submit that fails while another succeeds; with three
comments a reply can lose its parent and be replied to. At most one reply or edit
form is open beside the composer there.

### Known behaviours the properties step around

These are what the code does, seen while modelling. No property forbids them; where
one comes near, it names them:

- an append cut off between lPush and expire leaves an idle room without an expiry
  until the next message (`ExpiryTracked` says only such an append does);
- a comment, reply or like whose target was checked before a removal is written
  after it (`lateComments`, `lateLikes`), and a reply created between `$graphLookup`
  and `deleteMany` is orphaned; a create in flight, or one of another session of the
  account, survives the removal of its account (`unlisted`): `users.ts:51` destroys
  the session of the request and no other;
- the owner check and the service each read the post at the slug: with a removal,
  a rename and a create in between, an update or a deletion reaches another account's
  post (`slipped`); of two renames of one post each
  saves only the fields that differ from what it loaded, so the title of one may end
  beside the slug of the other (`crossed`);
- Google sign-ins are not counted against the account cap (`user.ts:40-41` calls
  signup the only global one);
- two password changes can both verify the old password;
- a profile update in flight brings back the session a logout destroyed; a socket
  in its handshake during a logout stays open (`OnlyRacersOutlive` says only such
  a socket does);
- a sign-in over a live session, or the removal of its account, ends no socket
  (`auth.ts:112`, `users.ts:51`): an open one goes on receiving and writing under the
  account that left until its transport goes or that account logs out somewhere.
  The realtime design says of logout that a socket left authenticated "would
  contradict the project's authorization model"; `SocketSpeaksForSession` says that
  beside these two cases (`abandoned`) only a handshake that raced, or a logout that
  is about to end it, leaves a socket without its session, and that a socket never
  speaks for another account than the session does;
- a draft of blanks shows as typing and cannot be sent;
- a page whose socket the server ended shows "reconnecting" and does not reconnect
  (`StatusResolves` is about those that try); messages published while a page is
  not joined, and the text of a rejected message, are gone from it;
- a fetch that read before the last change and was not replaced is shown as fresh
  (`behind`): a feed first requested while anonymous stays gated after a sign-in
  until it is stale again; a retried create may store its comment twice.

### Fairness

`FairSpec` of `ChatBuffer` assumes that Redis executes what it was sent and that Node
handles the replies; failures are not fair. `HFairSpec` of `BlogHistory` and
`FairSpec` of `Accounts` assume that MongoDB answers each call (a driver call
settles, with an error at the latest when its timeout expires) and that Node resumes
the handler. Neither assumes that requests arrive. `RequestsAnswered` is checked in
`blog_removals`, where the loops over posts are, and in `accounts`, where the loop
over usernames is. `FairSpec` of `ChatClient` assumes that socket.io-client goes on
trying (its default) and hands over what arrived, that the server reads an open
socket and that the handler of a message ends, which is `MessagesAnswered` of
`ChatBuffer`; it does not assume that a connection comes about or that the history
arrives. A transport that is lost before each connect would leave the page connecting
for ever; that every attempt is heard of in the end is the bound on connections
(`MaxJoins`). `FairSpec` of `CommentSection` assumes that the request of a mutation,
and that of the list, is answered or fails. `Realtime` and `PostCache` state no
liveness: `ButtonNotStuck` is the safety half, that whatever the button waits for
runs.

## Proofs

Every safety invariant and action property of the passing runs is also a theorem,
for every value of the constants that the assumptions of the modules allow: any
finite number of requests and ids, any names, titles and slugs, any limits, depths
and caps. The assumptions say what the code's types do (bounds are numbers, a
placeholder is no account, a slug is a string with numbers behind it). Each proofs
module first types the state, stronger than `TypeOK` where a handler's locals depend
on the await it is at, then has one lemma per action and invariant.

| Module | Theorems | Inductive invariant |
|---|---|---|
| `ChatBufferProofs` | `TypeCorrect`, `OneCommandEachHolds`, `BufferBoundHolds`, `ExpiryTrackedHolds`, `TranscriptHolds`, `RefinesChatLog` | `OneCommandEach`, then `Pipeline` |
| `CappedCollectionProofs` | `TypeCorrect`, `SlotsBoundedHolds`, `OvershootBoundedHolds` | `SlotsBounded` |
| `AccountsProofs` | `TypeCorrect`, `Unique`, `NeverLinks`, `SignupsAreCapped`, `SignupsOvershootBounded` | `Typed`, `IdentitiesKept` |
| `BlogProofs` | `TypeCorrect`, `UniqueSlugs`, `RepliesOnPost`, `BoundedDepth`, `PostsAreCapped`, `CommentsAreCapped`, `PostSlotsHold`, `PostsOvershootBounded`, `CommentsOvershootBounded`; of overlapping requests: `OwnersChange`, `SlugsFollow`, `NothingOutlives`, `ErasureComplete`, `ThreadsGoWhole` | `Typed`, `Threads`, `DepthChecked`, `PostSlots`; `HistInv` |
| `RealtimeProofs` | `TypeCorrect`, `SpeaksForSession`, `RacersOnly`, `PresenceIsLive` | `SessionInv`, `ReasonInv`, `PresenceInv` |
| `ChatClientProofs` | `TypeCorrect`, `TypingFollowsInput`, `InOrder`, `MissesNothing` | `TypingTracked`, `Sight` |
| `PostCacheProofs` | `TypeCorrect`, `ButtonComesBack`, `FreshIsRight` | `Typed`, `Known`, `InSync` |
| `CommentSectionProofs` | `DraftsSurvive`, `OwnCommentsStay` | `Held`, `Listed` |

**Chat buffer.** `OneCommandEach`: a handler has at most one command on the
connection, and what Redis has executed for it is exactly what precedes that
command. With it, an lPush puts one message at the new end whose own trim is still to
come, and an lTrim leaves no more than the cap, so that what is over the cap is
untrimmed at every moment, which gives `BufferBound`; the list is a run
of the log that only lTrim and expiry cut at its old end, which gives
`TranscriptIsSuffix`. That it implements `ChatLog` rests on `Pipeline`: of two
messages in log order, while the first is unfinished, the second is not published
and not further on, and at the same command it is behind on the connection. So when
a handler publishes, everything stored before it has been published or refused.

**Capped collections.** `SlotsBounded` counts a slot for each admitted creator, who
was admitted below the limit; documents alone say nothing of what is about to be
inserted. This is the "by at most the concurrency level" of `user.ts:42-44`.
`PostsAreCapped`, `CommentsAreCapped` and `SignupsAreCapped` show each
count-then-insert of the services to be a step of such a collection or none,
whatever else runs, and `SignupsOvershootBounded` draws the bound for signups from
the abstract theorem. An instance with a parameter does not give its theorems to the
prover, so for the posts of an account and the comments of a post
(`PostsOvershootBounded`, `CommentsOvershootBounded`) the slots are counted again from
the steps of `PostCap(u)` and `CommentCap(p)`, over any two sets (`SlotsKept`).

**Accounts.** An insert or a save goes past the unique indexes or fails, and nothing
else writes names, emails or identities (`Unique`). `NeverLinks` needs that an
account with an identity was made for one, and that whoever was ever signed in to an
account found it there: ids are not used again.

**Content.** `UniqueSlugs` is about the index; the probes before it count for
nothing. `RepliesOnPost` needs what a request knows of its parent between the check
and the insert, and that a parent that has gone does not come back as another
comment (`Threads`). `BoundedDepth` needs that the depth found by `$graphLookup` can
only shrink until the reply is written: a deletion above the parent takes ancestors
away, nothing adds one. The lemmas about `Ancestors` are proved from its being the
least set with its closure, not by induction.

The five theorems of overlapping requests are about `HSpec`, for any number of
requests; that its steps are steps of `Spec` (`HistoryImplements`) brings the theorems
above to it. `HistInv` says, request by request, what its locals are still worth:

- `Tracked`: every slug it will look up names a post of its own user, no post, or one
  recorded in `slipped`; so does the post it has loaded;
- `Fresh`: a rename knows the slug its post has, unless the post is in `crossed`;
- `Swept`: a removal that has passed the likes or the comments of a post has left none
  but late ones;
- `Emptied`: a removal of an account has every post of it on its list, in hand, or in
  `unlisted` (`Listed`), and past its comments and likes the account has none but late
  ones;
- `Gathered`: a deletion of a subtree has in its list every reply to what is in the
  list, but for late ones.

`Tracked` and `Emptied` need that slugs are unique (`UniqueSlugs`), so that a slug on
a list stands for one post; `Fresh` needs `Tracked`; `Gathered` needs that a comment
that was deleted does not come back as a parent (`Threads`). `PostOrigin`,
`CommentOrigin`, `LikeOrigin` and `PostLost` trace every document that appears,
changes or goes to the one action that can have done it, so that each of the five is
a question about that action.

**Sessions and sockets.** `SpeaksForSession` needs every reference to a session id
together: the store, a socket and a request at work never know one id as two
accounts' (`OneOwner`), which a sign-in keeps only because the id it writes under was
generated for it and is known as nobody's (`IssuedOnly`). Why a joined socket may be
without its session is `ReasonInv`: the session was abandoned, the socket overtaken,
or a logout stands before the end of its sockets (`JoinedTracked`); and what
destroyed the session keeps it marked until it comes back or its sockets have gone.
(`Unsent` says that requests not sent yet are at nothing, so that none of them is a
logout.) `RacersOnly` needs that a handshake whose session has gone is marked, before
it joins (`HandshakesTracked`). `PresenceIsLive` is inductive beside the types once
pages have sockets of their own that were used (`SocketsApart`): what changes who is
joined sends the new list to every open socket, last in its queue.

**The chat page.** Typing: the last notice on its way, or what was relayed if none
is, says what the input holds (`TypingTracked`). Messages (`Sight`): what came live
and what is coming are in log order, one after the other; the history is a run of
the log; and while the page is covered, history, live messages and those coming hold
all that was published. Neither property survives a step without the other parts.

**Post cache.** The type says that cached counts are off by at most the number of
acts, which makes the counts' range inductive. `FreshIsRight` needs the fetches as
well as the entries: unless a change is under way or the page does not know who is
signed in, every entry that is neither stale nor behind is right, and every fetch
that is not old will bring what is right (`InSync`); and that the page knows who is
signed in but for a sign-out not heard of (`Known`).

**Comment section.** `DraftsSurvive`: a form open since its submit holds a text as
long as that was not answered (`TextHeld`), because no other mutation that could
still empty it shares its form (`SoleSubmit`). `OwnCommentsStay`: unless the answer
to a change of the reader's is outstanding, the list, if it is neither stale nor
behind, agrees with the store on what the reader wrote and deleted, and so does a
list that was read and is not old (`ListAgrees`); deleted ids do not come back
(`DeletedStays`). That every comment of a list is on screen (`ShownIsList`) is an
argument by the least number: the oldest comment of a line has no parent in the
list, as replies are younger than what they reply to. The library's theorem that the
naturals are well-founded gives the least number, without induction over an
operator.

Model-checked only: liveness (`RequestsAnswered`, `MessagesAnswered`,
`SentIsAnswered`, `StatusResolves`, `SubmitsEnd`), because liveness under fairness
and ENABLED are out of the prover's reach. One step of the argument is made on paper:
that the steps of `ChatClient` are steps of `ChatLog` as far as the room goes, by the
way it is written. No module declares a RECURSIVE operator, and what is recursive in
the code is defined as a least set, so that nothing here rests on induction over
data.

## Not modelled

- Reads that change no state and are not cached by a modelled part: feed search,
  profiles, `verifyCredentials`.
- Validation, error formatting, environment parsing, upload signing, OAuth strategy
  registration, static files and the seed script have no interleaving of their own.
  A request in the models has passed validation, except where a schema refuses what
  a service derived (empty slugs, short names).
- The state value an OAuth redirect keeps in the session, and the expiry of
  sessions: the redirect and its callback are one sign-in.
- Markdown, the preview tab, image upload, the sign-up, account and feed pages, the
  tiles: they render, or keep fields of their own. Filtered feeds share the feed's
  entry in `PostCache`.
- On the receiving side of typing, the list of who types; `ChatClient` follows what
  was last relayed of one user.
- In `PostCache`, other readers' likes (a count would change under any snapshot) and
  a request whose connection failed but that the server handles later; the garbage
  collection of entries. In `CommentSection`, leaving the page, the deletion of the
  post and the comment cap, which `Blog` has.

## Plan

Done: all parts listed as modelled, and the proofs above. Left, in this order:

1. `ChatClient`'s room as a refinement of `ChatLog`, so that the page's theorems rest
   on `RefinesChatLog` by a chain the prover has seen.
2. What a page may still show after a fetch that was shared: how far `behind` goes.
