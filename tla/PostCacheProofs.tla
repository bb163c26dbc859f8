--------------------------- MODULE PostCacheProofs ---------------------------
(***************************************************************************)
(* What one browser's cache of a post guarantees, for every number of      *)
(* clicks, sign-ins, sign-outs and saves and however often entries grow    *)
(* old: what counts as fresh when all is over is what the server would     *)
(* say, and the like button is never disabled for good.                    *)
(***************************************************************************)
EXTENDS PostCache, TLAPS

-----------------------------------------------------------------------------
(* Types.  After n acts a count is off by n at most. *)

LikedValues == {"none", "yes", "no"}
Data(n) == [gated : BOOLEAN, liked : LikedValues, count : -n .. n + 1, body : Texts] \cup {None}
Backs(n) == [data : Data(n), stale : BOOLEAN, error : BOOLEAN]
AskedFetches(n) == [pc : {"asked"}, as : BOOLEAN, back : Backs(n), old : BOOLEAN]
HalfFetches(n) == [pc : {"half"}, as : BOOLEAN, liked : LikedValues, back : Backs(n), old : BOOLEAN]
ReadFetches(n) == [pc : {"read"}, got : Data(n), back : Backs(n), old : BOOLEAN]
Fetches(n) == {Idle} \cup AskedFetches(n) \cup HalfFetches(n) \cup ReadFetches(n)
Entries(n) == [data : Data(n), stale : BOOLEAN, error : BOOLEAN, fetch : Fetches(n), behind : BOOLEAN]

Flights(n) == [pc : {"sent", "applied"}, like : BOOLEAN, as : BOOLEAN, shown : BOOLEAN,
               back : [Keys -> Data(n)]]
Waits == [pc : {"settling"}, waits : {{k} : k \in Keys}, shown : BOOLEAN]
Mutations(n) == {Unused, Done} \cup Flights(n) \cup Waits

Typed ==
    /\ session \in BOOLEAN /\ mine \in BOOLEAN /\ me \in BOOLEAN
    /\ body \in Texts /\ page \in Pages
    /\ acts \in 0 .. MaxActs /\ ages \in 0 .. MaxAges
    /\ cache \in [Keys -> Entries(acts)]
    /\ toggle \in [Toggles -> Mutations(acts)]
    /\ form \in Texts \cup {"none"} /\ (form # "none" => page = "edit")
    /\ auth \in {"none", "login", "logout", "loggedOut"}

LEMMA ActsNat == Typed => acts \in Nat /\ MaxActs \in Nat /\ MaxAges \in Nat
BY BoundsAssumption DEF Typed

LEMMA DataGrows ==
    ASSUME NEW n \in Nat
    PROVE  /\ Data(n) \subseteq Data(n + 1)
           /\ \A d \in Data(n) : d = None \/ (d.count \in -n .. n + 1 /\ d.body \in Texts)
           /\ None \in Data(n)
<1>1. -n .. n + 1 \subseteq -(n + 1) .. (n + 1) + 1
    OBVIOUS
<1> QED
    BY <1>1 DEF Data, Texts

LEMMA EntriesGrow ==
    ASSUME NEW n \in Nat
    PROVE  Entries(n) \subseteq Entries(n + 1) /\ Mutations(n) \subseteq Mutations(n + 1)
<1>1. Data(n) \subseteq Data(n + 1)
    BY DataGrows
<1>2. Backs(n) \subseteq Backs(n + 1)
    BY <1>1 DEF Backs
<1>3. Fetches(n) \subseteq Fetches(n + 1)
    <2>1. AskedFetches(n) \subseteq AskedFetches(n + 1)
        BY <1>2 DEF AskedFetches
    <2>2. HalfFetches(n) \subseteq HalfFetches(n + 1)
        BY <1>2 DEF HalfFetches
    <2>3. ReadFetches(n) \subseteq ReadFetches(n + 1)
        BY <1>1, <1>2 DEF ReadFetches
    <2> QED
        BY <2>1, <2>2, <2>3 DEF Fetches
<1>4. Entries(n) \subseteq Entries(n + 1)
    BY <1>1, <1>3 DEF Entries
<1>5. [Keys -> Data(n)] \subseteq [Keys -> Data(n + 1)]
    BY <1>1
<1>6. Flights(n) \subseteq Flights(n + 1)
    BY <1>5 DEF Flights
<1> QED
    BY <1>4, <1>6 DEF Mutations

\* A fetch is in one of three states, and only then.
LEMMA FetchCases ==
    ASSUME NEW n, NEW f \in Fetches(n)
    PROVE  /\ f.pc \in {"idle", "asked", "half", "read"}
           /\ f = Idle <=> f.pc = "idle"
           /\ f.pc = "asked" <=> f \in AskedFetches(n)
           /\ f.pc = "half" <=> f \in HalfFetches(n)
           /\ f.pc = "read" <=> f \in ReadFetches(n)
           /\ f # Idle => f.back \in Backs(n) /\ f.old \in BOOLEAN
BY DEF Fetches, AskedFetches, HalfFetches, ReadFetches, Idle

LEMMA MutationCases ==
    ASSUME NEW n, NEW t \in Mutations(n)
    PROVE  /\ t.pc \in {"unused", "sent", "applied", "settling", "done"}
           /\ t.pc \in {"sent", "applied"} <=> t \in Flights(n)
           /\ t.pc = "settling" <=> t \in Waits
           /\ t.pc = "unused" <=> t = Unused
           /\ t.pc = "done" <=> t = Done
BY DEF Mutations, Flights, Waits, Unused, Done

LEMMA TypedIsTypeOK == Typed => TypeOK
<1> SUFFICES ASSUME Typed PROVE TypeOK
    OBVIOUS
<1>1. acts \in Nat /\ MaxActs \in Nat
    BY ActsNat
<1>2. -acts .. acts + 1 \subseteq -MaxActs .. MaxActs + 1
    BY <1>1 DEF Typed
<1>3. Data(acts) \subseteq Payloads \cup {None}
    BY <1>2 DEF Data, Payloads, LikedValues, Texts
<1>4. ASSUME NEW k \in Keys
      PROVE  /\ cache[k].data \in Payloads \cup {None}
             /\ {cache[k].stale, cache[k].error, cache[k].behind} \subseteq BOOLEAN
             /\ cache[k].fetch.pc \in {"idle", "asked", "half", "read"}
    <2>1. cache[k] \in Entries(acts)
        BY DEF Typed
    <2>2. /\ cache[k].data \in Data(acts) /\ cache[k].fetch \in Fetches(acts)
          /\ cache[k].stale \in BOOLEAN /\ cache[k].error \in BOOLEAN /\ cache[k].behind \in BOOLEAN
        BY <2>1 DEF Entries
    <2> QED
        BY <1>3, <2>2, FetchCases
<1>5. \A t \in Toggles : toggle[t].pc \in {"unused", "sent", "applied", "settling", "done"}
    BY MutationCases DEF Typed
<1> QED
    BY <1>4, <1>5 DEF Typed, TypeOK

-----------------------------------------------------------------------------
(* What the query cache does to an entry. *)

LEMMA ObservedCases ==
    /\ Observed("feed") = {"list"} /\ Observed("post") = {"detail"}
    /\ Observed("edit") = {"detail"} /\ Observed("login") = {}
    /\ \A p \in Pages : Observed(p) = {} \/ \E k \in Keys : Observed(p) = {k}
<1>1. Observed("feed") = {"list"}
    BY DEF Observed
<1>2. Observed("post") = {"detail"}
    BY DEF Observed
<1>3. Observed("edit") = {"detail"}
    BY DEF Observed
<1>4. Observed("login") = {}
    BY DEF Observed
<1> QED
    BY <1>1, <1>2, <1>3, <1>4 DEF Pages, Keys

\* Everything but the fetch is as it was.
SameData(e, f) == f.data = e.data /\ f.error = e.error /\ f.behind = e.behind

LEMMA Starts ==
    ASSUME NEW n, NEW e \in Entries(n), NEW as \in BOOLEAN
    PROVE  LET f == StartFetch(e, as) IN
           /\ f \in Entries(n) /\ SameData(e, f) /\ f.stale = e.stale
           /\ f.fetch.pc = "asked" /\ f.fetch.as = as /\ Running(f)
<1> DEFINE b == [data |-> e.data, stale |-> e.stale, error |-> e.error]
           a == [pc |-> "asked", as |-> as, back |-> b, old |-> FALSE]
           f == [e EXCEPT !.fetch = a]
<1>1. b \in Backs(n)
    BY DEF Entries, Backs
<1> HIDE DEF b
<1>2. a \in AskedFetches(n) /\ a.pc = "asked" /\ a.as = as
    BY <1>1 DEF AskedFetches
<1>3. a \in Fetches(n) /\ a # Idle
    BY <1>2 DEF Fetches, Idle
<1> HIDE DEF a
<1>4. f \in Entries(n) /\ SameData(e, f) /\ f.stale = e.stale /\ f.fetch = a
    BY <1>3 DEF Entries, SameData
<1>5. StartFetch(e, as) = f
    BY DEF StartFetch, f, a, b
<1> QED
    BY <1>2, <1>3, <1>4, <1>5 DEF Running

LEMMA MountEntries ==
    ASSUME NEW n, NEW c \in [Keys -> Entries(n)], NEW p, session \in BOOLEAN
    PROVE  /\ Mount(c, p) \in [Keys -> Entries(n)]
           /\ \A k \in Keys : \/ Mount(c, p)[k] = c[k]
                              \/ ~Running(c[k]) /\ Mount(c, p)[k] = StartFetch(c[k], session)
<1>1. \A k \in Keys : \/ Mount(c, p)[k] = c[k]
                      \/ ~Running(c[k]) /\ Mount(c, p)[k] = StartFetch(c[k], session)
    BY DEF Mount
<1>2. \A k \in Keys : Mount(c, p)[k] \in Entries(n)
    BY <1>1, Starts
<1>3. Mount(c, p) = [k \in Keys |-> Mount(c, p)[k]]
    BY DEF Mount
<1> QED
    BY <1>1, <1>2, <1>3

\* A fetch that an invalidation lets run is old.
LEMMA Outdates ==
    ASSUME NEW n, NEW f \in Fetches(n)
    PROVE  /\ Outdated(f) \in Fetches(n)
           /\ f = Idle <=> Outdated(f) = Idle
           /\ f # Idle => Outdated(f).old = TRUE
<1>1. CASE f = Idle
    BY <1>1 DEF Outdated
<1>2. CASE f \in AskedFetches(n)
    <2>1. Outdated(f) = [f EXCEPT !.old = TRUE] /\ f # Idle
        BY <1>2 DEF Outdated, AskedFetches, Idle
    <2>2. [f EXCEPT !.old = TRUE] \in AskedFetches(n) /\ [f EXCEPT !.old = TRUE].old = TRUE
        BY <1>2 DEF AskedFetches
    <2>3. [f EXCEPT !.old = TRUE] # Idle
        BY <2>2 DEF AskedFetches, Idle
    <2> QED
        BY <2>1, <2>2, <2>3 DEF Fetches
<1>3. CASE f \in HalfFetches(n)
    <2>1. Outdated(f) = [f EXCEPT !.old = TRUE] /\ f # Idle
        BY <1>3 DEF Outdated, HalfFetches, Idle
    <2>2. [f EXCEPT !.old = TRUE] \in HalfFetches(n) /\ [f EXCEPT !.old = TRUE].old = TRUE
        BY <1>3 DEF HalfFetches
    <2>3. [f EXCEPT !.old = TRUE] # Idle
        BY <2>2 DEF HalfFetches, Idle
    <2> QED
        BY <2>1, <2>2, <2>3 DEF Fetches
<1>4. CASE f \in ReadFetches(n)
    <2>1. Outdated(f) = [f EXCEPT !.old = TRUE] /\ f # Idle
        BY <1>4 DEF Outdated, ReadFetches, Idle
    <2>2. [f EXCEPT !.old = TRUE] \in ReadFetches(n) /\ [f EXCEPT !.old = TRUE].old = TRUE
        BY <1>4 DEF ReadFetches
    <2>3. [f EXCEPT !.old = TRUE] # Idle
        BY <2>2 DEF ReadFetches, Idle
    <2> QED
        BY <2>1, <2>2, <2>3 DEF Fetches
<1> QED
    BY <1>1, <1>2, <1>3, <1>4 DEF Fetches

\* An invalidated entry is stale, and whatever runs for it was either asked now,
\* with this cookie, or is old.
LEMMA InvalidateEntries ==
    ASSUME NEW n, NEW c \in [Keys -> Entries(n)], NEW p, NEW as \in BOOLEAN
    PROVE  /\ Invalidate(c, p, as) \in [Keys -> Entries(n)]
           /\ \A k \in Keys :
                 LET e == Invalidate(c, p, as)[k] IN
                 /\ SameData(c[k], e)
                 /\ e.stale \/ e.data = None
                 /\ Running(c[k]) \/ k \in Observed(p) => Running(e)
                 /\ Running(e) => e.fetch.old \/ (e.fetch.pc = "asked" /\ e.fetch.as = as)
<1>1. ASSUME NEW k \in Keys
      PROVE  LET e == Invalidate(c, p, as)[k] IN
             /\ e \in Entries(n)
             /\ SameData(c[k], e)
             /\ e.stale \/ e.data = None
             /\ Running(c[k]) \/ k \in Observed(p) => Running(e)
             /\ Running(e) => e.fetch.old \/ (e.fetch.pc = "asked" /\ e.fetch.as = as)
    <2> DEFINE d == [c[k] EXCEPT !.stale = (c[k].data # None), !.fetch = Outdated(c[k].fetch)]
               e == Invalidate(c, p, as)[k]
    <2>1. c[k] \in Entries(n) /\ c[k].fetch \in Fetches(n)
        BY DEF Entries
    <2>2. /\ d \in Entries(n) /\ SameData(c[k], d) /\ d.stale = (c[k].data # None)
          /\ d.fetch = Outdated(c[k].fetch)
        <3>1. Outdated(c[k].fetch) \in Fetches(n) /\ (c[k].data # None) \in BOOLEAN
            BY <2>1, Outdates
        <3> QED
            BY <2>1, <3>1 DEF Entries, SameData
    <2>3. e = IF k \in Observed(p) /\ (d.data # None \/ ~Running(d)) THEN StartFetch(d, as) ELSE d
        BY DEF Invalidate
    <2> HIDE DEF d, e
    <2>4. /\ Running(d) <=> Running(c[k])
          /\ Running(d) => d.fetch.old
          /\ d.stale \/ d.data = None
        BY <2>1, <2>2, Outdates DEF Running, SameData
    <2>5. /\ e \in Entries(n) /\ SameData(c[k], e) /\ (e.stale \/ e.data = None)
          /\ Running(c[k]) \/ k \in Observed(p) => Running(e)
          /\ Running(e) => e.fetch.old \/ (e.fetch.pc = "asked" /\ e.fetch.as = as)
        <3>1. CASE e = d
            <4>1. k \in Observed(p) => Running(e)
                BY <2>2, <2>3, <2>4, <3>1, Starts
            <4> QED
                BY <2>2, <2>4, <3>1, <4>1
        <3>2. CASE e = StartFetch(d, as)
            <4>1. /\ e \in Entries(n) /\ SameData(d, e) /\ e.stale = d.stale
                  /\ e.fetch.pc = "asked" /\ e.fetch.as = as /\ Running(e)
                BY <2>2, <3>2, Starts
            <4> QED
                BY <2>2, <2>4, <4>1 DEF SameData
        <3> QED
            BY <2>3, <3>1, <3>2
    <2> QED
        BY <2>5 DEF e
<1>2. Invalidate(c, p, as) = [k \in Keys |-> Invalidate(c, p, as)[k]]
    BY DEF Invalidate
<1> QED
    BY <1>1, <1>2

LEMMA WriteEntry ==
    ASSUME NEW n, NEW e \in Entries(n), NEW d \in Data(n)
    PROVE  Write(e, d) \in Entries(n) /\ Write(e, d).fetch = e.fetch
BY DEF Write, Entries

LEMMA CancelEntries ==
    ASSUME NEW n, NEW c \in [Keys -> Entries(n)]
    PROVE  /\ Cancel(c) \in [Keys -> Entries(n)]
           /\ \A k \in Keys : ~Running(Cancel(c)[k])
<1>1. ASSUME NEW k \in Keys
      PROVE  Cancel(c)[k] \in Entries(n) /\ ~Running(Cancel(c)[k])
    <2>1. c[k] \in Entries(n) /\ c[k].fetch \in Fetches(n) /\ Idle \in Fetches(n)
        BY DEF Entries, Fetches
    <2>2. CASE ~Running(c[k])
        BY <2>1, <2>2 DEF Cancel
    <2>3. CASE Running(c[k])
        <3>1. c[k].fetch.back \in Backs(n)
            BY <2>1, <2>3, FetchCases DEF Running
        <3>2. /\ c[k].fetch.back.data \in Data(n) /\ c[k].fetch.back.stale \in BOOLEAN
              /\ c[k].fetch.back.error \in BOOLEAN
            BY <3>1 DEF Backs
        <3>3. Cancel(c)[k] = [c[k] EXCEPT !.data = c[k].fetch.back.data,
                                          !.stale = c[k].fetch.back.stale,
                                          !.error = c[k].fetch.back.error, !.fetch = Idle]
            BY <2>3 DEF Cancel
        <3> QED
            BY <2>1, <3>2, <3>3 DEF Entries, Running
    <2> QED
        BY <2>2, <2>3
<1>2. Cancel(c) = [k \in Keys |-> Cancel(c)[k]]
    BY DEF Cancel
<1> QED
    BY <1>1, <1>2

-----------------------------------------------------------------------------
(* What it does to the mutations. *)

LEMMA ReleaseMutations ==
    ASSUME NEW n, NEW ts \in [Toggles -> Mutations(n)], NEW K
    PROVE  /\ Release(ts, K) \in [Toggles -> Mutations(n)]
           /\ \A t \in Toggles :
                 \/ Release(ts, K)[t] = ts[t] /\ ~(ts[t].pc = "settling" /\ ts[t].waits \subseteq K)
                 \/ Release(ts, K)[t] = Done /\ ts[t].pc = "settling"
BY DEF Release, Mutations

LEMMA UnmountedMutations ==
    ASSUME NEW n, NEW ts \in [Toggles -> Mutations(n)]
    PROVE  /\ Unmounted(ts) \in [Toggles -> Mutations(n)]
           /\ \A t \in Toggles :
                 /\ Unmounted(ts)[t].pc = ts[t].pc
                 /\ ts[t].pc = "settling" => Unmounted(ts)[t].waits = ts[t].waits
<1>1. ASSUME NEW t \in Toggles
      PROVE  /\ Unmounted(ts)[t] \in Mutations(n)
             /\ Unmounted(ts)[t].pc = ts[t].pc
             /\ ts[t].pc = "settling" => Unmounted(ts)[t].waits = ts[t].waits
    <2>1. ts[t] \in Mutations(n)
        OBVIOUS
    <2>2. CASE ts[t].pc \in {"unused", "done"}
        BY <2>1, <2>2 DEF Unmounted
    <2>3. CASE ts[t].pc \in {"sent", "applied"}
        <3>1. ts[t] \in Flights(n) /\ Unmounted(ts)[t] = [ts[t] EXCEPT !.shown = FALSE]
            BY <2>1, <2>3, MutationCases DEF Unmounted
        <3>2. Unmounted(ts)[t] \in Flights(n) /\ Unmounted(ts)[t].pc = ts[t].pc
            BY <3>1 DEF Flights
        <3> QED
            BY <2>3, <3>2 DEF Mutations
    <2>4. CASE ts[t].pc = "settling"
        <3>1. ts[t] \in Waits /\ Unmounted(ts)[t] = [ts[t] EXCEPT !.shown = FALSE]
            BY <2>1, <2>4, MutationCases DEF Unmounted
        <3>2. /\ Unmounted(ts)[t] \in Waits /\ Unmounted(ts)[t].pc = ts[t].pc
              /\ Unmounted(ts)[t].waits = ts[t].waits
            BY <3>1 DEF Waits
        <3> QED
            BY <3>2 DEF Mutations
    <2> QED
        BY <2>1, <2>2, <2>3, <2>4, MutationCases
<1>2. Unmounted(ts) = [t \in Toggles |-> Unmounted(ts)[t]]
    BY DEF Unmounted
<1> QED
    BY <1>1, <1>2

-----------------------------------------------------------------------------
(* Every step keeps the types. *)

LEMMA Fields ==
    ASSUME Typed, NEW k \in Keys
    PROVE  /\ cache[k] \in Entries(acts)
           /\ cache[k].data \in Data(acts) /\ cache[k].fetch \in Fetches(acts)
           /\ cache[k].stale \in BOOLEAN /\ cache[k].error \in BOOLEAN /\ cache[k].behind \in BOOLEAN
BY DEF Typed, Entries

LEMMA SeedTyped ==
    ASSUME Typed, NEW n \in Nat, NEW c \in [Keys -> Entries(n)], NEW p
    PROVE  /\ Seed(c, p) \in Texts \cup {"none"}
           /\ Seed(c, p) # "none" => p = "edit"
<1>1. "detail" \in Keys
    BY DEF Keys
<1>2. c["detail"].data \in Data(n)
    BY <1>1 DEF Entries
<1>3. c["detail"].data # None => c["detail"].data.body \in Texts
    BY <1>2 DEF Data
<1> QED
    BY <1>3 DEF Seed, Typed

LEMMA TypedInit == Init => Typed
<1> SUFFICES ASSUME Init PROVE Typed
    OBVIOUS
<1>1. acts = 0 /\ MaxActs \in Nat /\ MaxAges \in Nat
    BY BoundsAssumption DEF Init
<1>2. None \in Data(0) /\ Idle \in Fetches(0)
    BY DataGrows DEF Fetches
<1>3. Missing \in Entries(0)
    BY <1>2 DEF Missing, Entries
<1>4. Unused \in Mutations(0)
    BY DEF Mutations
<1>5. session \in BOOLEAN /\ mine \in BOOLEAN /\ me \in BOOLEAN
    BY DEF Init
<1>6. cache \in [Keys -> Entries(acts)] /\ toggle \in [Toggles -> Mutations(acts)]
    BY <1>1, <1>3, <1>4 DEF Init
<1> QED
    BY <1>1, <1>5, <1>6 DEF Init, Typed, Texts, Pages

\* Reading, landing, failing and ageing.
LEMMA TypedFetch ==
    ASSUME Typed, NEW k \in Keys,
           ReadLiked(k) \/ ReadCount(k) \/ Land(k) \/ FetchFails(k) \/ Age(k)
    PROVE  Typed'
<1>0. acts \in Nat /\ cache \in [Keys -> Entries(acts)] /\ toggle \in [Toggles -> Mutations(acts)]
    BY ActsNat DEF Typed
<1>1. /\ UNCHANGED <<server, authVars, page, acts>>
      /\ \A e \in Entries(acts) : [cache EXCEPT ![k] = e] \in [Keys -> Entries(acts)]
    BY <1>0 DEF ReadLiked, ReadCount, Land, FetchFails, Age, bounds
<1>2. CASE ReadLiked(k)
    <2> DEFINE f == [pc |-> "half", as |-> cache[k].fetch.as /\ session,
                     liked |-> LikedBy(cache[k].fetch.as /\ session),
                     back |-> cache[k].fetch.back, old |-> cache[k].fetch.old]
    <2>1. cache[k].fetch \in AskedFetches(acts)
        BY <1>2, Fields, FetchCases DEF ReadLiked
    <2>2. \A b \in BOOLEAN : LikedBy(b) \in LikedValues
        BY DEF LikedBy, LikedValues
    <2>3. /\ (cache[k].fetch.as /\ session) \in BOOLEAN
          /\ cache[k].fetch.back \in Backs(acts) /\ cache[k].fetch.old \in BOOLEAN
        BY <2>1 DEF AskedFetches, Typed
    <2>4. f \in HalfFetches(acts)
        BY <2>2, <2>3 DEF HalfFetches
    <2>5. cache' = [cache EXCEPT ![k].fetch = f] /\ UNCHANGED <<toggle, form, bounds>>
        BY <1>2 DEF ReadLiked
    <2> HIDE DEF f
    <2>6. [cache[k] EXCEPT !.fetch = f] \in Entries(acts)
        BY <2>4, Fields DEF Entries, Fetches
    <2>7. cache' = [cache EXCEPT ![k] = [cache[k] EXCEPT !.fetch = f]]
        BY <1>0, <2>5
    <2> QED
        BY <1>1, <2>5, <2>6, <2>7 DEF Typed, server, authVars, bounds
<1>3. CASE ReadCount(k)
    <2> DEFINE f == [pc |-> "read", got |-> Dto(k, cache[k].fetch.as, cache[k].fetch.liked, Likes),
                     back |-> cache[k].fetch.back, old |-> cache[k].fetch.old]
    <2>1. cache[k].fetch \in HalfFetches(acts)
        BY <1>3, Fields, FetchCases DEF ReadCount
    <2>2. Likes \in -acts .. acts + 1
        BY <1>0 DEF Likes
    <2>3. /\ cache[k].fetch.as \in BOOLEAN /\ cache[k].fetch.liked \in LikedValues
          /\ cache[k].fetch.back \in Backs(acts) /\ cache[k].fetch.old \in BOOLEAN
        BY <2>1 DEF HalfFetches
    <2>4. \A v \in BOOLEAN, l \in LikedValues : Dto(k, v, l, Likes) \in Data(acts)
        BY <2>2 DEF Dto, Data, Typed, Texts
    <2>5. f \in ReadFetches(acts)
        BY <2>3, <2>4 DEF ReadFetches
    <2>6. cache' = [cache EXCEPT ![k].fetch = f] /\ UNCHANGED <<toggle, form, bounds>>
        BY <1>3 DEF ReadCount
    <2> HIDE DEF f
    <2>7. [cache[k] EXCEPT !.fetch = f] \in Entries(acts)
        BY <2>5, Fields DEF Entries, Fetches
    <2>8. cache' = [cache EXCEPT ![k] = [cache[k] EXCEPT !.fetch = f]]
        BY <1>0, <2>6
    <2> QED
        BY <1>1, <2>6, <2>7, <2>8 DEF Typed, server, authVars, bounds
<1>4. CASE Land(k)
    <2>1. cache[k].fetch \in ReadFetches(acts)
        BY <1>4, Fields, FetchCases DEF Land
    <2>2. [data |-> cache[k].fetch.got, stale |-> FALSE, error |-> FALSE,
           fetch |-> Idle, behind |-> cache[k].fetch.old] \in Entries(acts)
        BY <2>1 DEF ReadFetches, Entries, Fetches
    <2>3. cache' \in [Keys -> Entries(acts)]
        BY <1>1, <1>4, <2>2 DEF Land
    <2>4. toggle' \in [Toggles -> Mutations(acts)]
        BY <1>0, <1>4, ReleaseMutations DEF Land
    <2>5. form' \in Texts \cup {"none"} /\ (form' # "none" => page = "edit")
        <3>1. form' = Seed(cache', page)
            BY <1>4 DEF Land
        <3> QED
            BY <1>0, <2>3, <3>1, SeedTyped
    <2> QED
        BY <1>1, <1>4, <2>3, <2>4, <2>5 DEF Land, Typed, server, authVars, bounds
<1>5. CASE FetchFails(k)
    <2>1. Idle \in Fetches(acts) /\ (k = "detail") \in BOOLEAN
        BY DEF Fetches
    <2>2. [[cache[k] EXCEPT !.fetch = Idle] EXCEPT !.error = (k = "detail")] \in Entries(acts)
        BY <2>1, Fields DEF Entries
    <2>3. cache' = [cache EXCEPT ![k] = [[cache[k] EXCEPT !.fetch = Idle] EXCEPT !.error = (k = "detail")]]
        BY <1>0, <1>5 DEF FetchFails
    <2>4. cache' \in [Keys -> Entries(acts)]
        BY <1>1, <2>2, <2>3
    <2>5. toggle' \in [Toggles -> Mutations(acts)]
        BY <1>0, <1>5, ReleaseMutations, UnmountedMutations DEF FetchFails
    <2>6. form' \in Texts \cup {"none"} /\ (form' # "none" => page = "edit")
        <3>1. form' = Seed(cache', page)
            BY <1>5 DEF FetchFails
        <3> QED
            BY <1>0, <2>4, <3>1, SeedTyped
    <2> QED
        BY <1>1, <1>5, <2>4, <2>5, <2>6 DEF FetchFails, Typed, server, authVars, bounds
<1>6. CASE Age(k)
    <2>1. [cache[k] EXCEPT !.stale = TRUE] \in Entries(acts)
        BY Fields DEF Entries
    <2>2. cache' = [cache EXCEPT ![k] = [cache[k] EXCEPT !.stale = TRUE]]
        BY <1>0, <1>6 DEF Age
    <2>3. ages' \in 0 .. MaxAges
        BY <1>6, ActsNat DEF Age, Typed
    <2> QED
        BY <1>1, <1>6, <2>1, <2>2, <2>3 DEF Age, Typed, server, authVars
<1> QED
    BY <1>2, <1>3, <1>4, <1>5, <1>6

LEMMA TypedGo ==
    ASSUME Typed, Refocus \/ \E p \in Pages : Go(p)
    PROVE  Typed'
<1>0. /\ acts \in Nat /\ cache \in [Keys -> Entries(acts)] /\ toggle \in [Toggles -> Mutations(acts)]
      /\ session \in BOOLEAN
    BY ActsNat DEF Typed
<1>1. CASE Refocus
    <2>1. cache' \in [Keys -> Entries(acts)]
        BY <1>0, <1>1, MountEntries DEF Refocus
    <2> QED
        BY <1>1, <2>1 DEF Refocus, Typed, server, authVars, bounds
<1>2. CASE \E p \in Pages : Go(p)
    <2>1. PICK p \in Pages : Go(p)
        BY <1>2
    <2>2. cache' \in [Keys -> Entries(acts)] /\ toggle' \in [Toggles -> Mutations(acts)]
        BY <1>0, <2>1, MountEntries, UnmountedMutations DEF Go
    <2>3. form' \in Texts \cup {"none"} /\ (form' # "none" => p = "edit")
        BY <1>0, <2>1, SeedTyped DEF Go
    <2> QED
        BY <2>1, <2>2, <2>3 DEF Go, Typed, server, authVars, bounds
<1> QED
    BY <1>1, <1>2

\* What onMutate writes is off by one more at most.
LEMMA ClickData ==
    ASSUME NEW n \in Nat, NEW d \in Data(n), d # None
    PROVE  Liked(d) \in Data(n + 1) /\ Unliked(d) \in Data(n + 1)
<1>1. /\ d \in [gated : BOOLEAN, liked : LikedValues, count : -n .. n + 1, body : Texts]
      /\ d.count \in -n .. n + 1
    BY DEF Data
<1>2. d.count + 1 \in -(n + 1) .. (n + 1) + 1 /\ d.count - 1 \in -(n + 1) .. (n + 1) + 1
    BY <1>1
<1>3. "yes" \in LikedValues /\ "no" \in LikedValues
    BY DEF LikedValues
<1>4. /\ Liked(d) = [[d EXCEPT !.liked = "yes"] EXCEPT !.count = d.count + 1]
      /\ Unliked(d) = [[d EXCEPT !.liked = "no"] EXCEPT !.count = d.count - 1]
    BY <1>1 DEF Liked, Unliked
<1> QED
    BY <1>1, <1>2, <1>3, <1>4 DEF Data

LEMMA TypedClick ==
    ASSUME Typed, NEW t \in Toggles, Click(t)
    PROVE  Typed'
<1> DEFINE n == acts
           c == Cancel(cache)
           like == cache["detail"].data.liked # "yes"
           Expected(d) == IF d = None THEN None ELSE IF like THEN Liked(d) ELSE Unliked(d)
           flight == [pc |-> "sent", like |-> like, as |-> session, shown |-> TRUE,
                      back |-> [k \in Keys |-> c[k].data]]
<1>0. /\ n \in Nat /\ cache \in [Keys -> Entries(n)] /\ toggle \in [Toggles -> Mutations(n)]
      /\ session \in BOOLEAN
    BY ActsNat DEF Typed
<1>1. /\ acts' = n + 1 /\ acts' \in 0 .. MaxActs
      /\ cache' = [k \in Keys |-> Write(c[k], Expected(c[k].data))]
      /\ toggle' = [Release(toggle, Keys) EXCEPT ![t] = flight]
      /\ UNCHANGED <<server, authVars, page, form, ages>>
    BY <1>0, ActsNat DEF Click, Typed
<1>2. c \in [Keys -> Entries(n)]
    BY <1>0, CancelEntries
<1>3. /\ Entries(n) \subseteq Entries(n + 1) /\ Mutations(n) \subseteq Mutations(n + 1)
      /\ Data(n) \subseteq Data(n + 1) /\ None \in Data(n + 1)
    BY <1>0, EntriesGrow, DataGrows
<1>4. \A d \in Data(n) : Expected(d) \in Data(n + 1)
    BY <1>0, <1>3, ClickData
<1>5. ASSUME NEW k \in Keys
      PROVE  c[k].data \in Data(n) /\ Write(c[k], Expected(c[k].data)) \in Entries(n + 1)
    <2>1. c[k] \in Entries(n) /\ c[k].data \in Data(n)
        BY <1>2 DEF Entries
    <2>2. Expected(c[k].data) \in Data(n + 1)
        BY <1>4, <2>1
    <2> HIDE DEF Expected, c
    <2> QED
        BY <1>0, <1>3, <2>1, <2>2, WriteEntry
<1>6. flight \in Mutations(n + 1)
    <2>1. [k \in Keys |-> c[k].data] \in [Keys -> Data(n + 1)]
        BY <1>3, <1>5
    <2>2. like \in BOOLEAN
        OBVIOUS
    <2>3. flight \in Flights(n + 1)
        BY <1>0, <2>1, <2>2 DEF Flights
    <2> QED
        BY <2>3 DEF Mutations
<1>7. Release(toggle, Keys) \in [Toggles -> Mutations(n + 1)]
    BY <1>0, <1>3, ReleaseMutations
<1> HIDE DEF flight, Expected, c
<1>8. cache' \in [Keys -> Entries(n + 1)] /\ toggle' \in [Toggles -> Mutations(n + 1)]
    BY <1>1, <1>5, <1>6, <1>7
<1> QED
    BY <1>1, <1>8 DEF Typed, server, authVars

LEMMA TypedApply ==
    ASSUME Typed, NEW t \in Toggles, Apply(t)
    PROVE  Typed'
<1>1. toggle \in [Toggles -> Mutations(acts)] /\ toggle[t] \in Flights(acts)
    BY MutationCases DEF Apply, Typed
<1>2. toggle[t].like \in BOOLEAN /\ [toggle[t] EXCEPT !.pc = "applied"] \in Flights(acts)
    BY <1>1 DEF Flights
<1>3. toggle' = [toggle EXCEPT ![t] = [toggle[t] EXCEPT !.pc = "applied"]]
    BY <1>1 DEF Apply
<1>4. toggle' \in [Toggles -> Mutations(acts)]
    BY <1>1, <1>2, <1>3 DEF Mutations
<1> QED
    BY <1>2, <1>4 DEF Apply, Typed, authVars, bounds

LEMMA RollBackEntries ==
    ASSUME Typed, NEW t \in Toggles, toggle[t] \in Flights(acts)
    PROVE  /\ RollBack(cache, t) \in [Keys -> Entries(acts)]
           /\ \A k \in Keys : RollBack(cache, t)[k].fetch = cache[k].fetch
<1>1. cache \in [Keys -> Entries(acts)] /\ toggle[t].back \in [Keys -> Data(acts)]
    BY DEF Typed, Flights
<1>2. \A k \in Keys : /\ Write(cache[k], toggle[t].back[k]) \in Entries(acts)
                      /\ Write(cache[k], toggle[t].back[k]).fetch = cache[k].fetch
    BY <1>1, WriteEntry
<1> QED
    BY <1>2 DEF RollBack

\* A mutation that settles waits for the one entry the page observes, if any.
LEMMA SettledMutations ==
    ASSUME Typed, NEW n, NEW ts \in [Toggles -> Mutations(n)],
           NEW t \in Toggles, ts[t].shown \in BOOLEAN
    PROVE  /\ Settled(ts, t) \in [Toggles -> Mutations(n)]
           /\ \A u \in Toggles : u # t => Settled(ts, t)[u] = ts[u]
           /\ \/ Settled(ts, t)[t] = Done
              \/ /\ Observed(page) # {}
                 /\ Settled(ts, t)[t] = [pc |-> "settling", waits |-> Observed(page),
                                         shown |-> ts[t].shown]
<1>1. Observed(page) = {} \/ \E k \in Keys : Observed(page) = {k}
    BY ObservedCases DEF Typed
<1>2. CASE Observed(page) = {}
    <2>1. Settled(ts, t) = [ts EXCEPT ![t] = Done]
        BY <1>2 DEF Settled
    <2> QED
        BY <2>1 DEF Mutations
<1>3. CASE Observed(page) # {}
    <2> DEFINE w == [pc |-> "settling", waits |-> Observed(page), shown |-> ts[t].shown]
    <2>1. Settled(ts, t) = [ts EXCEPT ![t] = w]
        BY <1>3 DEF Settled
    <2>2. w \in Waits
        BY <1>1, <1>3 DEF Waits
    <2> HIDE DEF w
    <2>3. Settled(ts, t) \in [Toggles -> Mutations(n)] /\ Settled(ts, t)[t] = w
        BY <2>1, <2>2 DEF Mutations
    <2>4. \A u \in Toggles : u # t => Settled(ts, t)[u] = ts[u]
        BY <2>1
    <2> QED
        BY <1>3, <2>3, <2>4 DEF w
<1> QED
    BY <1>2, <1>3

\* The answer of the like button's request, and its failure.
LEMMA TypedSettle ==
    ASSUME Typed, NEW t \in Toggles, Answer(t) \/ Fail(t)
    PROVE  Typed'
<1>1. /\ toggle \in [Toggles -> Mutations(acts)] /\ toggle[t] \in Flights(acts)
      /\ session \in BOOLEAN /\ cache \in [Keys -> Entries(acts)]
    BY MutationCases DEF Answer, Fail, Typed
<1>2. \A K : /\ Release(toggle, K) \in [Toggles -> Mutations(acts)]
             /\ Release(toggle, K)[t] = toggle[t]
    <2>1. toggle[t].pc # "settling"
        BY <1>1 DEF Flights
    <2> QED
        BY <1>1, <2>1, ReleaseMutations
<1>3. toggle[t].shown \in BOOLEAN
    BY <1>1 DEF Flights
<1>4. \A K : Settled(Release(toggle, K), t) \in [Toggles -> Mutations(acts)]
    BY <1>2, <1>3, SettledMutations
<1>5. CASE Answer(t)
    <2>1. cache' \in [Keys -> Entries(acts)]
        BY <1>1, <1>5, InvalidateEntries DEF Answer, Settle
    <2>2. toggle' \in [Toggles -> Mutations(acts)]
        BY <1>4, <1>5 DEF Answer
    <2> QED
        BY <1>5, <2>1, <2>2 DEF Answer, Typed, server, authVars, bounds
<1>6. CASE Fail(t)
    <2>1. cache' \in [Keys -> Entries(acts)]
        BY <1>1, <1>6, RollBackEntries, InvalidateEntries DEF Fail, Settle
    <2>2. toggle' \in [Toggles -> Mutations(acts)]
        BY <1>4, <1>6 DEF Fail
    <2> QED
        BY <1>6, <2>1, <2>2 DEF Fail, Typed, server, authVars, bounds
<1> QED
    BY <1>5, <1>6

LEMMA TypedSigning ==
    ASSUME Typed, Login \/ Logout \/ LogoutApplied \/ AuthFails
    PROVE  Typed'
<1>1. CASE Login \/ Logout
    <2>1. PICK kind \in {"login", "logout"} : Begin(kind)
        BY <1>1 DEF Login, Logout
    <2>2. /\ acts \in Nat /\ acts' = acts + 1 /\ acts' \in 0 .. MaxActs
          /\ UNCHANGED <<server, me, page, cache, toggle, form, ages>>
          /\ auth' \in {"none", "login", "logout", "loggedOut"}
        BY <2>1, ActsNat DEF Begin, Typed
    <2>3. cache' \in [Keys -> Entries(acts + 1)] /\ toggle' \in [Toggles -> Mutations(acts + 1)]
        BY <2>2, EntriesGrow DEF Typed
    <2> QED
        BY <2>2, <2>3 DEF Typed, server
<1>2. CASE LogoutApplied
    BY <1>2 DEF LogoutApplied, Typed, bounds
<1>3. CASE AuthFails
    BY <1>3 DEF AuthFails, Typed, server, bounds
<1> QED
    BY <1>1, <1>2, <1>3

LEMMA TypedTransition ==
    ASSUME Typed, LoginAnswered \/ LogoutAnswered
    PROVE  Typed'
<1>1. PICK who \in BOOLEAN : Transition(who)
    BY DEF LoginAnswered, LogoutAnswered
<1>2. cache \in [Keys -> Entries(acts)] /\ toggle \in [Toggles -> Mutations(acts)]
    BY DEF Typed
<1>3. cache' \in [Keys -> Entries(acts)] /\ toggle' \in [Toggles -> Mutations(acts)]
    BY <1>1, <1>2, InvalidateEntries, ReleaseMutations DEF Transition
<1>4. me' \in BOOLEAN /\ auth' = "none"
    BY <1>1 DEF Transition
<1>5. CASE LoginAnswered
    <2>1. session' = TRUE /\ UNCHANGED <<mine, body, page, form, bounds>>
        BY <1>5 DEF LoginAnswered
    <2> QED
        BY <1>3, <1>4, <2>1 DEF Typed, bounds
<1>6. CASE LogoutAnswered
    <2>1. form' = "none" /\ UNCHANGED <<server, page, bounds>>
        BY <1>6 DEF LogoutAnswered
    <2> QED
        BY <1>3, <1>4, <2>1 DEF Typed, server, bounds
<1> QED
    BY <1>5, <1>6

LEMMA TypedSave == ASSUME Typed, Save PROVE Typed'
<1>1. /\ acts \in Nat /\ acts' = acts + 1 /\ acts' \in 0 .. MaxActs
      /\ body' = form /\ page' = "post" /\ form' = "none" /\ form # "none"
      /\ cache' = Invalidate(cache, "edit", session) /\ toggle' = Release(toggle, Replaced(cache))
      /\ UNCHANGED <<session, mine, authVars, ages>>
    BY ActsNat DEF Save, Typed
<1>2. cache \in [Keys -> Entries(acts)] /\ toggle \in [Toggles -> Mutations(acts)] /\ session \in BOOLEAN
    BY DEF Typed
<1>3. cache' \in [Keys -> Entries(acts)] /\ toggle' \in [Toggles -> Mutations(acts)]
    BY <1>1, <1>2, InvalidateEntries, ReleaseMutations
<1>4. cache' \in [Keys -> Entries(acts + 1)] /\ toggle' \in [Toggles -> Mutations(acts + 1)]
    BY <1>1, <1>3, EntriesGrow
<1> QED
    BY <1>1, <1>4 DEF Typed, authVars, Pages

LEMMA TypedNext == Typed /\ [Next]_vars => Typed'
<1> SUFFICES ASSUME Typed, [Next]_vars PROVE Typed'
    OBVIOUS
<1>1. CASE UNCHANGED vars
    BY <1>1 DEF vars, server, authVars, bounds, Typed
<1>2. CASE \E k \in Keys : ReadLiked(k) \/ ReadCount(k) \/ Land(k) \/ FetchFails(k) \/ Age(k)
    BY <1>2, TypedFetch
<1>3. CASE \E t \in Toggles : Click(t) \/ Apply(t) \/ Answer(t) \/ Fail(t)
    BY <1>3, TypedClick, TypedApply, TypedSettle
<1> QED
    BY <1>1, <1>2, <1>3, TypedGo, TypedSigning, TypedTransition, TypedSave DEF Next

LEMMA TypedAlways == Spec => []Typed
BY TypedInit, TypedNext, PTL DEF Spec

\* Whatever happens, the two entries hold posts as the server tells them, or
\* as a click expects them, and a count is off by the number of acts at most.
THEOREM TypeCorrect == Spec => []TypeOK
BY TypedAlways, TypedIsTypeOK, PTL

-----------------------------------------------------------------------------
(* The button waits for a fetch that runs. *)

LEMMA StillWaits ==
    ASSUME Typed, ButtonNotStuck,
           \A k \in Keys : Running(cache[k]) => Running(cache'[k]),
           \A t \in Toggles : toggle'[t].pc = "settling"
                                 => /\ toggle[t].pc = "settling"
                                    /\ toggle'[t].waits = toggle[t].waits
    PROVE  ButtonNotStuck'
<1> SUFFICES ASSUME NEW t \in Toggles, toggle'[t].pc = "settling"
             PROVE  \E k \in toggle'[t].waits : Running(cache'[k])
    BY DEF ButtonNotStuck, Running
<1>1. toggle[t].pc = "settling" /\ toggle'[t].waits = toggle[t].waits
    OBVIOUS
<1>2. toggle[t] \in Waits
    BY <1>1, MutationCases DEF Typed
<1>3. toggle[t].waits \subseteq Keys
    BY <1>2 DEF Waits
<1> QED
    BY <1>1, <1>3 DEF ButtonNotStuck

\* What a release leaves waits as it did.
LEMMA ReleaseWaits ==
    ASSUME Typed, NEW K, NEW t \in Toggles, Release(toggle, K)[t].pc = "settling"
    PROVE  /\ Release(toggle, K)[t] = toggle[t] /\ toggle[t].pc = "settling"
           /\ ~(toggle[t].waits \subseteq K)
<1>1. toggle \in [Toggles -> Mutations(acts)]
    BY DEF Typed
<1>2. Done.pc # "settling"
    BY DEF Done
<1> QED
    BY <1>1, <1>2, ReleaseMutations

\* A fetch that ends frees what waits for it, and nothing waits for two.
LEMMA EndOfFetch ==
    ASSUME Typed, ButtonNotStuck, NEW k \in Keys,
           \A j \in Keys \ {k} : cache'[j] = cache[j],
           \A t \in Toggles : toggle'[t].pc = "settling"
                                 => /\ Release(toggle, {k})[t].pc = "settling"
                                    /\ toggle'[t].waits = Release(toggle, {k})[t].waits
    PROVE  ButtonNotStuck'
<1> SUFFICES ASSUME NEW t \in Toggles, toggle'[t].pc = "settling"
             PROVE  \E j \in toggle'[t].waits : Running(cache'[j])
    BY DEF ButtonNotStuck, Running
<1>1. /\ toggle[t].pc = "settling" /\ toggle'[t].waits = toggle[t].waits
      /\ ~(toggle[t].waits \subseteq {k})
    BY ReleaseWaits
<1>2. toggle[t] \in Waits
    BY <1>1, MutationCases DEF Typed
<1>3. PICK j \in Keys : toggle[t].waits = {j}
    BY <1>2 DEF Waits
<1>4. Running(cache[j]) /\ j # k
    BY <1>1, <1>3 DEF ButtonNotStuck
<1> QED
    BY <1>1, <1>3, <1>4

LEMMA UnmountedWaits ==
    ASSUME NEW n, NEW ts \in [Toggles -> Mutations(n)], NEW t \in Toggles,
           Unmounted(ts)[t].pc = "settling"
    PROVE  ts[t].pc = "settling" /\ Unmounted(ts)[t].waits = ts[t].waits
<1>1. Unmounted(ts)[t].pc = ts[t].pc
    BY UnmountedMutations
<1>2. ts[t].pc = "settling" => Unmounted(ts)[t].waits = ts[t].waits
    BY UnmountedMutations
<1> QED
    BY <1>1, <1>2

LEMMA StuckInit == Init => ButtonNotStuck
BY DEF Init, ButtonNotStuck, Unused

\* A fetch that gets on still runs.
LEMMA StillFetches ==
    ASSUME Typed, ButtonNotStuck, NEW k \in Keys, NEW f, f.pc # "idle",
           toggle' = toggle, cache' = [cache EXCEPT ![k].fetch = f]
    PROVE  ButtonNotStuck'
<1>1. f # Idle
    BY DEF Idle
<1>2. cache \in [Keys -> Entries(acts)] /\ cache'[k] = [cache[k] EXCEPT !.fetch = f]
    BY DEF Typed
<1>3. cache'[k].fetch = f
    BY <1>2 DEF Entries
<1>4. \A j \in Keys \ {k} : cache'[j] = cache[j]
    BY <1>2
<1>5. \A j \in Keys : Running(cache[j]) => Running(cache'[j])
    BY <1>1, <1>3, <1>4 DEF Running
<1> QED
    BY <1>5, StillWaits

LEMMA StuckFetch ==
    ASSUME Typed, ButtonNotStuck, NEW k \in Keys,
           ReadLiked(k) \/ ReadCount(k) \/ Land(k) \/ FetchFails(k) \/ Age(k)
    PROVE  ButtonNotStuck'
<1>0. cache \in [Keys -> Entries(acts)] /\ toggle \in [Toggles -> Mutations(acts)]
    BY DEF Typed
<1>1. CASE ReadLiked(k) \/ ReadCount(k)
    <2>1. CASE ReadLiked(k)
        <3> DEFINE f == [pc |-> "half", as |-> cache[k].fetch.as /\ session,
                         liked |-> LikedBy(cache[k].fetch.as /\ session),
                         back |-> cache[k].fetch.back, old |-> cache[k].fetch.old]
        <3>1. toggle' = toggle /\ f.pc = "half" /\ cache' = [cache EXCEPT ![k].fetch = f]
            BY <2>1 DEF ReadLiked
        <3> HIDE DEF f
        <3> QED
            BY <3>1, StillFetches
    <2>2. CASE ReadCount(k)
        <3> DEFINE f == [pc |-> "read",
                         got |-> Dto(k, cache[k].fetch.as, cache[k].fetch.liked, Likes),
                         back |-> cache[k].fetch.back, old |-> cache[k].fetch.old]
        <3>1. toggle' = toggle /\ f.pc = "read" /\ cache' = [cache EXCEPT ![k].fetch = f]
            BY <2>2 DEF ReadCount
        <3> HIDE DEF f
        <3> QED
            BY <3>1, StillFetches
    <2> QED
        BY <1>1, <2>1, <2>2
<1>2. CASE Land(k)
    <2>1. toggle' = Release(toggle, {k}) /\ \A j \in Keys \ {k} : cache'[j] = cache[j]
        BY <1>0, <1>2 DEF Land
    <2> QED
        BY <2>1, EndOfFetch
<1>3. CASE FetchFails(k)
    <2>1. \A j \in Keys \ {k} : cache'[j] = cache[j]
        BY <1>0, <1>3 DEF FetchFails
    <2>2. Release(toggle, {k}) \in [Toggles -> Mutations(acts)]
        BY <1>0, ReleaseMutations
    <2>3. toggle' \in {Release(toggle, {k}), Unmounted(Release(toggle, {k}))}
        BY <1>3 DEF FetchFails
    <2>4. \A t \in Toggles : toggle'[t].pc = "settling"
                                => /\ Release(toggle, {k})[t].pc = "settling"
                                   /\ toggle'[t].waits = Release(toggle, {k})[t].waits
        <3>1. CASE toggle' = Release(toggle, {k})
            BY <3>1
        <3>2. CASE toggle' = Unmounted(Release(toggle, {k}))
            BY <2>2, <3>2, UnmountedWaits
        <3> QED
            BY <2>3, <3>1, <3>2
    <2> QED
        BY <2>1, <2>4, EndOfFetch
<1>4. CASE Age(k)
    <2>1. toggle' = toggle /\ cache' = [cache EXCEPT ![k].stale = TRUE]
        BY <1>4 DEF Age
    <2>2. \A j \in Keys : cache'[j].fetch = cache[j].fetch
        <3> TAKE j \in Keys
        <3>1. cache[j] \in Entries(acts) /\ cache'[j] \in {cache[j], [cache[j] EXCEPT !.stale = TRUE]}
            BY <1>0, <2>1
        <3> QED
            BY <3>1 DEF Entries
    <2> QED
        BY <2>1, <2>2, StillWaits DEF Running
<1> QED
    BY <1>1, <1>2, <1>3, <1>4

LEMMA StuckGo ==
    ASSUME Typed, ButtonNotStuck, Refocus \/ \E p \in Pages : Go(p)
    PROVE  ButtonNotStuck'
<1>0. /\ cache \in [Keys -> Entries(acts)] /\ toggle \in [Toggles -> Mutations(acts)]
      /\ session \in BOOLEAN
    BY DEF Typed
<1>1. PICK p : /\ cache' = Mount(cache, p)
               /\ toggle' = toggle \/ toggle' = Unmounted(toggle)
    BY DEF Refocus, Go
<1>2. \A k \in Keys : Running(cache[k]) => Running(cache'[k])
    BY <1>0, <1>1, MountEntries
<1>3. \A t \in Toggles : toggle'[t].pc = "settling"
                            => /\ toggle[t].pc = "settling" /\ toggle'[t].waits = toggle[t].waits
    BY <1>0, <1>1, UnmountedMutations
<1> QED
    BY <1>2, <1>3, StillWaits

\* A click cancels every fetch, and with them every wait.
LEMMA StuckClick ==
    ASSUME Typed, ButtonNotStuck, NEW t \in Toggles, Click(t)
    PROVE  ButtonNotStuck'
<1> DEFINE f == [pc |-> "sent", like |-> cache["detail"].data.liked # "yes", as |-> session,
                 shown |-> TRUE, back |-> [k \in Keys |-> Cancel(cache)[k].data]]
<1>1. f.pc = "sent" /\ toggle' = [Release(toggle, Keys) EXCEPT ![t] = f]
    BY DEF Click
<1> HIDE DEF f
<1>2. Release(toggle, Keys) \in [Toggles -> Mutations(acts)]
    BY ReleaseMutations DEF Typed
<1>3. ASSUME NEW u \in Toggles PROVE toggle'[u].pc # "settling"
    <2>1. CASE u = t
        BY <1>1, <1>2, <2>1
    <2>2. CASE u # t
        <3>1. toggle'[u] = Release(toggle, Keys)[u]
            BY <1>1, <1>2, <2>2
        <3>2. toggle[u].pc = "settling" => toggle[u].waits \subseteq Keys
            BY MutationCases DEF Typed, Waits
        <3> QED
            BY <3>1, <3>2, ReleaseWaits
    <2> QED
        BY <2>1, <2>2
<1> QED
    BY <1>3 DEF ButtonNotStuck

\* An invalidation refetches what is on screen and lets run what runs.
LEMMA StuckSettle ==
    ASSUME Typed, ButtonNotStuck, NEW t \in Toggles, Answer(t) \/ Fail(t)
    PROVE  ButtonNotStuck'
<1>1. /\ toggle \in [Toggles -> Mutations(acts)] /\ toggle[t] \in Flights(acts)
      /\ session \in BOOLEAN /\ cache \in [Keys -> Entries(acts)]
    BY MutationCases DEF Answer, Fail, Typed
<1>2. PICK c, K :
          /\ c \in [Keys -> Entries(acts)]
          /\ \A k \in Keys : c[k].fetch = cache[k].fetch
          /\ cache' = Invalidate(c, page, session)
          /\ toggle' = Settled(Release(toggle, K), t)
    BY <1>1, RollBackEntries DEF Answer, Fail, Settle
<1>3. \A k \in Keys : Running(cache[k]) \/ k \in Observed(page) => Running(cache'[k])
    BY <1>1, <1>2, InvalidateEntries DEF Running
<1>4. toggle[t].pc # "settling" /\ toggle[t].shown \in BOOLEAN
    BY <1>1 DEF Flights
<1>5. Release(toggle, K) \in [Toggles -> Mutations(acts)] /\ Release(toggle, K)[t] = toggle[t]
    BY <1>1, <1>4, ReleaseMutations
<1> SUFFICES ASSUME NEW u \in Toggles, toggle'[u].pc = "settling"
             PROVE  \E k \in toggle'[u].waits : Running(cache'[k])
    BY DEF ButtonNotStuck, Running
<1>6. CASE u = t
    <2>1. toggle'[t].waits = Observed(page) /\ Observed(page) # {}
        <3> DEFINE ts == Release(toggle, K)
        <3>1. \/ Settled(ts, t)[t] = Done
              \/ /\ Observed(page) # {}
                 /\ Settled(ts, t)[t] = [pc |-> "settling", waits |-> Observed(page),
                                         shown |-> ts[t].shown]
            BY <1>4, <1>5, SettledMutations
        <3> HIDE DEF ts
        <3>2. toggle'[t] = Settled(ts, t)[t] /\ toggle'[t].pc = "settling"
            BY <1>2, <1>6 DEF ts
        <3>3. CASE Settled(ts, t)[t] = Done
            BY <3>2, <3>3 DEF Done
        <3>4. CASE /\ Observed(page) # {}
                   /\ Settled(ts, t)[t] = [pc |-> "settling", waits |-> Observed(page),
                                           shown |-> ts[t].shown]
            BY <3>2, <3>4
        <3> QED
            BY <3>1, <3>3, <3>4
    <2>2. Observed(page) \subseteq Keys
        BY ObservedCases DEF Typed
    <2> QED
        BY <1>3, <1>6, <2>1, <2>2
<1>7. CASE u # t
    <2>1. toggle'[u] = Release(toggle, K)[u]
        BY <1>2, <1>4, <1>5, <1>7, SettledMutations
    <2>2. toggle'[u] = toggle[u] /\ toggle[u].pc = "settling"
        BY <2>1, ReleaseWaits
    <2>3. toggle[u].waits \subseteq Keys
        BY <2>2, MutationCases DEF Typed, Waits
    <2> QED
        BY <1>3, <2>2, <2>3 DEF ButtonNotStuck
<1> QED
    BY <1>6, <1>7

LEMMA StuckInvalidate ==
    ASSUME Typed, ButtonNotStuck, LoginAnswered \/ LogoutAnswered \/ Save
    PROVE  ButtonNotStuck'
<1>1. session \in BOOLEAN /\ cache \in [Keys -> Entries(acts)]
    BY DEF Typed
<1>2. PICK p, as, K : /\ as \in BOOLEAN
                      /\ cache' = Invalidate(cache, p, as)
                      /\ toggle' = Release(toggle, K)
    <2>1. CASE LoginAnswered \/ LogoutAnswered
        <3>1. PICK who \in BOOLEAN : Transition(who)
            BY <2>1 DEF LoginAnswered, LogoutAnswered
        <3>2. cache' = Invalidate(cache, page, who) /\ toggle' = Release(toggle, Replaced(cache))
            BY <3>1 DEF Transition
        <3> QED
            BY <3>2
    <2>2. CASE Save
        <3>1. cache' = Invalidate(cache, "edit", session) /\ toggle' = Release(toggle, Replaced(cache))
            BY <2>2 DEF Save
        <3> QED
            BY <1>1, <3>1
    <2> QED
        BY <2>1, <2>2
<1>3. \A k \in Keys : Running(cache[k]) => Running(cache'[k])
    BY <1>1, <1>2, InvalidateEntries
<1>4. \A t \in Toggles : toggle'[t].pc = "settling"
                            => /\ toggle[t].pc = "settling" /\ toggle'[t].waits = toggle[t].waits
    BY <1>2, ReleaseWaits
<1> QED
    BY <1>3, <1>4, StillWaits

LEMMA StuckNext == Typed /\ ButtonNotStuck /\ [Next]_vars => ButtonNotStuck'
<1> SUFFICES ASSUME Typed, ButtonNotStuck, [Next]_vars PROVE ButtonNotStuck'
    OBVIOUS
<1>1. CASE UNCHANGED <<cache, toggle>>
    BY <1>1, StillWaits
<1>2. CASE \E k \in Keys : ReadLiked(k) \/ ReadCount(k) \/ Land(k) \/ FetchFails(k) \/ Age(k)
    BY <1>2, StuckFetch
<1>3. ASSUME NEW t \in Toggles, Apply(t) PROVE ButtonNotStuck'
    <2>1. /\ toggle \in [Toggles -> Mutations(acts)] /\ toggle[t] \in Flights(acts)
          /\ cache' = cache /\ toggle' = [toggle EXCEPT ![t].pc = "applied"]
        BY <1>3, MutationCases DEF Apply, Typed
    <2>2. toggle'[t].pc # "settling"
        BY <2>1 DEF Flights
    <2>3. \A u \in Toggles : u # t => toggle'[u] = toggle[u]
        BY <2>1
    <2>4. \A u \in Toggles : toggle'[u].pc = "settling"
                                => /\ toggle[u].pc = "settling" /\ toggle'[u].waits = toggle[u].waits
        BY <2>2, <2>3
    <2> QED
        BY <2>1, <2>4, StillWaits
<1>4. CASE UNCHANGED vars \/ Login \/ Logout \/ LogoutApplied \/ AuthFails
    <2>1. UNCHANGED <<cache, toggle>>
        BY <1>4 DEF vars, Login, Logout, Begin, LogoutApplied, AuthFails
    <2> QED
        BY <1>1, <2>1
<1>5. CASE \E t \in Toggles : Click(t) \/ Apply(t) \/ Answer(t) \/ Fail(t)
    BY <1>3, <1>5, StuckClick, StuckSettle
<1> QED
    BY <1>2, <1>4, <1>5, StuckGo, StuckInvalidate DEF Next

\* A like button that waits for a refetch waits for one that runs, whatever
\* cancels, replaces or shares the fetches meanwhile: it is never disabled
\* for good.
THEOREM ButtonComesBack == Spec => []ButtonNotStuck
<1>1. Init => ButtonNotStuck
    BY StuckInit
<1>2. Typed /\ ButtonNotStuck /\ [Next]_vars => ButtonNotStuck'
    BY StuckNext
<1> QED
    BY <1>1, <1>2, TypedAlways, PTL DEF Spec

-----------------------------------------------------------------------------
(* What is fresh is right. *)

\* A change is under way, or the page does not know yet who is signed in.
Dirty == (\E t \in Toggles : toggle[t].pc \in {"sent", "applied"}) \/ me # session

\* Who is signed in is known to the page, but for a sign-out that the server
\* has and the page has not heard of.
Known == (session => me) /\ (auth = "loggedOut" => ~session)

Right(d) == d.gated = ~session /\ d.liked = LikedBy(session) /\ d.count = Likes

EntryRight(e) == e.data # None /\ ~e.stale /\ ~e.behind => Right(e.data)

\* What an answer says if nothing changes before it lands.
FetchRight(f) ==
    f # Idle /\ ~f.old => /\ f.pc = "asked" => f.as = session
                          /\ f.pc = "half" => f.as = session /\ f.liked = LikedBy(session)
                          /\ f.pc = "read" => Right(f.got)

InSync == ~Dirty => \A k \in Keys : EntryRight(cache[k]) /\ FetchRight(cache[k].fetch)

LEMMA KnownAlways == Spec => []Known
<1>1. Init => Known
    BY DEF Init, Known
<1>2. Typed /\ Known /\ [Next]_vars => Known'
    <2> SUFFICES ASSUME Typed, Known, [Next]_vars PROVE Known'
        OBVIOUS
    <2>1. CASE UNCHANGED <<session, me>> /\ auth' \in {auth, "none", "login", "logout"}
        BY <2>1 DEF Known
    <2>2. CASE UNCHANGED vars
        BY <2>1, <2>2 DEF vars, server, authVars
    <2>3. ASSUME NEW k \in Keys, ReadLiked(k) \/ ReadCount(k) \/ Land(k) \/ FetchFails(k) \/ Age(k)
          PROVE  Known'
        <3>1. UNCHANGED <<server, authVars>>
            BY <2>3 DEF ReadLiked, ReadCount, Land, FetchFails, Age
        <3> QED
            BY <2>1, <3>1 DEF server, authVars
    <2>4. ASSUME NEW t \in Toggles, Click(t) \/ Apply(t) \/ Answer(t) \/ Fail(t)
          PROVE  Known'
        <3>1. session' = session /\ UNCHANGED authVars
            BY <2>4 DEF Click, Apply, Answer, Fail, server
        <3> QED
            BY <2>1, <3>1 DEF authVars
    <2>5. CASE Refocus \/ \E p \in Pages : Go(p)
        <3>1. UNCHANGED <<server, authVars>>
            BY <2>5 DEF Refocus, Go
        <3> QED
            BY <2>1, <3>1 DEF server, authVars
    <2>6. CASE Login \/ Logout \/ AuthFails
        <3>1. UNCHANGED <<session, me>> /\ auth' \in {"none", "login", "logout"}
            BY <2>6 DEF Login, Logout, Begin, AuthFails, server
        <3> QED
            BY <2>1, <3>1
    <2>7. CASE LoginAnswered
        BY <2>7 DEF LoginAnswered, Transition, Known
    <2>8. CASE LogoutAnswered
        BY <2>8 DEF LogoutAnswered, Transition, Known, server
    <2>9. CASE LogoutApplied
        BY <2>9 DEF LogoutApplied, Known
    <2>10. CASE Save
        BY <2>1, <2>10 DEF Save, authVars
    <2> QED
        BY <2>2, <2>3, <2>4, <2>5, <2>6, <2>7, <2>8, <2>9, <2>10 DEF Next
<1> QED
    BY <1>1, <1>2, TypedAlways, PTL DEF Spec

\* Whatever an invalidation finds, it leaves nothing fresh, and lets nothing
\* run but what is old or asked for now.
LEMMA InvalidatedInSync ==
    ASSUME NEW n, NEW c \in [Keys -> Entries(n)], NEW p, session' \in BOOLEAN,
           cache' = Invalidate(c, p, session')
    PROVE  InSync'
<1> SUFFICES ASSUME NEW k \in Keys PROVE (EntryRight(cache[k]) /\ FetchRight(cache[k].fetch))'
    BY DEF InSync
<1>1. /\ cache'[k].stale \/ cache'[k].data = None
      /\ Running(cache'[k]) => \/ cache'[k].fetch.old
                               \/ cache'[k].fetch.pc = "asked" /\ cache'[k].fetch.as = session'
    BY InvalidateEntries
<1>2. EntryRight(cache[k])'
    BY <1>1 DEF EntryRight
<1>3. FetchRight(cache[k].fetch)'
    <2>1. CASE cache'[k].fetch = Idle \/ cache'[k].fetch.old
        BY <2>1 DEF FetchRight
    <2>2. CASE cache'[k].fetch.pc = "asked" /\ cache'[k].fetch.as = session'
        BY <2>2 DEF FetchRight
    <2> QED
        BY <1>1, <2>1, <2>2 DEF Running
<1> QED
    BY <1>2, <1>3

\* A step that changes nothing for the reader has only the entries to keep.
LEMMA StillInSync ==
    ASSUME InSync, UNCHANGED <<session, mine, me>>,
           \A t \in Toggles : toggle[t].pc \in {"sent", "applied"}
                                 => toggle'[t].pc \in {"sent", "applied"},
           \A k \in Keys : EntryRight(cache[k]) /\ FetchRight(cache[k].fetch)
                              => EntryRight(cache'[k]) /\ FetchRight(cache'[k].fetch)
    PROVE  InSync'
<1> SUFFICES ASSUME ~Dirty', NEW k \in Keys
             PROVE  (EntryRight(cache[k]) /\ FetchRight(cache[k].fetch))'
    BY DEF InSync
<1>1. ~Dirty
    BY DEF Dirty
<1>2. EntryRight(cache'[k]) /\ FetchRight(cache'[k].fetch)
    BY <1>1 DEF InSync
<1>3. session' = session /\ mine' = mine
    OBVIOUS
<1> QED
    BY <1>2, <1>3 DEF EntryRight, FetchRight, Right, LikedBy, Likes

LEMMA SyncFetch ==
    ASSUME Typed, InSync, NEW k \in Keys,
           ReadLiked(k) \/ ReadCount(k) \/ Land(k) \/ FetchFails(k) \/ Age(k)
    PROVE  InSync'
<1>0. /\ cache \in [Keys -> Entries(acts)] /\ toggle \in [Toggles -> Mutations(acts)]
      /\ cache[k] \in Entries(acts) /\ cache[k].fetch \in Fetches(acts)
      /\ session \in BOOLEAN /\ mine \in BOOLEAN
    BY Fields DEF Typed
<1>1. UNCHANGED <<session, mine, me>>
    BY DEF ReadLiked, ReadCount, Land, FetchFails, Age, server, authVars
<1>2. \A t \in Toggles : toggle[t].pc \in {"sent", "applied"}
                            => toggle'[t].pc \in {"sent", "applied"}
    <2>1. CASE toggle' = toggle
        BY <2>1
    <2>2. \A t \in Toggles : toggle[t].pc \in {"sent", "applied"}
                                => Release(toggle, {k})[t].pc \in {"sent", "applied"}
        BY <1>0, ReleaseMutations
    <2>3. CASE toggle' = Release(toggle, {k})
        BY <2>2, <2>3
    <2>4. CASE toggle' = Unmounted(Release(toggle, {k}))
        <3>1. Release(toggle, {k}) \in [Toggles -> Mutations(acts)]
            BY <1>0, ReleaseMutations
        <3>2. \A t \in Toggles : toggle'[t].pc = Release(toggle, {k})[t].pc
            BY <2>4, <3>1, UnmountedMutations
        <3> QED
            BY <2>2, <3>2
    <2>5. toggle' = toggle \/ toggle' = Release(toggle, {k})
             \/ toggle' = Unmounted(Release(toggle, {k}))
        BY DEF ReadLiked, ReadCount, Land, FetchFails, Age
    <2> QED
        BY <2>1, <2>3, <2>4, <2>5
<1>3. \A j \in Keys : j # k => cache'[j] = cache[j]
    BY <1>0 DEF ReadLiked, ReadCount, Land, FetchFails, Age
<1>4. EntryRight(cache[k]) /\ FetchRight(cache[k].fetch)
         => EntryRight(cache'[k]) /\ FetchRight(cache'[k].fetch)
    <2> SUFFICES ASSUME EntryRight(cache[k]), FetchRight(cache[k].fetch)
                 PROVE  EntryRight(cache'[k]) /\ FetchRight(cache'[k].fetch)
        OBVIOUS
    <2>1. CASE ReadLiked(k)
        <3> DEFINE f == [pc |-> "half", as |-> cache[k].fetch.as /\ session,
                         liked |-> LikedBy(cache[k].fetch.as /\ session),
                         back |-> cache[k].fetch.back, old |-> cache[k].fetch.old]
        <3>1. cache' = [cache EXCEPT ![k].fetch = f]
            BY <2>1 DEF ReadLiked
        <3>2. cache[k].fetch \in AskedFetches(acts) /\ cache[k].fetch # Idle
              /\ cache[k].fetch.pc = "asked"
            BY <1>0, <2>1, FetchCases DEF ReadLiked, Idle
        <3>3. ~cache[k].fetch.old => cache[k].fetch.as = session
            BY <3>2 DEF FetchRight
        <3>4. FetchRight(f)
            <4>1. CASE cache[k].fetch.old
                BY <4>1 DEF FetchRight
            <4>2. CASE cache[k].fetch.as = session
                <5>1. (cache[k].fetch.as /\ session) = session
                    BY <1>0, <4>2
                <5>2. f.pc = "half" /\ f.as = session /\ f.liked = LikedBy(session)
                    BY <5>1
                <5> HIDE DEF f
                <5> QED
                    BY <5>2 DEF FetchRight
            <4> QED
                BY <3>3, <4>1, <4>2
        <3> HIDE DEF f
        <3>5. cache'[k] = [cache[k] EXCEPT !.fetch = f]
            BY <1>0, <3>1
        <3> QED
            BY <1>0, <3>4, <3>5 DEF EntryRight, Entries
    <2>2. CASE ReadCount(k)
        <3> DEFINE d == Dto(k, cache[k].fetch.as, cache[k].fetch.liked, Likes)
                   f == [pc |-> "read", got |-> d,
                         back |-> cache[k].fetch.back, old |-> cache[k].fetch.old]
        <3>1. cache' = [cache EXCEPT ![k].fetch = f]
            BY <2>2 DEF ReadCount
        <3>2. cache[k].fetch # Idle /\ cache[k].fetch.pc = "half"
            BY <2>2 DEF ReadCount, Idle
        <3>3. ~cache[k].fetch.old => /\ cache[k].fetch.as = session
                                     /\ cache[k].fetch.liked = LikedBy(session)
            BY <3>2 DEF FetchRight
        <3>4. ~cache[k].fetch.old => Right(d)
            BY <3>3 DEF Right, Dto
        <3> HIDE DEF d
        <3>5. FetchRight(f)
            BY <3>4 DEF FetchRight
        <3> HIDE DEF f
        <3>6. cache'[k] = [cache[k] EXCEPT !.fetch = f]
            BY <1>0, <3>1
        <3> QED
            BY <1>0, <3>5, <3>6 DEF EntryRight, Entries
    <2>3. CASE Land(k)
        <3>1. /\ cache'[k].data = cache[k].fetch.got /\ cache'[k].behind = cache[k].fetch.old
              /\ cache'[k].fetch = Idle
            BY <1>0, <2>3 DEF Land
        <3>2. cache[k].fetch # Idle /\ cache[k].fetch.pc = "read"
            BY <2>3 DEF Land, Idle
        <3>3. ~cache[k].fetch.old => Right(cache[k].fetch.got)
            BY <3>2 DEF FetchRight
        <3> QED
            BY <3>1, <3>3 DEF EntryRight, FetchRight
    <2>4. CASE FetchFails(k)
        <3>1. cache'[k] = [[cache[k] EXCEPT !.fetch = Idle] EXCEPT !.error = (k = "detail")]
            BY <1>0, <2>4 DEF FetchFails
        <3>2. /\ cache'[k].data = cache[k].data /\ cache'[k].stale = cache[k].stale
              /\ cache'[k].behind = cache[k].behind /\ cache'[k].fetch = Idle
            BY <1>0, <3>1 DEF Entries
        <3> QED
            BY <3>2 DEF EntryRight, FetchRight
    <2>5. CASE Age(k)
        <3>1. cache'[k] = [cache[k] EXCEPT !.stale = TRUE]
            BY <1>0, <2>5 DEF Age
        <3>2. cache'[k].stale /\ cache'[k].fetch = cache[k].fetch
            BY <1>0, <3>1 DEF Entries
        <3> QED
            BY <3>2 DEF EntryRight
    <2> QED
        BY <2>1, <2>2, <2>3, <2>4, <2>5
<1>5. \A j \in Keys : EntryRight(cache[j]) /\ FetchRight(cache[j].fetch)
                         => EntryRight(cache'[j]) /\ FetchRight(cache'[j].fetch)
    <2> TAKE j \in Keys
    <2>1. CASE j = k
        BY <1>4, <2>1
    <2>2. CASE j # k
        <3>1. cache'[j] = cache[j]
            BY <1>3, <2>2
        <3> QED
            BY <3>1
    <2> QED
        BY <2>1, <2>2
<1> QED
    BY <1>1, <1>2, <1>5, StillInSync

\* A fetch that a page starts goes out for the reader of the moment.
LEMMA SyncGo ==
    ASSUME Typed, InSync, Refocus \/ \E p \in Pages : Go(p)
    PROVE  InSync'
<1>0. /\ cache \in [Keys -> Entries(acts)] /\ toggle \in [Toggles -> Mutations(acts)]
      /\ session \in BOOLEAN
    BY DEF Typed
<1>1. PICK p : /\ cache' = Mount(cache, p)
               /\ toggle' = toggle \/ toggle' = Unmounted(toggle)
    BY DEF Refocus, Go
<1>2. UNCHANGED <<session, mine, me>>
    BY DEF Refocus, Go, server, authVars
<1>3. \A t \in Toggles : toggle'[t].pc = toggle[t].pc
    BY <1>0, <1>1, UnmountedMutations
<1>4. ASSUME NEW k \in Keys, EntryRight(cache[k]), FetchRight(cache[k].fetch)
      PROVE  EntryRight(cache'[k]) /\ FetchRight(cache'[k].fetch)
    <2>1. CASE cache'[k] = cache[k]
        BY <1>4, <2>1
    <2>2. CASE cache'[k] = StartFetch(cache[k], session)
        <3>1. cache[k] \in Entries(acts)
            BY <1>0
        <3>2. /\ SameData(cache[k], cache'[k]) /\ cache'[k].stale = cache[k].stale
              /\ cache'[k].fetch.pc = "asked" /\ cache'[k].fetch.as = session
            BY <1>0, <2>2, <3>1, Starts
        <3>3. EntryRight(cache'[k])
            BY <1>4, <3>2 DEF EntryRight, SameData
        <3>4. FetchRight(cache'[k].fetch)
            BY <3>2 DEF FetchRight
        <3> QED
            BY <3>3, <3>4
    <2> QED
        BY <1>0, <1>1, <2>1, <2>2, MountEntries
<1> QED
    BY <1>2, <1>3, <1>4, StillInSync

\* While a like is under way nothing is promised.
LEMMA SyncLike ==
    ASSUME Typed, InSync, NEW t \in Toggles, Click(t) \/ Apply(t) \/ Answer(t) \/ Fail(t)
    PROVE  InSync'
<1>0. /\ cache \in [Keys -> Entries(acts)] /\ toggle \in [Toggles -> Mutations(acts)]
      /\ session \in BOOLEAN
    BY DEF Typed
<1>1. CASE Click(t)
    <2> DEFINE f == [pc |-> "sent", like |-> cache["detail"].data.liked # "yes", as |-> session,
                     shown |-> TRUE, back |-> [k \in Keys |-> Cancel(cache)[k].data]]
    <2>1. f.pc = "sent" /\ toggle' = [Release(toggle, Keys) EXCEPT ![t] = f]
        BY <1>1 DEF Click
    <2> HIDE DEF f
    <2>2. Release(toggle, Keys) \in [Toggles -> Mutations(acts)]
        BY <1>0, ReleaseMutations
    <2>3. toggle'[t].pc = "sent"
        BY <2>1, <2>2
    <2> QED
        BY <2>3 DEF InSync, Dirty
<1>2. CASE Apply(t)
    <2>1. toggle[t] \in Flights(acts) /\ toggle'[t] = [toggle[t] EXCEPT !.pc = "applied"]
        BY <1>0, <1>2, MutationCases DEF Apply
    <2>2. toggle'[t].pc = "applied"
        BY <2>1 DEF Flights
    <2> QED
        BY <2>2 DEF InSync, Dirty
<1>3. CASE Answer(t)
    <2>1. session' = session /\ cache' = Invalidate(cache, page, session)
        BY <1>3 DEF Answer, Settle, server
    <2> QED
        BY <1>0, <2>1, InvalidatedInSync
<1>4. CASE Fail(t)
    <2>1. session' = session /\ cache' = Invalidate(RollBack(cache, t), page, session)
        BY <1>4 DEF Fail, Settle, server
    <2>2. toggle[t] \in Flights(acts)
        BY <1>0, <1>4, MutationCases DEF Fail
    <2> QED
        BY <1>0, <2>1, <2>2, RollBackEntries, InvalidatedInSync
<1> QED
    BY <1>1, <1>2, <1>3, <1>4

LEMMA SyncAuth ==
    ASSUME Typed, Known, InSync,
           \/ Login \/ Logout \/ LoginAnswered \/ LogoutApplied \/ LogoutAnswered \/ AuthFails
           \/ Save \/ UNCHANGED vars
    PROVE  InSync'
<1>0. cache \in [Keys -> Entries(acts)] /\ session \in BOOLEAN
    BY DEF Typed
<1>1. CASE Login \/ Logout \/ AuthFails \/ UNCHANGED vars
    <2>1. UNCHANGED <<session, mine, me, cache, toggle>>
        BY <1>1 DEF Login, Logout, Begin, AuthFails, vars, server, authVars
    <2> QED
        BY <2>1, StillInSync
<1>2. CASE LoginAnswered
    <2>1. session' = TRUE /\ cache' = Invalidate(cache, page, TRUE)
        BY <1>2 DEF LoginAnswered, Transition
    <2>2. cache' = Invalidate(cache, page, session') /\ session' \in BOOLEAN
        BY <2>1
    <2> QED
        BY <1>0, <2>2, InvalidatedInSync
<1>3. CASE LogoutAnswered
    <2>1. ~session /\ session' = session /\ cache' = Invalidate(cache, page, FALSE)
        BY <1>3 DEF LogoutAnswered, Transition, server, Known
    <2>2. cache' = Invalidate(cache, page, session') /\ session' \in BOOLEAN
        BY <1>0, <2>1
    <2> QED
        BY <1>0, <2>2, InvalidatedInSync
<1>4. CASE LogoutApplied
    <2>1. me' /\ ~session'
        BY <1>4 DEF LogoutApplied, Known
    <2> QED
        BY <2>1 DEF InSync, Dirty
<1>5. CASE Save
    <2>1. session' = session /\ cache' = Invalidate(cache, "edit", session)
        BY <1>5 DEF Save
    <2> QED
        BY <1>0, <2>1, InvalidatedInSync
<1> QED
    BY <1>1, <1>2, <1>3, <1>4, <1>5

LEMMA SyncInit == Init => InSync
<1> SUFFICES ASSUME Init, NEW k \in Keys PROVE EntryRight(cache[k]) /\ FetchRight(cache[k].fetch)
    BY DEF InSync
<1>1. cache[k] = Missing
    BY DEF Init
<1> QED
    BY <1>1 DEF EntryRight, FetchRight, Missing

LEMMA SyncNext == Typed /\ Known /\ InSync /\ [Next]_vars => InSync'
BY SyncFetch, SyncGo, SyncLike, SyncAuth DEF Next

\* When every like and every change of reader is over, an entry of the cache
\* that counts as fresh tells what the server would, but for one that an old
\* answer filled.
THEOREM FreshIsRight == Spec => []SettledAgrees
<1>1. Init => InSync
    BY SyncInit
<1>2. Typed /\ Known /\ InSync /\ [Next]_vars => InSync'
    BY SyncNext
<1>3. InSync => SettledAgrees
    <2> SUFFICES ASSUME InSync, Quiet, NEW k \in Keys,
                        cache[k].data # None, ~cache[k].stale, ~cache[k].behind
                 PROVE  Right(cache[k].data)
        BY DEF SettledAgrees, Right
    <2>1. ~Dirty
        BY DEF Quiet, Dirty
    <2> QED
        BY <2>1 DEF InSync, EntryRight
<1> QED
    BY <1>1, <1>2, <1>3, TypedAlways, KnownAlways, PTL DEF Spec
=============================================================================
