------------------------ MODULE CommentSectionProofs ------------------------
(***************************************************************************)
(* What a reader of a discussion can rely on, for every number of          *)
(* comments, of submits and of acts of others: a failed submit keeps its   *)
(* text, and what the reader wrote is on screen once all is over.          *)
(***************************************************************************)
EXTENDS CommentSection, TLAPS, WellFoundedInduction

-----------------------------------------------------------------------------
(* Types. *)

Hooks == Forms \cup ({"delete"} \X Ids)
Working == {"sent", "ok", "refused", "settling"}
Mutations == [pc : Working \cup {"done", "failed"}, hook : Hooks, tries : {1, 2},
              here : BOOLEAN, form : BOOLEAN, hit : BOOLEAN]

\* Replies are younger than what they reply to.
Comments == [parent : {None} \cup Ids, by : {Theirs} \cup Jobs]
IsThread(L) ==
    /\ DOMAIN L \subseteq Ids /\ L \in [DOMAIN L -> Comments]
    /\ \A c \in DOMAIN L : L[c].parent < c

FormsTyped ==
    /\ box \in [Forms -> {Closed, "", Draft}]
    /\ job \in [Jobs -> {Unused} \cup Mutations]

Fields(e) ==
    e = [list |-> e.list, loaded |-> e.loaded, stale |-> e.stale, error |-> e.error,
         behind |-> e.behind, fetch |-> e.fetch]

FetchTyped(f) ==
    \/ f = Idle \/ f = Asked
    \/ /\ f = [pc |-> "read", list |-> f.list, old |-> f.old]
       /\ IsThread(f.list) /\ f.old \in BOOLEAN

EntryTyped(e) ==
    /\ Fields(e) /\ FetchTyped(e.fetch)
    /\ e.loaded \in BOOLEAN /\ (e.loaded => IsThread(e.list))
    /\ e.stale \in BOOLEAN /\ e.error \in BOOLEAN /\ e.behind \in BOOLEAN

ThreadTyped ==
    /\ born \in 0 .. MaxComments
    /\ IsThread(db) /\ DOMAIN db \subseteq 1 .. born
    /\ EntryTyped(cache)

-----------------------------------------------------------------------------
(* A form whose submit was not answered holds its text. *)

\* Only a success of its own submit empties a form that was not closed since.
TextHeld ==
    \A j \in Jobs :
        job[j].pc \in Working \cup {"failed"} /\ job[j].form /\ job[j].hook \in Forms
            => box[job[j].hook] = Draft

\* No other submit that is under way can still empty it.
SoleSubmit ==
    \A i, j \in Jobs :
        (/\ job[j] # Unused /\ job[j].form
         /\ job[i].pc \in Working /\ job[i].here
         /\ job[i].hook = job[j].hook)
            => i = j

-----------------------------------------------------------------------------
(* The list holds what the reader wrote. *)

\* A deleted comment does not come back.
DeletedStays ==
    \A j \in Jobs : job[j].pc \in {"ok", "settling", "done"} /\ job[j].hook[1] = "delete"
        => job[j].hook[2] \in 1 .. born /\ job[j].hook[2] \notin DOMAIN db

\* A request of the reader was carried out, and no answer to it has come.
Unanswered == \E j \in Jobs : job[j].pc \in {"sent", "ok", "refused"} /\ job[j].hit

Agrees(L, d, js) ==
    /\ \A c \in DOMAIN d : Mine(d[c]) => c \in DOMAIN L /\ L[c] = d[c]
    /\ \A j \in Jobs : js[j].pc \in {"settling", "done"} /\ js[j].hook[1] = "delete"
                           => js[j].hook[2] \notin DOMAIN L

ListAgrees ==
    ~Unanswered =>
        /\ cache.loaded /\ ~cache.stale /\ ~cache.behind => Agrees(cache.list, db, job)
        /\ cache.fetch.pc = "read" /\ ~cache.fetch.old => Agrees(cache.fetch.list, db, job)

-----------------------------------------------------------------------------
(* Forms and mutations. *)

LEMMA HookCases ==
    /\ New \in Hooks /\ New \in Forms /\ New[1] = "new" /\ New[2] = None
    /\ \A f \in Forms : f \in Hooks /\ f[1] # "delete"
    /\ \A h \in Hooks : h # New => h[1] \in {"reply", "edit", "delete"} /\ h[2] \in Ids
    /\ \A c \in Ids : <<"delete", c>> \in Hooks \ Forms /\ <<"edit", c>> \in Forms
BY DEF Hooks, Forms, New, None

LEMMA JobCases ==
    ASSUME NEW t \in {Unused} \cup Mutations
    PROVE  /\ t = Unused <=> t.pc = "unused"
           /\ t # Unused <=> t \in Mutations
           /\ t # Unused <=> t.pc \in Working \cup {"done", "failed"}
BY DEF Mutations, Unused, Working

LEMMA MutationFields ==
    ASSUME NEW t \in Mutations
    PROVE  /\ t.pc \in Working \cup {"done", "failed"} /\ t.hook \in Hooks
           /\ t.here \in BOOLEAN /\ t.form \in BOOLEAN /\ t.hit \in BOOLEAN
BY DEF Mutations

\* u is the mutation t, of which less is mounted maybe.
Follows(u, t) ==
    /\ u.pc = t.pc /\ u.hook = t.hook /\ u.hit = t.hit
    /\ u.form => t.form
    /\ u.here => t.here

LEMMA LeavesJobs ==
    ASSUME NEW js \in [Jobs -> {Unused} \cup Mutations], NEW f
    PROVE  /\ Leaves(js, f) \in [Jobs -> {Unused} \cup Mutations]
           /\ \A j \in Jobs :
                 /\ Leaves(js, f)[j] = Unused <=> js[j] = Unused
                 /\ js[j] # Unused => /\ Follows(Leaves(js, f)[j], js[j])
                                      /\ js[j].hook = f => ~Leaves(js, f)[j].form
<1>1. ASSUME NEW j \in Jobs
      PROVE  /\ Leaves(js, f)[j] \in {Unused} \cup Mutations
             /\ Leaves(js, f)[j] = Unused <=> js[j] = Unused
             /\ js[j] # Unused => /\ Follows(Leaves(js, f)[j], js[j])
                                  /\ js[j].hook = f => ~Leaves(js, f)[j].form
    <2>1. CASE js[j] # Unused /\ js[j].hook = f
        <3>1. js[j] \in Mutations
            BY <2>1
        <3>2. Leaves(js, f)[j] = [js[j] EXCEPT !.form = FALSE]
            BY <2>1 DEF Leaves
        <3>3. /\ [js[j] EXCEPT !.form = FALSE] \in Mutations
              /\ Follows([js[j] EXCEPT !.form = FALSE], js[j])
              /\ ~[js[j] EXCEPT !.form = FALSE].form
            BY <3>1 DEF Mutations, Follows
        <3> QED
            BY <2>1, <3>2, <3>3, JobCases
    <2>2. CASE ~(js[j] # Unused /\ js[j].hook = f)
        BY <2>2 DEF Leaves, Follows
    <2> QED
        BY <2>1, <2>2
<1>2. Leaves(js, f) = [j \in Jobs |-> Leaves(js, f)[j]]
    BY DEF Leaves
<1> QED
    BY <1>1, <1>2

LEMMA KeepJobsJobs ==
    ASSUME NEW js \in [Jobs -> {Unused} \cup Mutations], NEW K
    PROVE  /\ KeepJobs(js, K) \in [Jobs -> {Unused} \cup Mutations]
           /\ \A j \in Jobs :
                 /\ KeepJobs(js, K)[j] = Unused <=> js[j] = Unused
                 /\ js[j] # Unused =>
                       /\ Follows(KeepJobs(js, K)[j], js[j])
                       /\ KeepJobs(js, K)[j].form => js[j].hook = New \/ js[j].hook[2] \in K
<1>1. ASSUME NEW j \in Jobs
      PROVE  /\ KeepJobs(js, K)[j] \in {Unused} \cup Mutations
             /\ KeepJobs(js, K)[j] = Unused <=> js[j] = Unused
             /\ js[j] # Unused =>
                   /\ Follows(KeepJobs(js, K)[j], js[j])
                   /\ KeepJobs(js, K)[j].form => js[j].hook = New \/ js[j].hook[2] \in K
    <2>1. CASE js[j] = Unused \/ js[j].hook = New \/ js[j].hook[2] \in K
        <3>1. KeepJobs(js, K)[j] = js[j]
            BY <2>1 DEF KeepJobs
        <3> QED
            BY <2>1, <3>1 DEF Follows
    <2>2. CASE ~(js[j] = Unused \/ js[j].hook = New \/ js[j].hook[2] \in K)
        <3>1. js[j] \in Mutations
            BY <2>2
        <3>2. KeepJobs(js, K)[j] = [js[j] EXCEPT !.here = FALSE, !.form = FALSE]
            BY <2>2 DEF KeepJobs
        <3>3. /\ [js[j] EXCEPT !.here = FALSE, !.form = FALSE] \in Mutations
              /\ Follows([js[j] EXCEPT !.here = FALSE, !.form = FALSE], js[j])
              /\ ~[js[j] EXCEPT !.here = FALSE, !.form = FALSE].form
            BY <3>1 DEF Mutations, Follows
        <3> QED
            BY <2>2, <3>2, <3>3, JobCases
    <2> QED
        BY <2>1, <2>2
<1>2. KeepJobs(js, K) = [j \in Jobs |-> KeepJobs(js, K)[j]]
    BY DEF KeepJobs
<1> QED
    BY <1>1, <1>2

LEMMA KeepFormsForms ==
    ASSUME box \in [Forms -> {Closed, "", Draft}], NEW K
    PROVE  /\ KeepForms(box, K) \in [Forms -> {Closed, "", Draft}]
           /\ \A f \in Forms : f = New \/ f[2] \in K => KeepForms(box, K)[f] = box[f]
BY DEF KeepForms

\* A step that sends nothing keeps both, if it empties no form in use.
LEMMA StillHeld ==
    ASSUME TextHeld, SoleSubmit,
           \A j \in Jobs : job'[j] # Unused =>
               /\ job[j] # Unused /\ job'[j].hook = job[j].hook
               /\ job'[j].form => job[j].form
               /\ job'[j].here => job[j].here
               /\ job'[j].pc \in Working => job[j].pc \in Working
               /\ job'[j].pc = "failed" => job[j].pc \in Working \cup {"failed"},
           Unused.pc \notin Working \cup {"failed"},
           \A j \in Jobs :
               (/\ job'[j].pc \in Working \cup {"failed"} /\ job'[j].form
                /\ job[j].hook \in Forms /\ box[job[j].hook] = Draft)
                   => box'[job[j].hook] = Draft
    PROVE  TextHeld' /\ SoleSubmit'
<1>1. ASSUME NEW j \in Jobs, job'[j].pc \in Working \cup {"failed"}, job'[j].form,
             job'[j].hook \in Forms
      PROVE  box'[job'[j].hook] = Draft
    <2>1. job'[j] # Unused
        BY <1>1
    <2>2. job'[j].hook = job[j].hook /\ job[j].form /\ job[j].pc \in Working \cup {"failed"}
        BY <1>1, <2>1
    <2>3. box[job[j].hook] = Draft
        BY <1>1, <2>2 DEF TextHeld
    <2> QED
        BY <1>1, <2>2, <2>3
<1>2. ASSUME NEW i \in Jobs, NEW j \in Jobs,
             job'[j] # Unused, job'[j].form, job'[i].pc \in Working, job'[i].here,
             job'[i].hook = job'[j].hook
      PROVE  i = j
    <2>1. job'[i] # Unused
        BY <1>2
    <2>2. /\ job[j] # Unused /\ job[j].form /\ job[i].pc \in Working /\ job[i].here
          /\ job[i].hook = job[j].hook
        BY <1>2, <2>1
    <2> QED
        BY <2>2 DEF SoleSubmit
<1> QED
    BY <1>1, <1>2 DEF TextHeld, SoleSubmit

Held == FormsTyped /\ TextHeld /\ SoleSubmit

LEMMA HeldInit == Init => Held
<1> SUFFICES ASSUME Init PROVE Held
    OBVIOUS
<1>1. \A j \in Jobs : job[j] = Unused
    BY DEF Init
<1>2. Unused.pc = "unused"
    BY DEF Unused
<1>3. FormsTyped
    BY DEF Init, FormsTyped
<1> QED
    BY <1>1, <1>2, <1>3 DEF Held, TextHeld, SoleSubmit, Working

\* Opening, closing and typing.
LEMMA HeldOpen ==
    ASSUME Held, NEW f \in Forms, Open(f) \/ Cancel(f) \/ Type(f)
    PROVE  Held'
<1>0. /\ box \in [Forms -> {Closed, "", Draft}] /\ job \in [Jobs -> {Unused} \cup Mutations]
      /\ Unused.pc \notin Working \cup {"failed"}
    BY DEF Held, FormsTyped, Unused, Working
<1>1. CASE Open(f) \/ Type(f)
    <2>1. job' = job /\ box' \in [Forms -> {Closed, "", Draft}]
        BY <1>0, <1>1 DEF Open, Type
    <2>2. \A g \in Forms : box[g] = Draft => box'[g] = Draft
        <3> SUFFICES ASSUME NEW g \in Forms, box[g] = Draft PROVE box'[g] = Draft
            OBVIOUS
        <3>1. CASE Open(f)
            <4>1. box[f] # Draft
                BY <3>1 DEF Open, Closed, Draft
            <4>2. g # f
                BY <4>1
            <4> QED
                BY <1>0, <3>1, <4>2 DEF Open
        <3>2. CASE Type(f)
            BY <1>0, <3>2 DEF Type
        <3> QED
            BY <1>1, <3>1, <3>2
    <2>3. TextHeld' /\ SoleSubmit'
        BY <1>0, <2>1, <2>2, StillHeld DEF Held
    <2> QED
        BY <1>0, <2>1, <2>3 DEF Held, FormsTyped
<1>2. CASE Cancel(f)
    <2>1. job' = Leaves(job, f) /\ box' = [box EXCEPT ![f] = Closed]
        BY <1>2 DEF Cancel
    <2>2. job' \in [Jobs -> {Unused} \cup Mutations] /\ box' \in [Forms -> {Closed, "", Draft}]
        BY <1>0, <2>1, LeavesJobs
    <2>3. \A j \in Jobs : job'[j] # Unused =>
               /\ job[j] # Unused /\ Follows(job'[j], job[j])
               /\ job[j].hook = f => ~job'[j].form
        BY <1>0, <2>1, LeavesJobs
    <2>4. ASSUME NEW j \in Jobs, job'[j].pc \in Working \cup {"failed"}, job'[j].form,
                 job[j].hook \in Forms, box[job[j].hook] = Draft
          PROVE  box'[job[j].hook] = Draft
        <3>1. job'[j] # Unused
            BY <1>0, <2>4
        <3>2. job[j].hook # f
            BY <2>3, <2>4, <3>1
        <3> QED
            BY <1>0, <2>1, <2>4, <3>2
    <2>5. TextHeld' /\ SoleSubmit'
        BY <1>0, <2>3, <2>4, StillHeld DEF Held, Follows
    <2> QED
        BY <2>2, <2>5 DEF Held, FormsTyped
<1> QED
    BY <1>1, <1>2

\* A submit takes over the form of the one before, which is over.
LEMMA HeldSend ==
    ASSUME Held, NEW j \in Jobs, NEW h \in Hooks, h \in Forms => box[h] = Draft, Send(j, h)
    PROVE  Held'
<1> DEFINE t == [pc |-> "sent", hook |-> h, tries |-> 1, here |-> TRUE, form |-> TRUE, hit |-> FALSE]
           js == Leaves(job, h)
<1>0. /\ box \in [Forms -> {Closed, "", Draft}] /\ job \in [Jobs -> {Unused} \cup Mutations]
      /\ Unused.pc \notin Working \cup {"failed"} /\ TextHeld /\ SoleSubmit
    BY DEF Held, FormsTyped, Unused, Working
<1>1. job' = [js EXCEPT ![j] = t] /\ box' = box /\ job[j] = Unused /\ ~Pending(h)
    BY DEF Send
<1>2. t \in Mutations /\ t.hook = h /\ t.form = TRUE
    BY DEF Mutations, Working
<1>3. /\ js \in [Jobs -> {Unused} \cup Mutations]
      /\ \A i \in Jobs : js[i] # Unused => /\ job[i] # Unused /\ Follows(js[i], job[i])
                                           /\ job[i].hook = h => ~js[i].form
    BY <1>0, LeavesJobs
<1> HIDE DEF t, js
<1>4. FormsTyped'
    BY <1>0, <1>1, <1>2, <1>3 DEF FormsTyped
<1>5. job'[j] = t /\ \A i \in Jobs : i # j => job'[i] = js[i]
    BY <1>1, <1>3
<1>6. ASSUME NEW i \in Jobs, job'[i].pc \in Working \cup {"failed"}, job'[i].form,
             job'[i].hook \in Forms
      PROVE  box'[job'[i].hook] = Draft
    <2>1. CASE i = j
        BY <1>1, <1>2, <1>5, <1>6, <2>1
    <2>2. CASE i # j
        <3>1. js[i] # Unused /\ job'[i] = js[i]
            BY <1>0, <1>5, <1>6, <2>2
        <3>2. /\ job[i].pc \in Working \cup {"failed"} /\ job[i].form /\ job[i].hook \in Forms
              /\ job'[i].hook = job[i].hook
            BY <1>3, <1>6, <3>1 DEF Follows
        <3> QED
            BY <1>0, <1>1, <3>2 DEF TextHeld
    <2> QED
        BY <2>1, <2>2
<1>7. ASSUME NEW i \in Jobs, NEW k \in Jobs,
             job'[k] # Unused, job'[k].form, job'[i].pc \in Working, job'[i].here,
             job'[i].hook = job'[k].hook
      PROVE  i = k
    <2>1. job'[i] # Unused
        BY <1>0, <1>7
    <2>2. CASE i # j /\ k # j
        <3>1. js[i] # Unused /\ job'[i] = js[i] /\ js[k] # Unused /\ job'[k] = js[k]
            BY <1>5, <1>7, <2>1, <2>2
        <3>2. /\ job[k] # Unused /\ job[k].form /\ job[i].pc \in Working /\ job[i].here
              /\ job[i].hook = job[k].hook
            BY <1>3, <1>7, <3>1 DEF Follows
        <3> QED
            BY <1>0, <3>2 DEF SoleSubmit
    <2>3. CASE i # j /\ k = j
        <3>1. js[i] # Unused /\ job'[i] = js[i] /\ job'[k].hook = h
            BY <1>2, <1>5, <2>1, <2>3
        <3>2. job[i].pc \in Working /\ job[i].here /\ job[i].hook = h
            BY <1>3, <1>7, <3>1 DEF Follows
        <3> QED
            BY <1>1, <3>2 DEF Pending, Working
    <2>4. CASE i = j /\ k # j
        <3>1. js[k] # Unused /\ job'[k] = js[k] /\ job'[i].hook = h
            BY <1>2, <1>5, <1>7, <2>4
        <3>2. job[k].hook = h /\ js[k].form
            BY <1>3, <1>7, <3>1 DEF Follows
        <3> QED
            BY <1>3, <3>1, <3>2
    <2> QED
        BY <2>2, <2>3, <2>4
<1> QED
    BY <1>4, <1>6, <1>7 DEF Held, TextHeld, SoleSubmit

\* The server, an answer that is an error, and the second try.
LEMMA HeldServer ==
    ASSUME Held, NEW j \in Jobs, Apply(j) \/ Fail(j)
    PROVE  Held'
<1>0. /\ box \in [Forms -> {Closed, "", Draft}] /\ job \in [Jobs -> {Unused} \cup Mutations]
      /\ Unused.pc \notin Working \cup {"failed"} /\ TextHeld /\ SoleSubmit
    BY DEF Held, FormsTyped, Unused, Working
<1>1. job[j] \in Mutations /\ job[j].pc \in Working
    BY <1>0, JobCases DEF Apply, Fail, Working
<1>2. box' = box
    BY DEF Apply, Fail
<1>3. /\ job' \in [Jobs -> {Unused} \cup Mutations]
      /\ \A i \in Jobs : i # j => job'[i] = job[i]
      /\ job'[j].hook = job[j].hook /\ job'[j].form = job[j].form /\ job'[j].here = job[j].here
    <2>1. CASE job' = [job EXCEPT ![j].pc = "ok", ![j].hit = TRUE]
        <3>1. job' = [job EXCEPT ![j] = [job[j] EXCEPT !.pc = "ok", !.hit = TRUE]]
            BY <1>0, <2>1
        <3>2. /\ [job[j] EXCEPT !.pc = "ok", !.hit = TRUE] \in Mutations
              /\ [job[j] EXCEPT !.pc = "ok", !.hit = TRUE].hook = job[j].hook
              /\ [job[j] EXCEPT !.pc = "ok", !.hit = TRUE].form = job[j].form
              /\ [job[j] EXCEPT !.pc = "ok", !.hit = TRUE].here = job[j].here
            BY <1>1 DEF Mutations, Working
        <3> QED
            BY <1>0, <3>1, <3>2
    <2>2. CASE job' = [job EXCEPT ![j].pc = "sent", ![j].tries = 2]
        <3>1. job' = [job EXCEPT ![j] = [job[j] EXCEPT !.pc = "sent", !.tries = 2]]
            BY <1>0, <2>2
        <3>2. /\ [job[j] EXCEPT !.pc = "sent", !.tries = 2] \in Mutations
              /\ [job[j] EXCEPT !.pc = "sent", !.tries = 2].hook = job[j].hook
              /\ [job[j] EXCEPT !.pc = "sent", !.tries = 2].form = job[j].form
              /\ [job[j] EXCEPT !.pc = "sent", !.tries = 2].here = job[j].here
            BY <1>1 DEF Mutations, Working
        <3> QED
            BY <1>0, <3>1, <3>2
    <2>3. ASSUME NEW label \in {"refused", "failed"}, job' = [job EXCEPT ![j].pc = label]
          PROVE  /\ job' \in [Jobs -> {Unused} \cup Mutations]
                 /\ \A i \in Jobs : i # j => job'[i] = job[i]
                 /\ job'[j].hook = job[j].hook /\ job'[j].form = job[j].form
                 /\ job'[j].here = job[j].here
        <3>1. job' = [job EXCEPT ![j] = [job[j] EXCEPT !.pc = label]]
            BY <1>0, <2>3
        <3>2. /\ [job[j] EXCEPT !.pc = label] \in Mutations
              /\ [job[j] EXCEPT !.pc = label].hook = job[j].hook
              /\ [job[j] EXCEPT !.pc = label].form = job[j].form
              /\ [job[j] EXCEPT !.pc = label].here = job[j].here
            BY <1>1 DEF Mutations, Working
        <3> QED
            BY <1>0, <3>1, <3>2
    <2>4. \/ job' = [job EXCEPT ![j].pc = "ok", ![j].hit = TRUE]
          \/ job' = [job EXCEPT ![j].pc = "sent", ![j].tries = 2]
          \/ job' = [job EXCEPT ![j].pc = "refused"]
          \/ job' = [job EXCEPT ![j].pc = "failed"]
        BY DEF Apply, Fail
    <2> QED
        BY <2>1, <2>2, <2>3, <2>4
<1>4. \A i \in Jobs : job'[i] # Unused =>
               /\ job[i] # Unused /\ job'[i].hook = job[i].hook
               /\ job'[i].form => job[i].form
               /\ job'[i].here => job[i].here
               /\ job'[i].pc \in Working => job[i].pc \in Working
               /\ job'[i].pc = "failed" => job[i].pc \in Working \cup {"failed"}
    BY <1>0, <1>1, <1>3
<1>5. TextHeld' /\ SoleSubmit'
    BY <1>0, <1>2, <1>4, StillHeld
<1> QED
    BY <1>0, <1>2, <1>3, <1>5 DEF Held, FormsTyped

\* The mutations that a success or the end of a refetch finishes.
LEMMA Finishes ==
    ASSUME NEW t \in Mutations, NEW label \in {"settling", "done"}
    PROVE  /\ [t EXCEPT !.pc = label] \in Mutations /\ [t EXCEPT !.pc = label].pc = label
           /\ [t EXCEPT !.pc = label].hook = t.hook /\ [t EXCEPT !.pc = label].form = t.form
           /\ [t EXCEPT !.pc = label].here = t.here /\ [t EXCEPT !.pc = label].hit = t.hit
BY DEF Mutations, Working

LEMMA AnswerJobs ==
    ASSUME FormsTyped, NEW j \in Jobs, Answer(j)
    PROVE  LET D == IF cache.fetch # Idle /\ cache.loaded THEN Waiting ELSE {}
               over == { job[i].hook : i \in { i \in D : job[i].here } }
           IN /\ cache' = Invalidate(cache)
              /\ box' = [f \in Forms |-> IF f \notin over THEN box[f] ELSE IF f = New THEN "" ELSE Closed]
              /\ job' = [i \in Jobs |-> IF i = j THEN [job[i] EXCEPT !.pc = "settling"]
                                        ELSE IF i \in D THEN [job[i] EXCEPT !.pc = "done"] ELSE job[i]]
<1> DEFINE D == IF cache.fetch # Idle /\ cache.loaded THEN Waiting ELSE {}
           over == { job[i].hook : i \in { i \in D : job[i].here } }
           js == [job EXCEPT ![j].pc = "settling"]
<1>1. /\ job[j].pc = "ok" /\ cache' = Invalidate(cache)
      /\ box' = [f \in Forms |-> IF f \notin { js[i].hook : i \in { i \in D : js[i].here } }
                                 THEN box[f] ELSE IF f = New THEN "" ELSE Closed]
      /\ job' = [i \in Jobs |-> IF i \in D THEN [js[i] EXCEPT !.pc = "done"] ELSE js[i]]
    BY DEF Answer, Finish
<1>2. j \notin D /\ D \subseteq Jobs
    BY <1>1 DEF Waiting
<1> HIDE DEF D
<1>3. js[j] = [job[j] EXCEPT !.pc = "settling"] /\ \A i \in Jobs : i # j => js[i] = job[i]
    BY DEF FormsTyped
<1> HIDE DEF js
<1>4. { js[i].hook : i \in { i \in D : js[i].here } } = over
    <2>1. \A i \in D : js[i] = job[i]
        BY <1>2, <1>3
    <2> QED
        BY <2>1
<1>5. \A i \in Jobs : (IF i \in D THEN [js[i] EXCEPT !.pc = "done"] ELSE js[i])
                       = IF i = j THEN [job[i] EXCEPT !.pc = "settling"]
                         ELSE IF i \in D THEN [job[i] EXCEPT !.pc = "done"] ELSE job[i]
    <2> SUFFICES ASSUME NEW i \in Jobs
                 PROVE  (IF i \in D THEN [js[i] EXCEPT !.pc = "done"] ELSE js[i])
                        = IF i = j THEN [job[i] EXCEPT !.pc = "settling"]
                          ELSE IF i \in D THEN [job[i] EXCEPT !.pc = "done"] ELSE job[i]
        OBVIOUS
    <2>1. CASE i = j
        BY <1>2, <1>3, <2>1
    <2>2. CASE i # j
        <3>1. js[i] = job[i]
            BY <1>3, <2>2
        <3> QED
            BY <2>2, <3>1
    <2> QED
        BY <2>1, <2>2
<1>6. job' = [i \in Jobs |-> IF i = j THEN [job[i] EXCEPT !.pc = "settling"]
                            ELSE IF i \in D THEN [job[i] EXCEPT !.pc = "done"] ELSE job[i]]
    BY <1>1, <1>5
<1>7. box' = [f \in Forms |-> IF f \notin over THEN box[f] ELSE IF f = New THEN "" ELSE Closed]
    BY <1>1, <1>4
<1> QED
    BY <1>1, <1>6, <1>7 DEF D

\* A form that is emptied is that of a mutation that ends.
LEMMA HeldAnswer ==
    ASSUME Held, NEW j \in Jobs, Answer(j)
    PROVE  Held'
<1> DEFINE D == IF cache.fetch # Idle /\ cache.loaded THEN Waiting ELSE {}
           over == { job[i].hook : i \in { i \in D : job[i].here } }
<1>0. /\ box \in [Forms -> {Closed, "", Draft}] /\ job \in [Jobs -> {Unused} \cup Mutations]
      /\ Unused.pc \notin Working \cup {"failed"} /\ TextHeld /\ SoleSubmit
    BY DEF Held, FormsTyped, Unused, Working
<1>1. /\ job[j].pc = "ok"
      /\ box' = [f \in Forms |-> IF f \notin over THEN box[f] ELSE IF f = New THEN "" ELSE Closed]
      /\ job' = [i \in Jobs |-> IF i = j THEN [job[i] EXCEPT !.pc = "settling"]
                                ELSE IF i \in D THEN [job[i] EXCEPT !.pc = "done"] ELSE job[i]]
    BY AnswerJobs DEF Answer, Held
<1>2. \A i \in D : i \in Jobs /\ job[i].pc = "settling"
    BY DEF Waiting
<1> HIDE DEF D
<1>3. job[j] \in Mutations /\ \A i \in D : job[i] \in Mutations
    BY <1>0, <1>1, <1>2, JobCases DEF Working
<1>4. /\ job'[j] = [job[j] EXCEPT !.pc = "settling"]
      /\ \A i \in Jobs : i # j /\ i \in D => job'[i] = [job[i] EXCEPT !.pc = "done"]
      /\ \A i \in Jobs : i # j /\ i \notin D => job'[i] = job[i]
    BY <1>1
<1>5. ASSUME NEW i \in Jobs
      PROVE  /\ job'[i] \in {Unused} \cup Mutations
             /\ job'[i] # Unused =>
                   /\ job[i] # Unused /\ job'[i].hook = job[i].hook
                   /\ job'[i].form => job[i].form
                   /\ job'[i].here => job[i].here
                   /\ job'[i].pc \in Working => job[i].pc \in Working
                   /\ job'[i].pc = "failed" => job[i].pc \in Working \cup {"failed"}
             /\ i \in D => job'[i].pc = "done"
    <2>1. CASE i = j
        <3>1. i \notin D
            BY <1>1, <1>2, <2>1
        <3>2. job[i] \in Mutations /\ job'[i] = [job[i] EXCEPT !.pc = "settling"]
            BY <1>3, <1>4, <2>1
        <3>3. /\ job'[i] \in Mutations /\ job'[i].hook = job[i].hook
              /\ job'[i].form = job[i].form /\ job'[i].here = job[i].here
              /\ job'[i].pc = "settling"
            BY <3>2 DEF Mutations, Working
        <3>4. job[i] # Unused
            BY <3>2, JobCases
        <3> QED
            BY <1>1, <2>1, <3>1, <3>3, <3>4 DEF Working
    <2>2. CASE i # j /\ i \in D
        <3>1. job[i] \in Mutations /\ job'[i] = [job[i] EXCEPT !.pc = "done"]
            BY <1>3, <1>4, <2>2
        <3>2. /\ job'[i] \in Mutations /\ job'[i].hook = job[i].hook
              /\ job'[i].form = job[i].form /\ job'[i].here = job[i].here
              /\ job'[i].pc = "done"
            BY <3>1, Finishes
        <3>3. job[i] # Unused
            BY <3>1, JobCases
        <3> QED
            BY <2>2, <3>2, <3>3 DEF Working
    <2>3. CASE i # j /\ i \notin D
        BY <1>0, <1>4, <2>3
    <2> QED
        BY <2>1, <2>2, <2>3
<1>6. ASSUME NEW i \in Jobs, job'[i].pc \in Working \cup {"failed"}, job'[i].form,
             job[i].hook \in Forms, box[job[i].hook] = Draft
      PROVE  box'[job[i].hook] = Draft
    <2>1. job[i].hook \notin over
        <3> SUFFICES ASSUME NEW k \in D, job[k].here, job[k].hook = job[i].hook PROVE FALSE
            BY DEF over
        <3>1. job'[i] # Unused
            BY <1>0, <1>6
        <3>2. job[i] # Unused /\ job[i].form
            BY <1>5, <1>6, <3>1
        <3>3. k \in Jobs /\ job[k].pc \in Working
            BY <1>2 DEF Working
        <3>4. k = i
            BY <1>0, <3>2, <3>3 DEF SoleSubmit
        <3>5. job'[i].pc = "done"
            BY <1>5, <3>4
        <3> QED
            BY <1>6, <3>5 DEF Working
    <2> QED
        BY <1>1, <1>6, <2>1
<1>7. TextHeld' /\ SoleSubmit'
    BY <1>0, <1>5, <1>6, StillHeld
<1>8. job' \in [Jobs -> {Unused} \cup Mutations]
    BY <1>1, <1>5
<1>9. box' \in [Forms -> {Closed, "", Draft}]
    BY <1>0, <1>1
<1> QED
    BY <1>7, <1>8, <1>9 DEF Held, FormsTyped

LEMMA HeldRender ==
    ASSUME Held, NEW e, Render(e)
    PROVE  Held'
<1> DEFINE K == Kept(cache, e)
           D == Waiting
           js == KeepJobs(job, K)
           over == { js[j].hook : j \in { i \in D : js[i].here } }
<1>0. /\ box \in [Forms -> {Closed, "", Draft}] /\ job \in [Jobs -> {Unused} \cup Mutations]
      /\ Unused.pc \notin Working \cup {"failed"} /\ TextHeld /\ SoleSubmit
    BY DEF Held, FormsTyped, Unused, Working
<1>1. /\ box' = [f \in Forms |-> IF f \notin over THEN KeepForms(box, K)[f]
                                 ELSE IF f = New THEN "" ELSE Closed]
      /\ job' = [j \in Jobs |-> IF j \in D THEN [js[j] EXCEPT !.pc = "done"] ELSE js[j]]
    BY DEF Render, Finish
<1>2. \A i \in D : i \in Jobs /\ job[i].pc = "settling"
    BY DEF Waiting
<1>3. /\ js \in [Jobs -> {Unused} \cup Mutations]
      /\ \A j \in Jobs :
            /\ js[j] = Unused <=> job[j] = Unused
            /\ job[j] # Unused => /\ Follows(js[j], job[j])
                                  /\ js[j].form => job[j].hook = New \/ job[j].hook[2] \in K
    BY <1>0, KeepJobsJobs
<1>4. /\ KeepForms(box, K) \in [Forms -> {Closed, "", Draft}]
      /\ \A f \in Forms : f = New \/ f[2] \in K => KeepForms(box, K)[f] = box[f]
    BY <1>0, KeepFormsForms
<1> HIDE DEF K, D, js
<1>5. \A i \in D : job[i] # Unused /\ js[i] \in Mutations
    BY <1>0, <1>2, <1>3, JobCases DEF Working
<1>6. /\ \A i \in Jobs : i \in D => job'[i] = [js[i] EXCEPT !.pc = "done"]
      /\ \A i \in Jobs : i \notin D => job'[i] = js[i]
    BY <1>1
<1>7. ASSUME NEW i \in Jobs
      PROVE  /\ job'[i] \in {Unused} \cup Mutations
             /\ job'[i] # Unused =>
                   /\ job[i] # Unused /\ job'[i].hook = job[i].hook
                   /\ job'[i].form => job[i].form /\ (job[i].hook = New \/ job[i].hook[2] \in K)
                   /\ job'[i].here => job[i].here
                   /\ job'[i].pc \in Working => job[i].pc \in Working
                   /\ job'[i].pc = "failed" => job[i].pc \in Working \cup {"failed"}
             /\ i \in D => job'[i].pc = "done"
    <2>1. CASE i \in D
        <3>1. /\ job'[i] \in Mutations /\ job'[i].pc = "done" /\ job'[i].hook = js[i].hook
              /\ job'[i].form = js[i].form /\ job'[i].here = js[i].here
            <4>1. js[i] \in Mutations /\ job'[i] = [js[i] EXCEPT !.pc = "done"]
                BY <1>5, <1>6, <2>1
            <4> QED
                BY <4>1, Finishes
        <3> QED
            BY <1>3, <1>5, <2>1, <3>1 DEF Follows, Working
    <2>2. CASE i \notin D
        <3>1. job'[i] = js[i]
            BY <1>6, <2>2
        <3> QED
            BY <1>3, <2>2, <3>1 DEF Follows
    <2> QED
        BY <2>1, <2>2
<1>8. ASSUME NEW i \in Jobs, job'[i].pc \in Working \cup {"failed"}, job'[i].form,
             job[i].hook \in Forms, box[job[i].hook] = Draft
      PROVE  box'[job[i].hook] = Draft
    <2>1. job'[i] # Unused
        BY <1>0, <1>8
    <2>2. job[i] # Unused /\ job[i].form /\ (job[i].hook = New \/ job[i].hook[2] \in K)
        BY <1>7, <1>8, <2>1
    <2>3. job[i].hook \notin over
        <3> SUFFICES ASSUME NEW k \in D, js[k].here, js[k].hook = job[i].hook PROVE FALSE
            BY DEF over
        <3>1. k \in Jobs /\ job[k].pc \in Working
            BY <1>2 DEF Working
        <3>2. job[k].here /\ job[k].hook = job[i].hook
            BY <1>3, <1>5, <3>1 DEF Follows
        <3>3. k = i
            BY <1>0, <2>2, <3>1, <3>2 DEF SoleSubmit
        <3>4. job'[i].pc = "done"
            BY <1>7, <3>3
        <3> QED
            BY <1>8, <3>4 DEF Working
    <2>4. KeepForms(box, K)[job[i].hook] = Draft
        BY <1>4, <1>8, <2>2
    <2> QED
        BY <1>1, <1>8, <2>3, <2>4
<1>9. TextHeld' /\ SoleSubmit'
    BY <1>0, <1>7, <1>8, StillHeld
<1>10. job' \in [Jobs -> {Unused} \cup Mutations]
    BY <1>1, <1>7
<1>11. box' \in [Forms -> {Closed, "", Draft}]
    BY <1>1, <1>4
<1> QED
    BY <1>9, <1>10, <1>11 DEF Held, FormsTyped

LEMMA HeldNext == Held /\ [Next]_vars => Held'
<1> SUFFICES ASSUME Held, [Next]_vars PROVE Held'
    OBVIOUS
<1>1. CASE UNCHANGED <<box, job>>
    BY <1>1 DEF Held, FormsTyped, TextHeld, SoleSubmit
<1>2. CASE TheirComment \/ TheirDeletion \/ TheirRemoval \/ Read \/ Refocus \/ UNCHANGED vars
    <2>1. UNCHANGED <<box, job>>
        BY <1>2 DEF TheirComment, TheirDeletion, TheirRemoval, Read, Refocus, vars
    <2> QED
        BY <1>1, <2>1
<1>3. ASSUME NEW f \in Forms, Submit(f) PROVE Held'
    BY <1>3, HeldSend, HookCases DEF Submit
<1>4. ASSUME NEW c \in Ids, Delete(c) PROVE Held'
    BY <1>4, HeldSend, HookCases DEF Delete
<1>5. CASE Land \/ FetchFails
    BY <1>5, HeldRender DEF Land, FetchFails
<1> QED
    BY <1>2, <1>3, <1>4, <1>5, HeldOpen, HeldServer, HeldAnswer DEF Next

LEMMA HeldAlways == Spec => []Held
BY HeldInit, HeldNext, PTL DEF Spec

\* A form whose submit was given up still holds its text, whatever other forms
\* and other accounts do to the thread meanwhile.
THEOREM DraftsSurvive == Spec => []FailedDraftKept
<1>1. Held => FailedDraftKept
    BY DEF Held, TextHeld, FailedDraftKept
<1> QED
    BY <1>1, HeldAlways, PTL

-----------------------------------------------------------------------------
(* The tree shows every comment of the list. *)

Less == { e \in Nat \X Nat : e[1] < e[2] }

LEMMA LessIsWellFounded == IsWellFoundedOn(Less, Nat)
BY NatLessThanWellFounded DEF OpToRel, Less

LEMMA LeastNumber ==
    ASSUME NEW S, S \subseteq Nat, S # {}
    PROVE  \E m \in S : \A n \in S : m <= n
<1>1. PICK m \in S : \A n \in S : <<n, m>> \notin Less
    BY LessIsWellFounded, WFMin
<1>2. \A n \in S : ~(n < m)
    BY <1>1 DEF Less
<1> QED
    BY <1>1, <1>2

LEMMA LineHolds ==
    ASSUME NEW L, NEW c \in DOMAIN L
    PROVE  c \in Line(L, c) /\ Line(L, c) \subseteq DOMAIN L /\ HoldsParents(Line(L, c), L)
BY DEF Line, HoldsParents

\* The oldest comment above c has no parent in the list.
LEMMA ReachesRoot ==
    ASSUME NEW L, IsThread(L), NEW c \in DOMAIN L
    PROVE  Line(L, c) \cap Roots(L) # {}
<1>1. DOMAIN L \subseteq Nat
    BY DEF IsThread, Ids
<1>2. PICK m \in Line(L, c) : \A n \in Line(L, c) : m <= n
    BY <1>1, LineHolds, LeastNumber
<1>3. m \in DOMAIN L /\ m \in Nat
    BY <1>1, LineHolds
<1>4. L[m].parent < m /\ L[m].parent \in Nat
    <2>1. L[m] \in Comments
        BY <1>3 DEF IsThread
    <2> QED
        BY <1>3, <2>1 DEF IsThread, Comments, Ids, None
<1>5. L[m].parent \notin DOMAIN L
    <2> SUFFICES ASSUME L[m].parent \in DOMAIN L PROVE FALSE
        OBVIOUS
    <2>1. L[m].parent \in Line(L, c)
        BY LineHolds DEF HoldsParents
    <2> QED
        BY <1>2, <1>3, <1>4, <2>1
<1> QED
    BY <1>3, <1>5 DEF Roots

LEMMA ShownIsList ==
    ASSUME NEW e, ~e.error, IsThread(e.list)
    PROVE  Shown(e) = DOMAIN e.list
BY ReachesRoot DEF Shown, OnScreen

-----------------------------------------------------------------------------
(* What is done to the stored thread. *)

LEMMA BoundsNat == MaxComments \in Nat /\ MaxJobs \in Nat /\ MaxOthers \in Nat
BY BoundsAssumption

LEMMA InsertThread ==
    ASSUME ThreadTyped, NEW p \in DOMAIN db \cup {None}, NEW by \in {Theirs} \cup Jobs,
           Insert(Comment(p, by))
    PROVE  /\ born' \in 0 .. MaxComments /\ born' = born + 1
           /\ IsThread(db') /\ DOMAIN db' \subseteq 1 .. born'
           /\ DOMAIN db' = DOMAIN db \cup {born + 1}
           /\ \A c \in DOMAIN db : db'[c] = db[c]
           /\ db'[born + 1] = Comment(p, by)
<1>1. /\ born \in Nat /\ born < MaxComments /\ MaxComments \in Nat /\ born' = born + 1
      /\ DOMAIN db \subseteq 1 .. born /\ IsThread(db)
    BY BoundsNat DEF Insert, ThreadTyped
<1>2. db' = [d \in DOMAIN db \cup {born + 1} |-> IF d = born + 1 THEN Comment(p, by) ELSE db[d]]
    BY DEF Insert
<1>3. born + 1 \notin DOMAIN db /\ p \in {None} \cup Ids /\ p < born + 1
    BY <1>1 DEF Ids, None
<1>4. Comment(p, by) \in Comments /\ Comment(p, by).parent = p
    BY <1>3 DEF Comment, Comments
<1>5. /\ DOMAIN db' = DOMAIN db \cup {born + 1}
      /\ \A c \in DOMAIN db : db'[c] = db[c]
      /\ db'[born + 1] = Comment(p, by)
    BY <1>2, <1>3
<1>6. DOMAIN db' \subseteq Ids /\ DOMAIN db' \subseteq 1 .. born'
    BY <1>1, <1>5 DEF Ids
<1>7. \A c \in DOMAIN db' : db'[c] \in Comments /\ db'[c].parent < c
    BY <1>1, <1>3, <1>4, <1>5 DEF IsThread
<1>8. IsThread(db')
    BY <1>2, <1>6, <1>7 DEF IsThread
<1> QED
    BY <1>1, <1>5, <1>6, <1>8

LEMMA WithoutThread ==
    ASSUME ThreadTyped, NEW S, db' = Without(S), born' = born
    PROVE  /\ IsThread(db') /\ DOMAIN db' \subseteq 1 .. born' /\ born' \in 0 .. MaxComments
           /\ DOMAIN db' = DOMAIN db \ S
           /\ \A c \in DOMAIN db' : db'[c] = db[c]
<1>1. db' = [d \in DOMAIN db \ S |-> db[d]]
    BY DEF Without
<1>2. DOMAIN db' = DOMAIN db \ S /\ \A c \in DOMAIN db' : db'[c] = db[c]
    BY <1>1
<1>3. IsThread(db) /\ DOMAIN db \subseteq 1 .. born /\ born \in 0 .. MaxComments
    BY DEF ThreadTyped
<1>4. \A c \in DOMAIN db' : db'[c] \in Comments /\ db'[c].parent < c
    BY <1>2, <1>3 DEF IsThread
<1>5. IsThread(db')
    BY <1>1, <1>2, <1>3, <1>4 DEF IsThread
<1> QED
    BY <1>2, <1>3, <1>5

LEMMA EditThread ==
    ASSUME ThreadTyped, NEW c \in DOMAIN db, NEW j \in Jobs, db' = [db EXCEPT ![c].by = j]
    PROVE  IsThread(db') /\ DOMAIN db' = DOMAIN db
<1>1. IsThread(db) /\ db[c] \in Comments
    BY DEF ThreadTyped, IsThread
<1>2. db' = [db EXCEPT ![c] = [db[c] EXCEPT !.by = j]]
    BY <1>1 DEF IsThread
<1>3. [db[c] EXCEPT !.by = j] \in Comments /\ [db[c] EXCEPT !.by = j].parent = db[c].parent
    BY <1>1 DEF Comments
<1>4. DOMAIN db' = DOMAIN db /\ \A d \in DOMAIN db : d # c => db'[d] = db[d]
    BY <1>2
<1>5. db'[c] \in Comments /\ db'[c].parent = db[c].parent
    BY <1>2, <1>3
<1>6. \A d \in DOMAIN db' : db'[d] \in Comments /\ db'[d].parent < d
    BY <1>1, <1>4, <1>5 DEF IsThread
<1>7. db' \in [DOMAIN db' -> Comments]
    BY <1>1, <1>2, <1>6 DEF IsThread
<1> QED
    BY <1>1, <1>4, <1>6, <1>7 DEF IsThread

-----------------------------------------------------------------------------
(* What is done to the cached list. *)

LEMMA FetchCases ==
    ASSUME NEW f, FetchTyped(f)
    PROVE  /\ f.pc \in {"idle", "asked", "read"}
           /\ f = Idle <=> f.pc = "idle"
           /\ f.pc = "asked" <=> f = Asked
           /\ f.pc = "read" => /\ f = [pc |-> "read", list |-> f.list, old |-> f.old]
                               /\ IsThread(f.list) /\ f.old \in BOOLEAN
<1>1. Idle.pc = "idle" /\ Asked.pc = "asked"
    BY DEF Idle, Asked
<1>2. CASE f = Idle
    BY <1>1, <1>2
<1>3. CASE f = Asked
    BY <1>1, <1>3
<1>4. CASE /\ f = [pc |-> "read", list |-> f.list, old |-> f.old]
           /\ IsThread(f.list) /\ f.old \in BOOLEAN
    <2>1. f.pc = "read"
        BY <1>4
    <2> QED
        BY <1>1, <1>4, <2>1
<1> QED
    BY <1>2, <1>3, <1>4 DEF FetchTyped

LEMMA FetchOldened ==
    ASSUME NEW f, FetchTyped(f), f.pc = "read", NEW o \in BOOLEAN
    PROVE  LET g == [f EXCEPT !.old = o] IN FetchTyped(g) /\ g.old = o /\ g.pc = "read"
<1> DEFINE g == [f EXCEPT !.old = o]
<1>1. f = [pc |-> "read", list |-> f.list, old |-> f.old] /\ IsThread(f.list)
    BY FetchCases
<1>2. g = [pc |-> "read", list |-> f.list, old |-> o]
    BY <1>1
<1> HIDE DEF g
<1>3. g.pc = "read" /\ g.list = f.list /\ g.old = o
    BY <1>2
<1>4. g = [pc |-> "read", list |-> g.list, old |-> g.old]
    BY <1>2, <1>3
<1>5. FetchTyped(g)
    BY <1>1, <1>3, <1>4 DEF FetchTyped
<1> QED
    BY <1>3, <1>5 DEF g

LEMMA Outdates ==
    ASSUME NEW f, FetchTyped(f)
    PROVE  /\ FetchTyped(Outdated(f))
           /\ f # Idle => Outdated(f) # Idle
           /\ Outdated(f).pc = "read" => Outdated(f).old
<1>1. CASE f.pc = "read"
    <2>1. PICK o \in BOOLEAN : o = TRUE
        OBVIOUS
    <2>2. Outdated(f) = [f EXCEPT !.old = o]
        BY <1>1, <2>1 DEF Outdated
    <2> DEFINE g == [f EXCEPT !.old = o]
    <2>3. FetchTyped(g) /\ g.old = o /\ g.pc = "read"
        BY <1>1, FetchOldened
    <2>4. g # Idle
        BY <2>3 DEF Idle
    <2> HIDE DEF g
    <2>5. Outdated(f) = g
        BY <2>2 DEF g
    <2> QED
        BY <2>1, <2>3, <2>4, <2>5
<1>2. CASE f.pc # "read"
    BY <1>2 DEF Outdated
<1> QED
    BY <1>1, <1>2

\* Another fetch in the same entry.
LEMMA Refetched ==
    ASSUME NEW e, EntryTyped(e), NEW f, FetchTyped(f)
    PROVE  LET d == [e EXCEPT !.fetch = f] IN
           /\ EntryTyped(d) /\ d.fetch = f
           /\ d.list = e.list /\ d.loaded = e.loaded /\ d.stale = e.stale /\ d.behind = e.behind
<1> DEFINE d == [e EXCEPT !.fetch = f]
<1>1. Fields(e)
    BY DEF EntryTyped
<1>2. d = [list |-> e.list, loaded |-> e.loaded, stale |-> e.stale, error |-> e.error,
           behind |-> e.behind, fetch |-> f]
    BY <1>1 DEF Fields
<1> HIDE DEF d
<1>3. /\ d.list = e.list /\ d.loaded = e.loaded /\ d.stale = e.stale /\ d.error = e.error
      /\ d.behind = e.behind /\ d.fetch = f
    BY <1>2
<1>4. Fields(d)
    BY <1>2, <1>3 DEF Fields
<1>5. EntryTyped(d)
    BY <1>3, <1>4 DEF EntryTyped
<1> QED
    BY <1>3, <1>5 DEF d

\* An invalidation outdates what was read before: in the list, or in the first
\* fetch of all.
LEMMA InvalidateEntry ==
    ASSUME EntryTyped(cache)
    PROVE  LET e == Invalidate(cache) IN
           /\ EntryTyped(e)
           /\ ~e.loaded \/ e.stale
           /\ e.fetch.pc = "read" => e.fetch.old
<1> DEFINE e == Invalidate(cache)
           f == cache.fetch
<1>1. Fields(cache) /\ FetchTyped(f) /\ cache.loaded \in BOOLEAN
    BY DEF EntryTyped
<1>2. CASE ~cache.loaded /\ f # Idle
    <2> DEFINE g == Outdated(f)
    <2>1. e = [cache EXCEPT !.fetch = g]
        BY <1>2 DEF Invalidate
    <2>2. FetchTyped(g) /\ (g.pc = "read" => g.old)
        BY <1>1, Outdates
    <2> HIDE DEF e, f, g
    <2>3. EntryTyped(e) /\ e.fetch = g /\ e.loaded = cache.loaded
        BY <2>1, <2>2, Refetched
    <2> QED
        BY <1>2, <2>2, <2>3 DEF e
<1>3. CASE cache.loaded \/ f = Idle
    <2>1. e = [cache EXCEPT !.stale = TRUE, !.fetch = Asked]
        BY <1>1, <1>3 DEF Invalidate
    <2>2. e = [list |-> cache.list, loaded |-> cache.loaded, stale |-> TRUE, error |-> cache.error,
               behind |-> cache.behind, fetch |-> Asked]
        BY <1>1, <2>1 DEF Fields
    <2> HIDE DEF e
    <2>3. /\ e.list = cache.list /\ e.loaded = cache.loaded /\ e.stale = TRUE
          /\ e.error = cache.error /\ e.behind = cache.behind /\ e.fetch = Asked
        BY <2>2
    <2>4. Fields(e)
        BY <2>2, <2>3 DEF Fields
    <2>5. EntryTyped(e)
        BY <2>3, <2>4 DEF EntryTyped, FetchTyped
    <2> QED
        BY <2>3, <2>5 DEF e, Asked
<1> QED
    BY <1>1, <1>2, <1>3

-----------------------------------------------------------------------------
(* Every step keeps the list in agreement. *)

\* A mutation that was carried out, or is over, was so before.
Lasting ==
    \A i \in Jobs :
        job'[i].pc \in {"ok", "settling", "done"}
            => job[i].pc \in {"ok", "settling", "done"} /\ job'[i].hook = job[i].hook

\* So was one that settles, and one whose effect was not answered still is not.
Calm ==
    /\ Lasting
    /\ \A i \in Jobs :
          /\ job'[i].pc \in {"settling", "done"} => job[i].pc \in {"settling", "done"}
          /\ job[i].pc \in {"sent", "ok", "refused"} /\ job[i].hit
                => job'[i].pc \in {"sent", "ok", "refused"} /\ job'[i].hit

LEMMA LastingDeleted ==
    ASSUME ThreadTyped, DeletedStays, Lasting, born' \in Nat, born <= born',
           \A c \in DOMAIN db' : c \in DOMAIN db \/ c > born
    PROVE  DeletedStays'
<1> SUFFICES ASSUME NEW j \in Jobs, job'[j].pc \in {"ok", "settling", "done"},
                    job'[j].hook[1] = "delete"
             PROVE  job'[j].hook[2] \in 1 .. born' /\ job'[j].hook[2] \notin DOMAIN db'
    BY DEF DeletedStays
<1>1. job[j].pc \in {"ok", "settling", "done"} /\ job'[j].hook = job[j].hook
    BY DEF Lasting
<1>2. job[j].hook[2] \in 1 .. born /\ job[j].hook[2] \notin DOMAIN db
    BY <1>1 DEF DeletedStays
<1>3. born \in Nat
    BY DEF ThreadTyped
<1> QED
    BY <1>1, <1>2, <1>3

LEMMA CalmListed ==
    ASSUME ListAgrees, Calm,
           \A c \in DOMAIN db' : Mine(db'[c]) => c \in DOMAIN db /\ db'[c] = db[c],
           ~Unanswered /\ cache'.loaded /\ ~cache'.stale /\ ~cache'.behind
               => Agrees(cache'.list, db, job),
           ~Unanswered /\ cache'.fetch.pc = "read" /\ ~cache'.fetch.old
               => Agrees(cache'.fetch.list, db, job)
    PROVE  ListAgrees'
<1>1. ASSUME NEW L, Agrees(L, db, job) PROVE Agrees(L, db', job')
    BY <1>1 DEF Agrees, Calm, Lasting
<1>2. Unanswered => Unanswered'
    BY DEF Unanswered, Calm
<1>3. /\ ~Unanswered' /\ cache'.loaded /\ ~cache'.stale /\ ~cache'.behind
            => Agrees(cache'.list, db', job')
      /\ ~Unanswered' /\ cache'.fetch.pc = "read" /\ ~cache'.fetch.old
            => Agrees(cache'.fetch.list, db', job')
    BY <1>1, <1>2
<1> QED
    BY <1>3 DEF ListAgrees

\* As a change of mutations, or of the others' comments, leaves the cache.
LEMMA CalmUncached ==
    ASSUME ListAgrees, Calm, cache' = cache,
           \A c \in DOMAIN db' : Mine(db'[c]) => c \in DOMAIN db /\ db'[c] = db[c]
    PROVE  ListAgrees'
BY CalmListed DEF ListAgrees

Listed == ThreadTyped /\ DeletedStays /\ ListAgrees

LEMMA ListedInit == Init => Listed
<1> SUFFICES ASSUME Init PROVE Listed
    OBVIOUS
<1>1. /\ \A j \in Jobs : job[j].pc = "unused"
      /\ cache = [list |-> <<>>, loaded |-> FALSE, stale |-> FALSE, error |-> FALSE,
                  behind |-> FALSE, fetch |-> Asked]
    BY DEF Init, Unused
<1>2. EntryTyped(cache)
    BY <1>1 DEF EntryTyped, Fields, FetchTyped
<1>3. born \in 0 .. MaxComments /\ IsThread(db) /\ DOMAIN db \subseteq 1 .. born
    <2>1. \A c \in DOMAIN db : c = 1 /\ born = 1 /\ db[c] = Comment(None, Theirs)
        <3>1. db = [c \in 1 .. born |-> Comment(None, Theirs)] /\ born \in {0, 1}
            BY DEF Init
        <3>2. DOMAIN db = 1 .. born /\ \A c \in DOMAIN db : db[c] = Comment(None, Theirs)
            BY <3>1
        <3>3. \A c \in 1 .. born : c = 1 /\ born = 1
            BY <3>1
        <3> QED
            BY <3>2, <3>3
    <2>2. Comment(None, Theirs) \in Comments /\ Comment(None, Theirs).parent = 0
        BY DEF Comment, Comments, None
    <2>3. born \in 0 .. MaxComments
        BY DEF Init
    <2>4. DOMAIN db \subseteq Ids /\ DOMAIN db \subseteq 1 .. born
        BY <2>1, <2>3, BoundsNat DEF Ids
    <2>5. \A c \in DOMAIN db : db[c] \in Comments /\ db[c].parent < c
        BY <2>1, <2>2
    <2>6. db = [c \in DOMAIN db |-> db[c]]
        BY DEF Init
    <2> QED
        BY <2>3, <2>4, <2>5, <2>6 DEF IsThread
<1> QED
    BY <1>1, <1>2, <1>3 DEF Listed, ThreadTyped, DeletedStays, ListAgrees, Asked

\* Nothing but mutations that are and stay under way or over.
LEMMA ListedQuiet ==
    ASSUME Listed, Calm, UNCHANGED <<db, born, cache>>
    PROVE  Listed'
<1>1. ThreadTyped' /\ born \in Nat
    BY DEF Listed, ThreadTyped, EntryTyped, Fields
<1>2. DeletedStays'
    BY <1>1, LastingDeleted DEF Calm, Listed
<1>3. ListAgrees'
    BY CalmUncached DEF Listed
<1> QED
    BY <1>1, <1>2, <1>3 DEF Listed

LEMMA FollowsCalm ==
    ASSUME FormsTyped,
           \A i \in Jobs : /\ job[i] = Unused => job'[i] = Unused
                           /\ job[i] # Unused => Follows(job'[i], job[i])
    PROVE  Calm
<1>1. Unused.pc = "unused"
    BY DEF Unused
<1> QED
    BY <1>1 DEF Calm, Lasting, Follows

LEMMA ListedOpen ==
    ASSUME Listed, FormsTyped, NEW f \in Forms, Open(f) \/ Cancel(f) \/ Type(f)
    PROVE  Listed'
<1>1. UNCHANGED <<db, born, cache>> /\ (job' = job \/ job' = Leaves(job, f))
    BY DEF Open, Cancel, Type
<1>2. CASE job' = job
    <2>1. Calm
        BY <1>2 DEF Calm, Lasting
    <2> QED
        BY <1>1, <2>1, ListedQuiet
<1>3. CASE job' = Leaves(job, f)
    <2>1. Calm
        BY <1>3, LeavesJobs, FollowsCalm DEF FormsTyped
    <2> QED
        BY <1>1, <2>1, ListedQuiet
<1> QED
    BY <1>1, <1>2, <1>3

LEMMA ListedSend ==
    ASSUME Listed, FormsTyped, NEW j \in Jobs, NEW h, Send(j, h)
    PROVE  Listed'
<1> DEFINE t == [pc |-> "sent", hook |-> h, tries |-> 1, here |-> TRUE, form |-> TRUE, hit |-> FALSE]
           js == Leaves(job, h)
<1>1. /\ job' = [js EXCEPT ![j] = t] /\ t.pc = "sent" /\ job[j] = Unused
      /\ UNCHANGED <<db, born, cache>>
    BY DEF Send
<1>2. /\ js \in [Jobs -> {Unused} \cup Mutations]
      /\ \A i \in Jobs : /\ js[i] = Unused <=> job[i] = Unused
                         /\ job[i] # Unused => Follows(js[i], job[i])
    BY LeavesJobs DEF FormsTyped
<1> HIDE DEF t, js
<1>3. job'[j].pc = "sent" /\ \A i \in Jobs : i # j => job'[i] = js[i]
    BY <1>1, <1>2
<1>4. Unused.pc = "unused"
    BY DEF Unused
<1>5. ASSUME NEW i \in Jobs
      PROVE  /\ job'[i].pc \in {"settling", "done"}
                   => job[i].pc \in {"settling", "done"} /\ job'[i].hook = job[i].hook
             /\ job'[i].pc = "ok" => job[i].pc = "ok" /\ job'[i].hook = job[i].hook
             /\ job[i].pc \in {"sent", "ok", "refused"} /\ job[i].hit
                   => job'[i].pc \in {"sent", "ok", "refused"} /\ job'[i].hit
    <2>1. CASE i = j
        BY <1>1, <1>3, <1>4, <2>1
    <2>2. CASE i # j /\ job[i] = Unused
        BY <1>2, <1>3, <1>4, <2>2
    <2>3. CASE i # j /\ job[i] # Unused
        BY <1>2, <1>3, <2>3 DEF Follows
    <2> QED
        BY <2>1, <2>2, <2>3
<1>6. Calm
    BY <1>5 DEF Calm, Lasting
<1> QED
    BY <1>1, <1>6, ListedQuiet

\* One mutation gets another state.
LEMMA OneJob ==
    ASSUME FormsTyped, NEW j \in Jobs, job[j] \in Mutations, NEW t \in Mutations,
           job' = [job EXCEPT ![j] = t]
    PROVE  job'[j] = t /\ \A i \in Jobs : i # j => job'[i] = job[i]
BY DEF FormsTyped

LEMMA ListedApply ==
    ASSUME Listed, FormsTyped, NEW j \in Jobs, Apply(j)
    PROVE  Listed'
<1>0. /\ job \in [Jobs -> {Unused} \cup Mutations] /\ job[j] \in Mutations
      /\ ThreadTyped /\ DeletedStays /\ ListAgrees
    BY JobCases DEF Apply, FormsTyped, Listed, Working
<1>1. cache' = cache /\ job[j].pc = "sent" /\ job[j].hook \in Hooks
    BY <1>0 DEF Apply, Mutations
<1>2. CASE /\ ~Accepts(job[j].hook)
           /\ job' = [job EXCEPT ![j].pc = "refused"]
           /\ UNCHANGED <<db, born>>
    <2>1. job' = [job EXCEPT ![j] = [job[j] EXCEPT !.pc = "refused"]]
        BY <1>0, <1>2
    <2>2. job'[j] = [job[j] EXCEPT !.pc = "refused"] /\ \A i \in Jobs : i # j => job'[i] = job[i]
        BY <1>0, <2>1
    <2>3. job'[j].pc = "refused" /\ job'[j].hit = job[j].hit
        BY <1>0, <2>2 DEF Mutations
    <2>4. Calm
        BY <2>2, <2>3 DEF Calm, Lasting
    <2> QED
        BY <1>1, <1>2, <2>4, ListedQuiet
<1>3. CASE /\ Accepts(job[j].hook)
           /\ Effect(job[j].hook, j)
           /\ job' = [job EXCEPT ![j].pc = "ok", ![j].hit = TRUE]
    <2> DEFINE h == job[j].hook
    <2>1. job' = [job EXCEPT ![j] = [job[j] EXCEPT !.pc = "ok", !.hit = TRUE]]
        BY <1>0, <1>3
    <2>2. /\ job'[j] = [job[j] EXCEPT !.pc = "ok", !.hit = TRUE]
          /\ \A i \in Jobs : i # j => job'[i] = job[i]
        BY <1>0, <2>1
    <2>3. job'[j].pc = "ok" /\ job'[j].hit /\ job'[j].hook = h
        BY <1>0, <2>2 DEF Mutations
    <2>4. Unanswered'
        BY <2>3 DEF Unanswered
    <2>5. ListAgrees'
        BY <2>4 DEF ListAgrees
    <2>6. h[2] \in DOMAIN db \cup {None} /\ (h[1] \in {"edit", "delete"} => h[2] \in DOMAIN db)
        BY <1>1, <1>3, HookCases DEF Accepts
    <2>7. h[1] \in {"new", "reply", "edit", "delete"}
        BY <1>1, HookCases
    <2>8. /\ born' \in 0 .. MaxComments /\ IsThread(db') /\ DOMAIN db' \subseteq 1 .. born'
          /\ born <= born' /\ \A c \in DOMAIN db' : c \in DOMAIN db \/ c > born
          /\ h[1] = "delete" => h[2] \notin DOMAIN db'
        <3> HIDE DEF h
        <3>0. born \in Nat /\ DOMAIN db \subseteq 1 .. born /\ born \in 0 .. MaxComments
            BY <1>0 DEF ThreadTyped
        <3>1. CASE h[1] \in {"new", "reply"}
            <4>1. Insert(Comment(h[2], j))
                BY <1>3, <3>1 DEF Effect, h
            <4> QED
                BY <1>0, <2>6, <3>0, <3>1, <4>1, InsertThread
        <3>2. CASE h[1] = "edit"
            <4>1. db' = [db EXCEPT ![h[2]].by = j] /\ born' = born
                BY <1>3, <3>2 DEF Effect, h
            <4>2. IsThread(db') /\ DOMAIN db' = DOMAIN db
                BY <1>0, <2>6, <3>2, <4>1, EditThread
            <4> QED
                BY <3>0, <3>2, <4>1, <4>2
        <3>3. CASE h[1] = "delete"
            <4>1. db' = Without(Subtree(h[2])) /\ born' = born
                BY <1>3, <3>3 DEF Effect, h
            <4>2. h[2] \in Subtree(h[2])
                BY <2>6, <3>3, LineHolds DEF Subtree
            <4> DEFINE S == Subtree(h[2])
            <4> HIDE DEF S
            <4>3. /\ IsThread(db') /\ DOMAIN db' \subseteq 1 .. born' /\ born' \in 0 .. MaxComments
                  /\ DOMAIN db' = DOMAIN db \ S
                BY <1>0, <4>1, WithoutThread DEF S
            <4>4. h[2] \notin DOMAIN db'
                BY <4>2, <4>3 DEF S
            <4> QED
                BY <3>0, <4>1, <4>3, <4>4
        <3> QED
            BY <2>7, <3>1, <3>2, <3>3
    <2>9. ThreadTyped'
        BY <1>0, <1>1, <2>8 DEF ThreadTyped, EntryTyped, Fields
    <2>10. ASSUME NEW i \in Jobs, job'[i].pc \in {"ok", "settling", "done"},
                  job'[i].hook[1] = "delete"
           PROVE  job'[i].hook[2] \in 1 .. born' /\ job'[i].hook[2] \notin DOMAIN db'
        <3>0. born \in Nat /\ born' \in Nat /\ DOMAIN db \subseteq 1 .. born
            BY <1>0, <2>8 DEF ThreadTyped
        <3>1. CASE i = j
            <4>1. h[2] \in DOMAIN db /\ job'[i].hook = h /\ h[2] \notin DOMAIN db'
                BY <2>3, <2>6, <2>8, <2>10, <3>1
            <4> HIDE DEF h
            <4> QED
                BY <2>8, <3>0, <4>1
        <3>2. CASE i # j
            <4>1. job[i].hook[2] \in 1 .. born /\ job[i].hook[2] \notin DOMAIN db
                BY <1>0, <2>2, <2>10, <3>2 DEF DeletedStays
            <4>2. job'[i] = job[i]
                BY <2>2, <3>2
            <4> QED
                BY <2>8, <3>0, <4>1, <4>2
        <3> QED
            BY <3>1, <3>2
    <2> QED
        BY <2>5, <2>9, <2>10 DEF Listed, DeletedStays
<1> QED
    BY <1>2, <1>3 DEF Apply

\* A mutation given up whose effect was not answered leaves a list that is
\* behind.
LEMMA ListedFail ==
    ASSUME Listed, FormsTyped, NEW j \in Jobs, Fail(j)
    PROVE  Listed'
<1>0. /\ job \in [Jobs -> {Unused} \cup Mutations] /\ job[j] \in Mutations
      /\ ThreadTyped /\ DeletedStays /\ ListAgrees
    BY JobCases DEF Fail, FormsTyped, Listed, Working
<1>1. UNCHANGED <<db, born>> /\ job[j].pc \in {"sent", "ok", "refused"} /\ job[j].hit \in BOOLEAN
    BY <1>0 DEF Fail, Mutations
<1>2. CASE job' = [job EXCEPT ![j].pc = "sent", ![j].tries = 2] /\ cache' = cache
    <2>1. job' = [job EXCEPT ![j] = [job[j] EXCEPT !.pc = "sent", !.tries = 2]]
        BY <1>0, <1>2
    <2>2. /\ job'[j] = [job[j] EXCEPT !.pc = "sent", !.tries = 2]
          /\ \A i \in Jobs : i # j => job'[i] = job[i]
        BY <1>0, <2>1
    <2>3. job'[j].pc = "sent" /\ job'[j].hit = job[j].hit
        BY <1>0, <2>2 DEF Mutations
    <2>4. Calm
        BY <2>2, <2>3 DEF Calm, Lasting
    <2> QED
        BY <1>1, <1>2, <2>4, ListedQuiet
<1>3. CASE /\ job' = [job EXCEPT ![j].pc = "failed"]
           /\ \/ ~job[j].hit /\ cache' = cache
              \/ cache' = [cache EXCEPT !.behind = TRUE, !.fetch = Outdated(cache.fetch)]
    <2>1. job' = [job EXCEPT ![j] = [job[j] EXCEPT !.pc = "failed"]]
        BY <1>0, <1>3
    <2>2. /\ job'[j] = [job[j] EXCEPT !.pc = "failed"]
          /\ \A i \in Jobs : i # j => job'[i] = job[i]
        BY <1>0, <2>1
    <2>3. job'[j].pc = "failed" /\ job'[j].hit = job[j].hit
        BY <1>0, <2>2 DEF Mutations
    <2>4. CASE ~job[j].hit /\ cache' = cache
        <3>1. Calm
            BY <2>2, <2>3, <2>4 DEF Calm, Lasting
        <3> QED
            BY <1>1, <2>4, <3>1, ListedQuiet
    <2>5. CASE cache' = [cache EXCEPT !.behind = TRUE, !.fetch = Outdated(cache.fetch)]
        <3> DEFINE g == Outdated(cache.fetch)
        <3>1. EntryTyped(cache) /\ Fields(cache) /\ FetchTyped(cache.fetch)
            BY <1>0 DEF ThreadTyped, EntryTyped
        <3>2. FetchTyped(g) /\ (g.pc = "read" => g.old)
            BY <3>1, Outdates
        <3> HIDE DEF g
        <3>3. PICK e : e = cache'
            OBVIOUS
        <3>4. e = [list |-> cache.list, loaded |-> cache.loaded, stale |-> cache.stale,
                   error |-> cache.error, behind |-> TRUE, fetch |-> g]
            BY <2>5, <3>1, <3>3 DEF Fields, g
        <3>5. /\ e.list = cache.list /\ e.loaded = cache.loaded /\ e.stale = cache.stale
              /\ e.error = cache.error /\ e.behind = TRUE /\ e.fetch = g
            BY <3>4
        <3>6. Fields(e)
            BY <3>4, <3>5 DEF Fields
        <3>7. EntryTyped(e)
            BY <3>1, <3>2, <3>5, <3>6 DEF EntryTyped
        <3>8. EntryTyped(cache') /\ cache'.behind = TRUE /\ cache'.fetch = g
            BY <3>3, <3>5, <3>7
        <3>9. ThreadTyped'
            BY <1>0, <1>1, <3>8 DEF ThreadTyped, EntryTyped, Fields
        <3>10. ListAgrees'
            BY <3>2, <3>8 DEF ListAgrees
        <3>11. Lasting
            BY <2>2, <2>3 DEF Lasting
        <3>12. DeletedStays'
            BY <1>0, <1>1, <3>11, LastingDeleted DEF ThreadTyped
        <3> QED
            BY <3>9, <3>10, <3>12 DEF Listed
    <2> QED
        BY <1>3, <2>4, <2>5
<1>4. \/ job' = [job EXCEPT ![j].pc = "sent", ![j].tries = 2] /\ cache' = cache
      \/ /\ job' = [job EXCEPT ![j].pc = "failed"]
         /\ \/ ~job[j].hit /\ cache' = cache
            \/ cache' = [cache EXCEPT !.behind = TRUE, !.fetch = Outdated(cache.fetch)]
    <2>1. CASE job[j].tries = 1
        BY <2>1 DEF Fail
    <2>2. CASE job[j].tries # 1
        BY <2>2 DEF Fail
    <2> QED
        BY <2>1, <2>2
<1> QED
    BY <1>2, <1>3, <1>4

\* The mutations of D are over, the others are as they were, but for what is
\* mounted of them.
Ends(D) ==
    \A i \in Jobs :
        /\ job[i] = Unused => job'[i] = Unused
        /\ i \in D => job[i].pc = "settling" /\ job'[i].pc = "done" /\ job'[i].hook = job[i].hook
        /\ i \notin D /\ job[i] # Unused => Follows(job'[i], job[i])

LEMMA EndsCalm ==
    ASSUME NEW D, Ends(D)
    PROVE  Calm
<1>1. Unused.pc = "unused"
    BY DEF Unused
<1>2. ASSUME NEW i \in Jobs
      PROVE  /\ job'[i].pc \in {"ok", "settling", "done"}
                    => job[i].pc \in {"ok", "settling", "done"} /\ job'[i].hook = job[i].hook
             /\ job'[i].pc \in {"settling", "done"} => job[i].pc \in {"settling", "done"}
             /\ job[i].pc \in {"sent", "ok", "refused"} /\ job[i].hit
                   => job'[i].pc \in {"sent", "ok", "refused"} /\ job'[i].hit
    BY <1>1 DEF Ends, Follows
<1> QED
    BY <1>2 DEF Calm, Lasting

\* An answer makes what was read before it old.
LEMMA ListedAnswer ==
    ASSUME Listed, FormsTyped, NEW j \in Jobs, Answer(j)
    PROVE  Listed'
<1> DEFINE D == IF cache.fetch # Idle /\ cache.loaded THEN Waiting ELSE {}
<1>0. /\ job \in [Jobs -> {Unused} \cup Mutations] /\ job[j] \in Mutations /\ job[j].pc = "ok"
      /\ ThreadTyped /\ DeletedStays /\ ListAgrees
    BY JobCases DEF Answer, FormsTyped, Listed, Working
<1>1. /\ cache' = Invalidate(cache) /\ UNCHANGED <<db, born>>
      /\ job' = [i \in Jobs |-> IF i = j THEN [job[i] EXCEPT !.pc = "settling"]
                                ELSE IF i \in D THEN [job[i] EXCEPT !.pc = "done"] ELSE job[i]]
    BY AnswerJobs DEF Answer, Held
<1>2. \A i \in D : i \in Jobs /\ job[i].pc = "settling"
    BY DEF Waiting
<1> HIDE DEF D
<1>3. EntryTyped(cache') /\ (~cache'.loaded \/ cache'.stale)
      /\ (cache'.fetch.pc = "read" => cache'.fetch.old)
    BY <1>0, <1>1, InvalidateEntry DEF ThreadTyped
<1>4. ThreadTyped' /\ born \in Nat
    BY <1>0, <1>1, <1>3 DEF ThreadTyped, EntryTyped, Fields
<1>5. ListAgrees'
    BY <1>3 DEF ListAgrees
<1>6. ASSUME NEW i \in Jobs, job'[i].pc \in {"ok", "settling", "done"}
      PROVE  job[i].pc \in {"ok", "settling", "done"} /\ job'[i].hook = job[i].hook
    <2>1. CASE i = j
        <3>1. job'[i] = [job[j] EXCEPT !.pc = "settling"]
            BY <1>1, <2>1
        <3>2. job'[i].hook = job[j].hook
            BY <1>0, <3>1, Finishes
        <3> QED
            BY <1>0, <2>1, <3>2
    <2>2. CASE i # j /\ i \in D
        <3>1. job[i] \in Mutations
            BY <1>0, <1>2, <2>2, JobCases DEF Working
        <3>2. job'[i] = [job[i] EXCEPT !.pc = "done"]
            BY <1>1, <2>2
        <3>3. job'[i].hook = job[i].hook
            BY <3>1, <3>2, Finishes
        <3> QED
            BY <1>2, <2>2, <3>3
    <2>3. CASE i # j /\ i \notin D
        BY <1>1, <1>6, <2>3
    <2> QED
        BY <2>1, <2>2, <2>3
<1>7. Lasting
    BY <1>6 DEF Lasting
<1>8. DeletedStays'
    BY <1>0, <1>1, <1>4, <1>7, LastingDeleted
<1> QED
    BY <1>4, <1>5, <1>8 DEF Listed

LEMMA RenderEnds ==
    ASSUME FormsTyped, NEW e, Render(e)
    PROVE  Calm
<1> DEFINE K == Kept(cache, e)
           D == Waiting
           js == KeepJobs(job, K)
<1>0. job \in [Jobs -> {Unused} \cup Mutations]
    BY DEF FormsTyped
<1>1. job' = [j \in Jobs |-> IF j \in D THEN [js[j] EXCEPT !.pc = "done"] ELSE js[j]]
    BY DEF Render, Finish
<1>2. \A i \in D : i \in Jobs /\ job[i].pc = "settling" /\ job[i] # Unused
    BY DEF Waiting, Unused
<1>3. /\ js \in [Jobs -> {Unused} \cup Mutations]
      /\ \A j \in Jobs : /\ js[j] = Unused <=> job[j] = Unused
                         /\ job[j] # Unused => Follows(js[j], job[j])
    BY <1>0, KeepJobsJobs
<1> HIDE DEF K, D, js
<1>4. ASSUME NEW i \in Jobs
      PROVE  /\ job[i] = Unused => job'[i] = Unused
             /\ i \in D => /\ job[i].pc = "settling" /\ job'[i].pc = "done"
                           /\ job'[i].hook = job[i].hook
             /\ i \notin D /\ job[i] # Unused => Follows(job'[i], job[i])
    <2>1. CASE i \in D
        <3>1. js[i] \in Mutations /\ job'[i] = [js[i] EXCEPT !.pc = "done"]
            BY <1>1, <1>2, <1>3, <2>1
        <3>2. job'[i].pc = "done" /\ job'[i].hook = js[i].hook
            BY <3>1, Finishes
        <3> QED
            BY <1>2, <1>3, <2>1, <3>2 DEF Follows
    <2>2. CASE i \notin D
        <3>1. job'[i] = js[i]
            BY <1>1, <2>2
        <3> QED
            BY <1>3, <2>2, <3>1
    <2> QED
        BY <2>1, <2>2
<1>5. Ends(D)
    BY <1>4 DEF Ends
<1> QED
    BY <1>5, EndsCalm

\* A list that was read lands as it was read, and one that could not be read
\* leaves the one before.
LEMMA ListedRender ==
    ASSUME Listed, FormsTyped, Land \/ FetchFails
    PROVE  Listed'
<1>0. ThreadTyped /\ DeletedStays /\ ListAgrees /\ EntryTyped(cache) /\ UNCHANGED <<db, born>>
    BY DEF Listed, ThreadTyped, Land, FetchFails
<1>1. Calm
    BY RenderEnds DEF Land, FetchFails
<1>2. Fields(cache) /\ FetchTyped(cache.fetch)
    BY <1>0 DEF EntryTyped
<1>3. /\ EntryTyped(cache')
      /\ cache'.fetch.pc # "read"
      /\ ~Unanswered /\ cache'.loaded /\ ~cache'.stale /\ ~cache'.behind
            => Agrees(cache'.list, db, job)
    <2>0. Idle.pc # "read"
        BY DEF Idle
    <2>1. PICK e : e = cache'
        OBVIOUS
    <2>2. CASE Land
        <3>1. e = [list |-> cache.fetch.list, loaded |-> TRUE, stale |-> FALSE, error |-> FALSE,
                   behind |-> cache.fetch.old, fetch |-> Idle]
            BY <2>1, <2>2 DEF Land, Render, Finish
        <3>2. /\ e.list = cache.fetch.list /\ e.loaded = TRUE /\ e.stale = FALSE
              /\ e.error = FALSE /\ e.behind = cache.fetch.old /\ e.fetch = Idle
            BY <3>1
        <3>3. Fields(e)
            BY <3>1, <3>2 DEF Fields
        <3>4. cache.fetch.pc = "read" /\ IsThread(cache.fetch.list) /\ cache.fetch.old \in BOOLEAN
            BY <1>2, <2>2, FetchCases DEF Land
        <3>5. EntryTyped(e)
            BY <3>2, <3>3, <3>4 DEF EntryTyped, FetchTyped
        <3>6. ~Unanswered /\ ~e.behind => Agrees(e.list, db, job)
            BY <1>0, <3>2, <3>4 DEF ListAgrees
        <3> QED
            BY <2>0, <2>1, <3>2, <3>5, <3>6
    <2>3. CASE FetchFails
        <3>1. e = [cache EXCEPT !.error = TRUE, !.fetch = Idle]
            BY <2>1, <2>3 DEF FetchFails, Render, Finish
        <3>2. e = [list |-> cache.list, loaded |-> cache.loaded, stale |-> cache.stale,
                   error |-> TRUE, behind |-> cache.behind, fetch |-> Idle]
            BY <1>2, <3>1 DEF Fields
        <3>3. /\ e.list = cache.list /\ e.loaded = cache.loaded /\ e.stale = cache.stale
              /\ e.error = TRUE /\ e.behind = cache.behind /\ e.fetch = Idle
            BY <3>2
        <3>4. Fields(e)
            BY <3>2, <3>3 DEF Fields
        <3>5. EntryTyped(e)
            BY <1>0, <3>3, <3>4 DEF EntryTyped, FetchTyped
        <3>6. ~Unanswered /\ e.loaded /\ ~e.stale /\ ~e.behind => Agrees(e.list, db, job)
            BY <1>0, <3>3 DEF ListAgrees
        <3> QED
            BY <2>0, <2>1, <3>3, <3>5, <3>6
    <2> QED
        BY <2>2, <2>3
<1>4. ThreadTyped' /\ born \in Nat
    BY <1>0, <1>3 DEF ThreadTyped, EntryTyped, Fields
<1>5. ListAgrees'
    BY <1>0, <1>1, <1>3, CalmListed
<1>6. DeletedStays'
    BY <1>0, <1>1, <1>4, LastingDeleted DEF Calm
<1> QED
    BY <1>4, <1>5, <1>6 DEF Listed

\* The list that is read is the stored one, which holds nothing deleted.
LEMMA ListedRead ==
    ASSUME Listed, Read \/ Refocus
    PROVE  Listed'
<1>0. /\ ThreadTyped /\ DeletedStays /\ ListAgrees /\ EntryTyped(cache) /\ IsThread(db)
      /\ UNCHANGED <<db, born, job>>
    BY DEF Listed, ThreadTyped, Read, Refocus
<1>1. Calm
    BY <1>0 DEF Calm, Lasting
<1>2. PICK f : /\ FetchTyped(f) /\ cache' = [cache EXCEPT !.fetch = f]
               /\ f.pc = "read" => Agrees(f.list, db, job)
    <2>1. CASE Read
        <3> DEFINE f == [pc |-> "read", list |-> db, old |-> cache.fetch.old]
        <3>1. cache' = [cache EXCEPT !.fetch = f]
            BY <2>1 DEF Read
        <3>2. cache.fetch.old \in BOOLEAN
            <4>1. cache.fetch = Asked
                BY <1>0, <2>1, FetchCases DEF Read, EntryTyped
            <4> QED
                BY <4>1 DEF Asked
        <3>3. FetchTyped(f)
            BY <1>0, <3>2 DEF FetchTyped
        <3>4. Agrees(db, db, job)
            BY <1>0 DEF Agrees, DeletedStays
        <3>5. f.list = db
            OBVIOUS
        <3> HIDE DEF f
        <3> QED
            BY <3>1, <3>3, <3>4, <3>5
    <2>2. CASE Refocus
        <3>1. FetchTyped(Asked) /\ Asked.pc # "read"
            BY DEF FetchTyped, Asked
        <3> QED
            BY <2>2, <3>1 DEF Refocus
    <2> QED
        BY <2>1, <2>2
<1>3. PICK e : e = [cache EXCEPT !.fetch = f]
    OBVIOUS
<1>4. /\ EntryTyped(e) /\ e.fetch = f /\ e.list = cache.list /\ e.loaded = cache.loaded
      /\ e.stale = cache.stale /\ e.behind = cache.behind
    BY <1>0, <1>2, <1>3, Refetched
<1>5. cache' = e
    BY <1>2, <1>3
<1>6. ThreadTyped' /\ born \in Nat
    BY <1>0, <1>4, <1>5 DEF ThreadTyped, EntryTyped, Fields
<1>7. ListAgrees'
    <2>1. ~Unanswered /\ cache'.loaded /\ ~cache'.stale /\ ~cache'.behind
              => Agrees(cache'.list, db, job)
        BY <1>0, <1>4, <1>5 DEF ListAgrees
    <2>2. cache'.fetch.pc = "read" => Agrees(cache'.fetch.list, db, job)
        BY <1>2, <1>4, <1>5
    <2> QED
        BY <1>0, <1>1, <2>1, <2>2, CalmListed
<1>8. DeletedStays'
    BY <1>0, <1>1, <1>6, LastingDeleted DEF Calm
<1> QED
    BY <1>6, <1>7, <1>8 DEF Listed

\* The other account touches no comment of the reader.
LEMMA ListedTheirs ==
    ASSUME Listed, TheirComment \/ TheirDeletion \/ TheirRemoval
    PROVE  Listed'
<1>0. /\ ThreadTyped /\ DeletedStays /\ ListAgrees /\ UNCHANGED <<cache, job>>
      /\ born \in Nat /\ DOMAIN db \subseteq 1 .. born
    BY DEF Listed, ThreadTyped, TheirComment, TheirDeletion, TheirRemoval
<1>1. Calm
    BY <1>0 DEF Calm, Lasting
<1>2. /\ IsThread(db') /\ DOMAIN db' \subseteq 1 .. born' /\ born' \in 0 .. MaxComments
      /\ born <= born' /\ \A c \in DOMAIN db' : c \in DOMAIN db \/ c > born
      /\ \A c \in DOMAIN db' : Mine(db'[c]) => c \in DOMAIN db /\ db'[c] = db[c]
    <2>1. CASE TheirComment
        <3>1. PICK p \in DOMAIN db \cup {None} : Insert(Comment(p, Theirs))
            BY <2>1 DEF TheirComment
        <3>2. /\ born' \in 0 .. MaxComments /\ born' = born + 1
              /\ IsThread(db') /\ DOMAIN db' \subseteq 1 .. born'
              /\ DOMAIN db' = DOMAIN db \cup {born + 1}
              /\ \A c \in DOMAIN db : db'[c] = db[c]
              /\ db'[born + 1] = Comment(p, Theirs)
            BY <1>0, <3>1, InsertThread
        <3>3. ~Mine(db'[born + 1])
            BY <3>2 DEF Comment, Mine
        <3> QED
            BY <1>0, <3>2, <3>3
    <2>2. ASSUME NEW S, db' = Without(S), born' = born
          PROVE  /\ IsThread(db') /\ DOMAIN db' \subseteq 1 .. born' /\ born' \in 0 .. MaxComments
                 /\ born <= born' /\ \A c \in DOMAIN db' : c \in DOMAIN db \/ c > born
                 /\ \A c \in DOMAIN db' : c \in DOMAIN db /\ db'[c] = db[c]
        <3>1. /\ IsThread(db') /\ DOMAIN db' \subseteq 1 .. born' /\ born' \in 0 .. MaxComments
              /\ DOMAIN db' \subseteq DOMAIN db
              /\ \A c \in DOMAIN db' : db'[c] = db[c]
            BY <1>0, <2>2, WithoutThread
        <3>2. born <= born'
            BY <1>0, <2>2
        <3> QED
            BY <3>1, <3>2
    <2>3. CASE TheirDeletion
        BY <2>2, <2>3 DEF TheirDeletion
    <2>4. CASE TheirRemoval
        BY <2>2, <2>4 DEF TheirRemoval
    <2> QED
        BY <2>1, <2>3, <2>4
<1>3. ThreadTyped'
    BY <1>0, <1>2 DEF ThreadTyped, EntryTyped, Fields
<1>4. ListAgrees'
    BY <1>0, <1>1, <1>2, CalmUncached
<1>5. DeletedStays'
    BY <1>0, <1>1, <1>2, LastingDeleted DEF Calm
<1> QED
    BY <1>3, <1>4, <1>5 DEF Listed

LEMMA ListedNext == Listed /\ FormsTyped /\ [Next]_vars => Listed'
<1> SUFFICES ASSUME Listed, FormsTyped, [Next]_vars PROVE Listed'
    OBVIOUS
<1>1. ASSUME NEW f \in Forms, Submit(f) PROVE Listed'
    BY <1>1, ListedSend DEF Submit
<1>2. ASSUME NEW c \in Ids, Delete(c) PROVE Listed'
    BY <1>2, ListedSend DEF Delete
<1>3. CASE UNCHANGED vars
    <2>1. Calm
        BY <1>3 DEF vars, Calm, Lasting
    <2> QED
        BY <1>3, <2>1, ListedQuiet DEF vars
<1> QED
    BY <1>1, <1>2, <1>3, ListedOpen, ListedApply, ListedFail, ListedAnswer, ListedRender,
       ListedRead, ListedTheirs DEF Next

LEMMA ListedAlways == Spec => []Listed
<1>1. Held => FormsTyped
    BY DEF Held
<1> QED
    BY <1>1, HeldAlways, ListedInit, ListedNext, PTL DEF Spec

\* Once its mutations are over and the list was fetched since, everything the
\* reader wrote and did not delete is on screen with its text, and nothing it
\* deleted is.
THEOREM OwnCommentsStay == Spec => []OwnCommentsShown
<1>1. ASSUME Listed,
             \A j \in Jobs : job[j].pc \in {"unused", "done", "failed"},
             cache.loaded, cache.fetch = Idle, ~cache.stale, ~cache.error, ~cache.behind
      PROVE  /\ \A c \in DOMAIN db : Mine(db[c]) => c \in Shown(cache) /\ cache.list[c] = db[c]
             /\ \A j \in Jobs : job[j].pc = "done" /\ job[j].hook[1] = "delete"
                                    => job[j].hook[2] \notin Shown(cache)
    <2>1. ~Unanswered
        BY <1>1 DEF Unanswered
    <2>2. Agrees(cache.list, db, job)
        BY <1>1, <2>1 DEF Listed, ListAgrees
    <2>3. Shown(cache) = DOMAIN cache.list
        BY <1>1, ShownIsList DEF Listed, ThreadTyped, EntryTyped
    <2> QED
        BY <2>2, <2>3 DEF Agrees
<1>2. Listed => OwnCommentsShown
    BY <1>1 DEF OwnCommentsShown
<1> QED
    BY <1>2, ListedAlways, PTL
=============================================================================
