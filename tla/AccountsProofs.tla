--------------------------- MODULE AccountsProofs ---------------------------
(***************************************************************************)
(* Accounts for any number of requests, accounts, names and identities:    *)
(* the unique indexes, checked by the one command that writes, hold against *)
(* every interleaving of the checks made before it.                        *)
(***************************************************************************)
EXTENDS Accounts, FiniteSetTheorems, TLAPS

-----------------------------------------------------------------------------
(* The requests, by the operation they run.                                *)

SignupReq == [op : {"signup"}, pc : {"countUsers", "findExisting", "insertSignup"},
              id : {None}, username : Names \ ShortNames, n : Nat, email : Emails,
              googleId : {None}, current : {None}, password : Passwords]
OAuthReq == [op : {"oauth"}, pc : {"findKnown", "findEmail", "probeName", "insertOAuth"},
             id : {None}, username : Names, n : Nat, email : Emails \cup {None},
             googleId : GoogleIds, current : {None}, password : {None}]
UpdateReq == [op : {"updateProfile"}, pc : {"loadUser", "saveUser"},
              id : UserIds, username : (Names \ ShortNames) \cup {None}, n : Nat,
              email : Emails \cup {None}, googleId : {None},
              current : Passwords \cup {None}, password : Passwords \cup {None}]

\* A Google identity without an email goes no further than findKnown.
HasEmail == { q \in OAuthReq : q.pc = "findKnown" \/ q.email # None }
Running == SignupReq \cup HasEmail \cup UpdateReq
Document == User \cup {Unborn, Gone}

\* TypeOK, with what each operation knows at each of its calls.
Typed ==
    /\ users \in [UserIds -> Document]
    /\ req \in [Reqs -> Running \cup {Idle}]
    /\ signins \subseteq GoogleIds \X UserIds

LEMMA IdleApart == \A q \in Running : q # Idle
BY DEF Running, SignupReq, HasEmail, OAuthReq, UpdateReq, Idle

LEMMA RunningAtMost ==
    ASSUME NEW q \in Running
    PROVE  q \in Request
<1>1. CASE q \in SignupReq
    BY <1>1 DEF SignupReq, Request, Labels
<1>2. CASE q \in HasEmail
    BY <1>2 DEF HasEmail, OAuthReq, Request, Labels
<1>3. CASE q \in UpdateReq
    BY <1>3 DEF UpdateReq, Request, Labels
<1> QED
    BY <1>1, <1>2, <1>3 DEF Running

LEMMA TypedIsTypeOK == Typed => TypeOK
BY RunningAtMost DEF Typed, TypeOK, Document

\* What is known of a request from the call it is at.
LEMMA AtSignup ==
    ASSUME Typed, NEW r \in Reqs,
           At(r, "countUsers") \/ At(r, "findExisting") \/ At(r, "insertSignup")
    PROVE  /\ req[r] \in SignupReq
           /\ req[r].username \in Names \ ShortNames
           /\ req[r].email \in Emails /\ req[r].password \in Passwords
<1>1. req[r] \in Running
    BY DEF Typed, At, Busy
<1>2. req[r] \in SignupReq
    BY <1>1 DEF Running, HasEmail, OAuthReq, UpdateReq, At
<1> QED
    BY <1>2 DEF SignupReq

LEMMA AtOAuth ==
    ASSUME Typed, NEW r \in Reqs,
           \/ At(r, "findKnown") \/ At(r, "findEmail")
           \/ At(r, "probeName") \/ At(r, "insertOAuth")
    PROVE  /\ req[r] \in OAuthReq /\ req[r] \in HasEmail
           /\ req[r].username \in Names /\ req[r].n \in Nat
           /\ req[r].googleId \in GoogleIds
           /\ At(r, "findKnown") \/ req[r].email \in Emails
<1>1. req[r] \in Running
    BY DEF Typed, At, Busy
<1>2. req[r] \in HasEmail
    BY <1>1 DEF Running, SignupReq, UpdateReq, At
<1>3. req[r] \in OAuthReq /\ (req[r].pc = "findKnown" \/ req[r].email # None)
    BY <1>2 DEF HasEmail
<1> QED
    BY <1>2, <1>3 DEF OAuthReq, At

LEMMA AtUpdate ==
    ASSUME Typed, NEW r \in Reqs, At(r, "loadUser") \/ At(r, "saveUser")
    PROVE  /\ req[r] \in UpdateReq
           /\ req[r].id \in UserIds
           /\ req[r].username \in (Names \ ShortNames) \cup {None}
           /\ req[r].email \in Emails \cup {None}
           /\ req[r].password \in Passwords \cup {None}
<1>1. req[r] \in Running
    BY DEF Typed, At, Busy
<1>2. req[r] \in UpdateReq
    BY <1>1 DEF Running, SignupReq, HasEmail, OAuthReq, At
<1> QED
    BY <1>2 DEF UpdateReq

\* A live document is a user's.
LEMMA LiveUser ==
    ASSUME Typed
    PROVE  /\ Live \subseteq UserIds
           /\ \A i \in Live : users[i] \in User
           /\ \A i \in Live : /\ users[i].username \in Username
                              /\ users[i].email \in Emails
                              /\ users[i].via \in {"signup", "oauth"}
                              /\ users[i].googleId \in GoogleIds \cup {None}
<1>1. \A i \in Live : users[i] \in User
    BY DEF Typed, Live, Document, Unborn, Gone
<1> QED
    BY <1>1 DEF Live, User

\* Answering a request, or moving it, keeps the shape of all of them.
LEMMA ReqSet ==
    ASSUME Typed, NEW r \in Reqs, NEW q \in Running \cup {Idle}, req' = [req EXCEPT ![r] = q],
           users' \in [UserIds -> Document], signins' \subseteq GoogleIds \X UserIds
    PROVE  Typed'
BY DEF Typed

LEMMA Responded ==
    ASSUME Typed, NEW r \in Reqs, Respond(r),
           users' \in [UserIds -> Document], signins' \subseteq GoogleIds \X UserIds
    PROVE  Typed'
BY DEF Typed, Respond

LEMMA Derived ==
    ASSUME NEW base \in Names, NEW n \in Nat
    PROVE  Candidate(base, n) \in STRING \X Seq(Nat)
<1>1. base \in STRING \X Seq(Nat)
    BY NamesAssumption
<1>2. base[1] \in STRING /\ base[2] \in Seq(Nat)
    BY <1>1
<1>3. Append(base[2], n) \in Seq(Nat)
    BY <1>2
<1> QED
    BY <1>1, <1>2, <1>3 DEF Candidate

-----------------------------------------------------------------------------
(* Types, action by action.                                                *)

LEMMA TypedInit == Init => Typed
BY DEF Init, Typed, Document

\* A new account of either kind has the shape of one.
LEMMA NewSignup ==
    ASSUME NEW name \in Names \ ShortNames, NEW email \in Emails, NEW password \in Passwords
    PROVE  [state |-> "live", via |-> "signup", username |-> name, email |-> email,
            googleId |-> None, password |-> password] \in User
<1>1. name \in Username
    BY NamesAssumption DEF Username
<1> QED
    BY <1>1 DEF User

LEMMA NewOAuth ==
    ASSUME NEW name \in Username, NEW email \in Emails, NEW g \in GoogleIds
    PROVE  [state |-> "live", via |-> "oauth", username |-> name, email |-> email,
            googleId |-> g, password |-> None] \in User
BY DEF User

\* Moving on within an operation.
LEMMA Moved ==
    ASSUME Typed, NEW r \in Reqs, NEW label,
           \/ /\ At(r, "countUsers") \/ At(r, "findExisting")
              /\ label \in {"findExisting", "insertSignup"}
           \/ /\ At(r, "findKnown") \/ At(r, "findEmail") \/ At(r, "probeName")
              /\ label \in {"findEmail", "probeName", "insertOAuth"}
              /\ req[r].email # None,
           Goto(r, label),
           users' \in [UserIds -> Document], signins' \subseteq GoogleIds \X UserIds
    PROVE  Typed'
<1> DEFINE q == [req[r] EXCEPT !.pc = label]
<1>1. req' = [req EXCEPT ![r] = q]
    BY DEF Goto
<1>2. CASE At(r, "countUsers") \/ At(r, "findExisting")
    <2>1. req[r] \in SignupReq /\ label \in {"findExisting", "insertSignup"}
        BY <1>2, AtSignup DEF At
    <2>2. q \in SignupReq
        BY <2>1 DEF SignupReq
    <2> QED
        BY <1>1, <2>2, ReqSet DEF Running
<1>3. CASE At(r, "findKnown") \/ At(r, "findEmail") \/ At(r, "probeName")
    <2>1. /\ req[r] \in OAuthReq /\ req[r].email # None
          /\ label \in {"findEmail", "probeName", "insertOAuth"}
        BY <1>3, AtOAuth DEF At
    <2>2. q \in OAuthReq /\ q.email # None
        BY <2>1 DEF OAuthReq
    <2> QED
        BY <1>1, <2>2, ReqSet DEF Running, HasEmail
<1> QED
    BY <1>2, <1>3

LEMMA TypedCountUsers ==
    ASSUME Typed, NEW r \in Reqs, CountUsers(r)
    PROVE  Typed'
<1>1. users' \in [UserIds -> Document] /\ signins' \subseteq GoogleIds \X UserIds
    BY DEF CountUsers, Typed
<1> QED
    BY <1>1, Responded, Moved DEF CountUsers

LEMMA TypedFindExisting ==
    ASSUME Typed, NEW r \in Reqs, FindExisting(r)
    PROVE  Typed'
<1>1. users' \in [UserIds -> Document] /\ signins' \subseteq GoogleIds \X UserIds
    BY DEF FindExisting, Typed
<1> QED
    BY <1>1, Responded, Moved DEF FindExisting

\* The accounts after an insert for which no index is broken, or after none.
LEMMA SignupInserts ==
    ASSUME Typed, NEW r \in Reqs, InsertSignup(r)
    PROVE  \/ users' = users
           \/ \E i \in UserIds :
                 \E u \in User :
                    /\ IsNext(i) /\ users' = [users EXCEPT ![i] = u]
                    /\ Named(u.username) = {} /\ Mailed(u.email) = {}
                    /\ u.via = "signup" /\ u.googleId = None
                    /\ u.username = req[r].username
<1> DEFINE q == req[r]
           u == [state |-> "live", via |-> "signup", username |-> q.username,
                 email |-> q.email, googleId |-> None, password |-> q.password]
<1>1. u \in User
    BY AtSignup, NewSignup DEF InsertSignup
<1>2. CASE Named(q.username) \cup Mailed(q.email) # {}
    BY <1>2 DEF InsertSignup
<1>3. CASE Named(q.username) \cup Mailed(q.email) = {}
    <2>1. PICK i \in UserIds : IsNext(i) /\ users' = [users EXCEPT ![i] = u]
        BY <1>3 DEF InsertSignup
    <2>2. /\ u.via = "signup" /\ u.googleId = None
          /\ u.username = q.username /\ u.email = q.email
        OBVIOUS
    <2> HIDE DEF u
    <2> QED
        BY <1>1, <1>3, <2>1, <2>2
<1> QED
    BY <1>2, <1>3

LEMMA OAuthInserts ==
    ASSUME Typed, NEW r \in Reqs, InsertOAuth(r)
    PROVE  \/ users' = users /\ signins' = signins
           \/ \E i \in UserIds :
                 \E u \in User :
                    /\ IsNext(i) /\ users' = [users EXCEPT ![i] = u]
                    /\ Named(u.username) = {} /\ Mailed(u.email) = {}
                    /\ Known(u.googleId) = {}
                    /\ u.via = "oauth" /\ u.googleId \in GoogleIds
                    /\ signins' = signins \cup {<<u.googleId, i>>}
<1> DEFINE q == req[r]
           name == DerivedName(r)
           u == [state |-> "live", via |-> "oauth", username |-> name,
                 email |-> q.email, googleId |-> q.googleId, password |-> None]
           broken == Named(name) \cup Mailed(q.email) \cup Known(q.googleId) # {}
                     \/ name \in ShortNames
<1>1. q.username \in Names /\ q.n \in Nat /\ q.email \in Emails /\ q.googleId \in GoogleIds
    BY AtOAuth DEF InsertOAuth, At
<1>2. CASE broken
    BY <1>2 DEF InsertOAuth
<1>3. CASE ~ broken
    <2>1. PICK i \in UserIds :
             /\ IsNext(i) /\ users' = [users EXCEPT ![i] = u]
             /\ signins' = signins \cup {<<q.googleId, i>>}
        BY <1>3 DEF InsertOAuth
    <2>2. name \in Username
        BY <1>1, <1>3, Derived DEF Username, DerivedName
    <2>3. u \in User
        BY <1>1, <2>2, NewOAuth
    <2>4. /\ u.via = "oauth" /\ u.googleId = q.googleId
          /\ u.username = name /\ u.email = q.email
        OBVIOUS
    <2>5. Named(name) = {} /\ Mailed(q.email) = {} /\ Known(q.googleId) = {}
        BY <1>3
    <2> HIDE DEF u, name
    <2> QED
        BY <1>1, <2>1, <2>3, <2>4, <2>5
<1> QED
    BY <1>2, <1>3

LEMMA TypedInsertSignup ==
    ASSUME Typed, NEW r \in Reqs, InsertSignup(r)
    PROVE  Typed'
<1>1. users' \in [UserIds -> Document]
    BY SignupInserts DEF Typed, Document
<1> QED
    BY <1>1, Responded DEF InsertSignup, Typed

LEMMA TypedFindKnown ==
    ASSUME Typed, NEW r \in Reqs, FindKnown(r)
    PROVE  Typed'
<1>1. req[r].googleId \in GoogleIds /\ Known(req[r].googleId) \subseteq UserIds
    BY AtOAuth DEF FindKnown, Known, Live
<1>2. users' \in [UserIds -> Document] /\ signins' \subseteq GoogleIds \X UserIds
    BY <1>1 DEF FindKnown, Typed
<1>3. Respond(r) \/ (Goto(r, "findEmail") /\ req[r].email # None)
    BY DEF FindKnown
<1> QED
    BY <1>2, <1>3, Responded, Moved DEF FindKnown

LEMMA TypedFindEmail ==
    ASSUME Typed, NEW r \in Reqs, FindEmail(r)
    PROVE  Typed'
<1>1. users' \in [UserIds -> Document] /\ signins' \subseteq GoogleIds \X UserIds
    BY DEF FindEmail, Typed
<1>2. req[r].email # None
    BY AtOAuth, NoneAssumption DEF FindEmail, At
<1> QED
    BY <1>1, <1>2, Responded, Moved DEF FindEmail

LEMMA TypedProbeName ==
    ASSUME Typed, NEW r \in Reqs, ProbeName(r)
    PROVE  Typed'
<1>1. users' \in [UserIds -> Document] /\ signins' \subseteq GoogleIds \X UserIds
    BY DEF ProbeName, Typed
<1>2. req[r].email # None /\ req[r] \in OAuthReq
    BY AtOAuth, NoneAssumption DEF ProbeName, At
<1>3. CASE Goto(r, "insertOAuth")
    BY <1>1, <1>2, <1>3, Moved DEF ProbeName
<1>4. CASE req' = [req EXCEPT ![r].n = @ + 1]
    <2> DEFINE q == [req[r] EXCEPT !.n = req[r].n + 1]
    <2>1. req' = [req EXCEPT ![r] = q]
        BY <1>4
    <2>2. q \in OAuthReq /\ q.email # None
        BY <1>2 DEF OAuthReq
    <2>3. q \in Running
        BY <2>2 DEF Running, HasEmail
    <2> HIDE DEF q
    <2> QED
        BY <1>1, <2>1, <2>3, ReqSet
<1> QED
    BY <1>3, <1>4 DEF ProbeName

LEMMA TypedInsertOAuth ==
    ASSUME Typed, NEW r \in Reqs, InsertOAuth(r)
    PROVE  Typed'
<1>1. users' \in [UserIds -> Document] /\ signins' \subseteq GoogleIds \X UserIds
    BY OAuthInserts DEF Typed, Document
<1> QED
    BY <1>1, Responded DEF InsertOAuth

LEMMA TypedLoadUser ==
    ASSUME Typed, NEW r \in Reqs, LoadUser(r)
    PROVE  Typed'
<1>1. users' \in [UserIds -> Document] /\ signins' \subseteq GoogleIds \X UserIds
    BY DEF LoadUser, Typed
<1> DEFINE q == req[r]
           loaded == [q EXCEPT !.pc = "saveUser",
                        !.username = IF q.username = users[q.id].username THEN None ELSE q.username,
                        !.email = IF q.email = users[q.id].email THEN None ELSE q.email]
<1>2. Respond(r) \/ req' = [req EXCEPT ![r] = loaded]
    BY DEF LoadUser
<1>3. q \in UpdateReq
    BY AtUpdate DEF LoadUser
<1>4. loaded \in UpdateReq
    BY <1>3 DEF UpdateReq
<1> HIDE DEF loaded
<1> QED
    BY <1>1, <1>2, <1>4, Responded, ReqSet DEF Running

\* The document as save() leaves it.
LEMMA SaveWrites ==
    ASSUME Typed, NEW r \in Reqs, SaveUser(r)
    PROVE  \/ users' = users
           \/ \E i \in Live :
                 \E u \in User :
                    /\ users' = [users EXCEPT ![i] = u]
                    /\ u.username = users[i].username \/ Named(u.username) \ {i} = {}
                    /\ u.email = users[i].email \/ Mailed(u.email) \ {i} = {}
                    /\ u.via = users[i].via /\ u.googleId = users[i].googleId
<1> DEFINE q == req[r]
           d == users[q.id]
           taken == (Named(q.username) \cup Mailed(q.email)) \ {q.id}
           Set(new, old) == IF new = None THEN old ELSE new
           u == [d EXCEPT !.username = Set(q.username, d.username),
                          !.email = Set(q.email, d.email),
                          !.password = Set(q.password, d.password)]
<1>1. CASE q.id \notin Live \/ taken # {}
    BY <1>1 DEF SaveUser
<1>2. CASE q.id \in Live /\ taken = {}
    <2>1. users' = [users EXCEPT ![q.id] = u]
        BY <1>2 DEF SaveUser
    <2>2. d \in User
        BY <1>2, LiveUser
    <2>3. /\ q.username \in (Names \ ShortNames) \cup {None}
          /\ q.email \in Emails \cup {None} /\ q.password \in Passwords \cup {None}
        BY AtUpdate DEF SaveUser
    <2>4. q.username # None => q.username \in Username
        BY <2>3, NamesAssumption DEF Username
    <2> HIDE DEF d, q
    <2>5. /\ u \in User
          /\ u.username = Set(q.username, d.username)
          /\ u.email = Set(q.email, d.email)
          /\ u.via = d.via /\ u.googleId = d.googleId
        BY <2>2, <2>3, <2>4 DEF User
    <2> HIDE DEF u
    <2>6. /\ u.username = d.username \/ Named(u.username) \ {q.id} = {}
          /\ u.email = d.email \/ Mailed(u.email) \ {q.id} = {}
        BY <1>2, <2>5
    <2> QED
        BY <1>2, <2>1, <2>5, <2>6 DEF d
<1> QED
    BY <1>1, <1>2

LEMMA TypedSaveUser ==
    ASSUME Typed, NEW r \in Reqs, SaveUser(r)
    PROVE  Typed'
<1>1. users' \in [UserIds -> Document]
    BY SaveWrites, LiveUser DEF Typed, Document
<1> QED
    BY <1>1, Responded DEF SaveUser, Typed

LEMMA TypedStart ==
    ASSUME Typed, NEW r \in Reqs, Start(r)
    PROVE  Typed'
<1>1. UNCHANGED <<users, signins>>
    BY DEF Start, StartSignup, StartOAuth, StartUpdateProfile, Arrive
<1>2. CASE StartSignup(r)
    <2>1. PICK name \in Names \ ShortNames, email \in Emails, password \in Passwords :
             Arrive(r, "signup", "countUsers", None, name, email, None, None, password)
        BY <1>2 DEF StartSignup
    <2> DEFINE q == [op |-> "signup", pc |-> "countUsers", id |-> None, username |-> name,
                     n |-> 1, email |-> email, googleId |-> None, current |-> None,
                     password |-> password]
    <2>2. q \in SignupReq
        BY DEF SignupReq
    <2>3. req' = [req EXCEPT ![r] = q]
        BY <2>1 DEF Arrive
    <2> QED
        BY <1>1, <2>2, <2>3, ReqSet DEF Running, Typed
<1>3. CASE StartOAuth(r)
    <2>1. PICK name \in Names, email \in Emails \cup {None}, google \in GoogleIds :
             Arrive(r, "oauth", "findKnown", None, name, email, google, None, None)
        BY <1>3 DEF StartOAuth
    <2> DEFINE q == [op |-> "oauth", pc |-> "findKnown", id |-> None, username |-> name,
                     n |-> 1, email |-> email, googleId |-> google, current |-> None,
                     password |-> None]
    <2>2. q \in HasEmail
        BY DEF OAuthReq, HasEmail
    <2>3. req' = [req EXCEPT ![r] = q]
        BY <2>1 DEF Arrive
    <2> QED
        BY <1>1, <2>2, <2>3, ReqSet DEF Running, Typed
<1>4. CASE StartUpdateProfile(r)
    <2>1. PICK i \in UserIds, name \in (Names \ ShortNames) \cup {None}, email \in Emails \cup {None},
               current \in Passwords \cup {None}, password \in Passwords \cup {None} :
             Arrive(r, "updateProfile", "loadUser", i, name, email, None, current, password)
        BY <1>4 DEF StartUpdateProfile, Live
    <2> DEFINE q == [op |-> "updateProfile", pc |-> "loadUser", id |-> i, username |-> name,
                     n |-> 1, email |-> email, googleId |-> None, current |-> current,
                     password |-> password]
    <2>2. q \in UpdateReq
        BY DEF UpdateReq
    <2>3. req' = [req EXCEPT ![r] = q]
        BY <2>1 DEF Arrive
    <2> QED
        BY <1>1, <2>2, <2>3, ReqSet DEF Running, Typed
<1> QED
    BY <1>2, <1>3, <1>4 DEF Start

LEMMA TypedNext ==
    ASSUME Typed, [Next]_vars
    PROVE  Typed'
<1>1. CASE UNCHANGED vars
    BY <1>1 DEF vars, Typed
<1>2. CASE \E r \in Reqs : Start(r) \/ Step(r)
    BY <1>2, TypedStart, TypedCountUsers, TypedFindExisting, TypedInsertSignup, TypedFindKnown,
       TypedFindEmail, TypedProbeName, TypedInsertOAuth, TypedLoadUser, TypedSaveUser DEF Step
<1>3. CASE \E i \in UserIds : DropAccount(i)
    BY <1>3 DEF DropAccount, Typed, Document
<1>4. CASE Crash
    BY <1>4 DEF Crash, Typed
<1> QED
    BY <1>1, <1>2, <1>3, <1>4 DEF Next

LEMMA TypedAlways == Spec => []Typed
BY TypedInit, TypedNext, PTL DEF Spec

\* Every document and every request keeps the shape the schema and the handlers
\* give it.
THEOREM TypeCorrect == Spec => []TypeOK
BY TypedAlways, TypedIsTypeOK, PTL

-----------------------------------------------------------------------------
(* Uniqueness.  A request changes the accounts in one of four ways.        *)

\* An account is inserted, breaking no index.
Inserted ==
    \E i \in UserIds : \E u \in User :
        /\ IsNext(i) /\ users' = [users EXCEPT ![i] = u]
        /\ Named(u.username) = {} /\ Mailed(u.email) = {}
        /\ u.googleId = None \/ Known(u.googleId) = {}
        /\ u.googleId # None => u.via = "oauth"
        /\ \/ signins' = signins
           \/ u.via = "oauth" /\ signins' = signins \cup {<<u.googleId, i>>}

\* An account is changed to what no other account has.
Saved ==
    /\ signins' = signins
    /\ \E i \in Live : \E u \in User :
          /\ users' = [users EXCEPT ![i] = u]
          /\ u.username = users[i].username \/ Named(u.username) \ {i} = {}
          /\ u.email = users[i].email \/ Mailed(u.email) \ {i} = {}
          /\ u.via = users[i].via /\ u.googleId = users[i].googleId

Dropped == signins' = signins /\ \E i \in Live : users' = [users EXCEPT ![i] = Gone]

\* None is, though a visitor may have been signed in to one.
Kept ==
    /\ users' = users
    /\ \/ signins' = signins
       \/ \E g \in GoogleIds : signins' = signins \cup ({g} \X Known(g))

LEMMA HowAccountsChange ==
    ASSUME Typed, [Next]_vars
    PROVE  Inserted \/ Saved \/ Dropped \/ Kept
<1>1. CASE UNCHANGED vars
    BY <1>1 DEF vars, Kept
<1>2. ASSUME NEW r \in Reqs, Start(r) PROVE Kept
    BY <1>2 DEF Start, StartSignup, StartOAuth, StartUpdateProfile, Arrive, Kept
<1>3. ASSUME NEW r \in Reqs, Step(r) PROVE Inserted \/ Saved \/ Kept
    <2>1. CASE CountUsers(r) \/ FindExisting(r) \/ FindEmail(r) \/ ProbeName(r) \/ LoadUser(r)
        BY <2>1 DEF CountUsers, FindExisting, FindEmail, ProbeName, LoadUser, Kept
    <2>2. CASE FindKnown(r)
        BY <2>2, AtOAuth DEF FindKnown, Kept
    <2>3. CASE InsertSignup(r)
        <3>1. signins' = signins
            BY <2>3 DEF InsertSignup
        <3> QED
            BY <2>3, <3>1, SignupInserts DEF Inserted, Kept
    <2>4. CASE InsertOAuth(r)
        BY <2>4, OAuthInserts DEF Inserted, Kept
    <2>5. CASE SaveUser(r)
        <3>1. signins' = signins
            BY <2>5 DEF SaveUser
        <3> QED
            BY <2>5, <3>1, SaveWrites DEF Saved, Kept
    <2> QED
        BY <1>3, <2>1, <2>2, <2>3, <2>4, <2>5 DEF Step
<1>4. CASE \E i \in UserIds : DropAccount(i)
    BY <1>4 DEF DropAccount, Dropped
<1>5. CASE Crash
    BY <1>5 DEF Crash, Kept
<1> QED
    BY <1>1, <1>2, <1>3, <1>4, <1>5 DEF Next

\* The accounts after a change of one of them.
LEMMA LiveAfter ==
    ASSUME Typed, NEW i \in UserIds, NEW u \in User, users' = [users EXCEPT ![i] = u]
    PROVE  Live' = Live \cup {i} /\ users'[i] = u /\ \A j \in Live : j # i => users'[j] = users[j]
BY DEF Typed, Live, User

LEMMA LiveWithout ==
    ASSUME Typed, NEW i \in UserIds, users' = [users EXCEPT ![i] = Gone]
    PROVE  Live' = Live \ {i} /\ \A j \in Live' : users'[j] = users[j]
BY DEF Typed, Live, Gone

\* One account more that differs from each of the others.
LEMMA Apart ==
    ASSUME AccountsUnique, NEW S, S \subseteq Live, NEW i, NEW u,
           \A j \in S : /\ users[j].username # u.username /\ users[j].email # u.email
                        /\ u.googleId = None \/ users[j].googleId # u.googleId,
           Live' = S \cup {i}, users'[i] = u, \A j \in S : users'[j] = users[j],
           i \notin S
    PROVE  AccountsUnique'
<1> SUFFICES ASSUME NEW j \in Live', NEW k \in Live', j # k
             PROVE  /\ users'[j].username # users'[k].username
                    /\ users'[j].email # users'[k].email
                    /\ users'[j].googleId = None \/ users'[j].googleId # users'[k].googleId
    BY DEF AccountsUnique
<1>1. CASE j = i
    <2>1. k \in S /\ users'[j] = u /\ users'[k] = users[k]
        BY <1>1
    <2> QED
        BY <2>1
<1>2. CASE k = i
    <2>1. j \in S /\ users'[k] = u /\ users'[j] = users[j]
        BY <1>2
    <2> QED
        BY <2>1
<1>3. CASE j # i /\ k # i
    <2>1. j \in S /\ k \in S /\ users'[j] = users[j] /\ users'[k] = users[k]
        BY <1>3
    <2> QED
        BY <2>1 DEF AccountsUnique
<1> QED
    BY <1>1, <1>2, <1>3

LEMMA UniqueStep ==
    ASSUME Typed, AccountsUnique, [Next]_vars
    PROVE  AccountsUnique'
<1>1. CASE Inserted
    <2>1. PICK i \in UserIds, u \in User :
             /\ IsNext(i) /\ users' = [users EXCEPT ![i] = u]
             /\ Named(u.username) = {} /\ Mailed(u.email) = {}
             /\ u.googleId = None \/ Known(u.googleId) = {}
        BY <1>1 DEF Inserted
    <2>2. \A j \in Live : /\ users[j].username # u.username /\ users[j].email # u.email
                          /\ u.googleId = None \/ users[j].googleId # u.googleId
        BY <2>1 DEF Named, Mailed, Known
    <2>3. i \notin Live
        BY <2>1 DEF IsNext, Live
    <2>4. /\ Live' = Live \cup {i} /\ users'[i] = u
          /\ \A j \in Live : users'[j] = users[j]
        BY <2>1, <2>3, LiveAfter
    <2> QED
        BY <2>2, <2>4, Apart
<1>2. CASE Saved
    <2>1. PICK i \in Live, u \in User :
             /\ users' = [users EXCEPT ![i] = u]
             /\ u.username = users[i].username \/ Named(u.username) \ {i} = {}
             /\ u.email = users[i].email \/ Mailed(u.email) \ {i} = {}
             /\ u.via = users[i].via /\ u.googleId = users[i].googleId
        BY <1>2 DEF Saved
    <2>2. \A j \in Live \ {i} :
             /\ users[j].username # u.username /\ users[j].email # u.email
             /\ u.googleId = None \/ users[j].googleId # u.googleId
        BY <2>1 DEF AccountsUnique, Named, Mailed
    <2>3. i \in UserIds
        BY <2>1 DEF Live
    <2>4. /\ Live' = (Live \ {i}) \cup {i} /\ users'[i] = u
          /\ \A j \in Live \ {i} : users'[j] = users[j]
        BY <2>1, <2>3, LiveAfter
    <2> QED
        BY <2>2, <2>4, Apart
<1>3. CASE Dropped
    <2>1. PICK i \in UserIds : users' = [users EXCEPT ![i] = Gone]
        BY <1>3 DEF Dropped, Live
    <2>2. Live' = Live \ {i} /\ \A j \in Live' : users'[j] = users[j]
        BY <2>1, LiveWithout
    <2> QED
        <3> SUFFICES ASSUME NEW j \in Live', NEW k \in Live', j # k
                     PROVE  /\ users'[j].username # users'[k].username
                            /\ users'[j].email # users'[k].email
                            /\ \/ users'[j].googleId = None
                               \/ users'[j].googleId # users'[k].googleId
            BY DEF AccountsUnique
        <3>1. j \in Live /\ k \in Live /\ users'[j] = users[j] /\ users'[k] = users[k]
            BY <2>2
        <3> QED
            BY <3>1 DEF AccountsUnique
<1>4. CASE Kept
    BY <1>4 DEF Kept, AccountsUnique, Live
<1> QED
    BY <1>1, <1>2, <1>3, <1>4, HowAccountsChange

\* However signups, Google sign-ins, renames and removals race, no two accounts
\* share a username, an email or a Google identity: the indexes are checked by
\* the command that writes (user.ts:46-48, models/user.ts:5-11).
THEOREM Unique == Spec => []AccountsUnique
<1>1. Init => AccountsUnique
    BY DEF Init, AccountsUnique, Live, Unborn
<1> QED
    BY <1>1, UniqueStep, TypedAlways, PTL DEF Spec

-----------------------------------------------------------------------------
(* Google identities.                                                      *)

\* An identity is on accounts made for one, and whoever was ever signed in to
\* an account found it there.
IdentitiesKept ==
    /\ \A i \in Live : users[i].googleId # None => users[i].via = "oauth"
    /\ \A s \in signins : users[s[2]].state # "unborn"

LEMMA LinkStep ==
    ASSUME Typed, IdentitiesKept, OAuthNeverLinks, [Next]_vars
    PROVE  IdentitiesKept' /\ OAuthNeverLinks'
<1>0. \A s \in signins : s[1] \in GoogleIds /\ s[2] \in UserIds
    BY DEF Typed
<1>1. CASE Inserted
    <2>1. PICK i \in UserIds, u \in User :
             /\ IsNext(i) /\ users' = [users EXCEPT ![i] = u]
             /\ u.googleId # None => u.via = "oauth"
             /\ \/ signins' = signins
                \/ u.via = "oauth" /\ signins' = signins \cup {<<u.googleId, i>>}
        BY <1>1 DEF Inserted
    <2>2. \A s \in signins : s[2] # i
        BY <2>1 DEF IsNext, IdentitiesKept
    <2>3. \A j \in UserIds : j # i => users'[j] = users[j]
        BY <2>1 DEF Typed
    <2>4. users'[i] = u /\ users'[i].state = "live" /\ Live' = Live \cup {i}
        BY <2>1, LiveAfter DEF User
    <2>5. IdentitiesKept'
        <3>1. \A j \in Live' : users'[j].googleId # None => users'[j].via = "oauth"
            BY <2>1, <2>3, <2>4, LiveUser DEF IdentitiesKept
        <3>2. \A s \in signins : users'[s[2]].state # "unborn"
            BY <1>0, <2>2, <2>3 DEF IdentitiesKept
        <3>3. \A s \in signins' : s \in signins \/ s = <<u.googleId, i>>
            BY <2>1
        <3> QED
            BY <2>4, <3>1, <3>2, <3>3 DEF IdentitiesKept
    <2>6. OAuthNeverLinks'
        <3> SUFFICES ASSUME NEW s \in signins', s[2] \in Live'
                     PROVE  users'[s[2]].via = "oauth" /\ users'[s[2]].googleId = s[1]
            BY DEF OAuthNeverLinks
        <3>1. CASE s \in signins
            <4>1. s[2] # i /\ s[2] \in Live /\ s[2] \in UserIds
                BY <1>0, <2>2, <2>4, <3>1
            <4> QED
                BY <2>3, <3>1, <4>1 DEF OAuthNeverLinks
        <3>2. CASE s \notin signins
            <4>1. s = <<u.googleId, i>> /\ u.via = "oauth"
                BY <2>1, <3>2
            <4> QED
                BY <2>4, <4>1
        <3> QED
            BY <3>1, <3>2
    <2> QED
        BY <2>5, <2>6
<1>2. CASE Saved
    <2>1. PICK i \in Live, u \in User :
             /\ users' = [users EXCEPT ![i] = u] /\ signins' = signins
             /\ u.via = users[i].via /\ u.googleId = users[i].googleId
        BY <1>2 DEF Saved
    <2>2. i \in UserIds /\ Live' = Live /\ users'[i] = u /\ u.state = "live"
          /\ \A j \in UserIds : j # i => users'[j] = users[j]
        BY <2>1, LiveAfter DEF Live, Typed, User
    <2>3. IdentitiesKept'
        BY <1>0, <2>1, <2>2, LiveUser DEF IdentitiesKept
    <2>4. OAuthNeverLinks'
        BY <1>0, <2>1, <2>2 DEF OAuthNeverLinks
    <2> QED
        BY <2>3, <2>4
<1>3. CASE Dropped
    <2>1. PICK i \in UserIds : users' = [users EXCEPT ![i] = Gone] /\ signins' = signins
        BY <1>3 DEF Dropped, Live
    <2>2. Live' = Live \ {i} /\ users'[i].state = "gone"
          /\ \A j \in UserIds : j # i => users'[j] = users[j]
        BY <2>1, LiveWithout DEF Typed, Gone
    <2>3. IdentitiesKept'
        BY <1>0, <2>1, <2>2, LiveUser DEF IdentitiesKept
    <2>4. OAuthNeverLinks'
        BY <1>0, <2>1, <2>2 DEF OAuthNeverLinks
    <2> QED
        BY <2>3, <2>4
<1>4. CASE Kept
    <2>1. users' = users /\ Live' = Live
        BY <1>4 DEF Kept, Live
    <2>2. ASSUME NEW s \in signins', s \notin signins
          PROVE  s[2] \in Live /\ users[s[2]].googleId = s[1] /\ s[1] # None
        <3>1. PICK g \in GoogleIds : s \in {g} \X Known(g)
            BY <1>4, <2>2 DEF Kept
        <3> QED
            BY <3>1, NoneAssumption DEF Known
    <2>3. IdentitiesKept'
        BY <2>1, <2>2 DEF IdentitiesKept, Live
    <2>4. OAuthNeverLinks'
        BY <2>1, <2>2 DEF OAuthNeverLinks, IdentitiesKept
    <2> QED
        BY <2>3, <2>4
<1> QED
    BY <1>1, <1>2, <1>3, <1>4, HowAccountsChange

\* A sign-in with Google never reaches an account that was registered with a
\* password, nor one made for another identity, whatever is created, renamed or
\* removed meanwhile (oauth.ts:42-56).
THEOREM NeverLinks == Spec => []OAuthNeverLinks
<1>1. Init => IdentitiesKept /\ OAuthNeverLinks
    BY DEF Init, IdentitiesKept, OAuthNeverLinks, Live, Unborn
<1> QED
    BY <1>1, LinkStep, TypedAlways, PTL DEF Spec

-----------------------------------------------------------------------------
(* The cap on signups.                                                     *)

Signups == { i \in Live : users[i].via = "signup" }
Admitted == { r \in Reqs : At(r, "findExisting") \/ At(r, "insertSignup") }

\* A step that moves one request.
LEMMA AdmittedAfter ==
    ASSUME Typed, NEW r \in Reqs
    PROVE  /\ Respond(r) => Admitted' = Admitted \ {r}
           /\ \A label : Goto(r, label) /\ Busy(r) =>
                 Admitted' = IF label \in {"findExisting", "insertSignup"}
                             THEN Admitted \cup {r} ELSE Admitted \ {r}
<1>1. ASSUME Respond(r) PROVE Admitted' = Admitted \ {r}
    BY <1>1 DEF Typed, Respond, Admitted, At, Busy, Idle
<1>2. ASSUME NEW label, Goto(r, label), Busy(r)
      PROVE  Admitted' = IF label \in {"findExisting", "insertSignup"}
                         THEN Admitted \cup {r} ELSE Admitted \ {r}
    <2>1. req[r] \in Running
        BY <1>2 DEF Typed, Busy
    <2> DEFINE q == [req[r] EXCEPT !.pc = label]
    <2>2. req' = [req EXCEPT ![r] = q]
        BY <1>2 DEF Goto
    <2>3. q.pc = label /\ q.op = req[r].op /\ q # Idle
        <3>1. CASE req[r] \in SignupReq
            BY <3>1 DEF SignupReq, Idle
        <3>2. CASE req[r] \in OAuthReq
            BY <3>2 DEF OAuthReq, Idle
        <3>3. CASE req[r] \in UpdateReq
            BY <3>3 DEF UpdateReq, Idle
        <3> QED
            BY <2>1, <3>1, <3>2, <3>3 DEF Running, HasEmail
    <2> HIDE DEF q
    <2>4. req'[r] = q /\ \A s \in Reqs : s # r => req'[s] = req[s]
        BY <2>2 DEF Typed
    <2> QED
        BY <2>3, <2>4 DEF Admitted, At, Busy
<1> QED
    BY <1>1, <1>2

LEMMA CapVars ==
    /\ SignupCap!cappedVars = <<Signups, Admitted>>
    /\ SignupCap!cappedVars' = <<Signups', Admitted'>>
BY DEF SignupCap!cappedVars, Signups, Admitted

LEMMA SameCardinality == \A S : SignupCap!Cardinality(S) = Cardinality(S)
BY DEF SignupCap!Cardinality, Cardinality

\* The accounts are finite in number, those made by signup no more than all.
LEMMA FewSignups ==
    /\ IsFiniteSet(Signups) /\ Cardinality(Signups) \in Nat
    /\ Cardinality(Live) \in Nat /\ Cardinality(Signups) <= Cardinality(Live)
<1>1. IsFiniteSet(Live)
    BY IdsAssumption, FS_Subset DEF Live
<1>2. Signups \in SUBSET Live
    BY DEF Signups
<1> QED
    BY <1>1, <1>2, FS_Subset, FS_CardinalityType

\* The four moves of a capped collection.
LEMMA CapAdmit ==
    ASSUME NEW r \in Reqs, Cardinality(Live) < MaxUsers, Admitted' = Admitted \cup {r},
           Signups' = Signups
    PROVE  SignupCap!Step
<1>1. Cardinality(Signups) < MaxUsers
    BY FewSignups, MaxUsersAssumption
<1>2. SignupCap!Admit(r)
    BY <1>1, SameCardinality DEF SignupCap!Admit, Signups, Admitted
<1> QED
    BY <1>2 DEF SignupCap!Step, SignupCap!Next

LEMMA CapInsert ==
    ASSUME NEW r \in Admitted, NEW i \in UserIds \ Signups,
           Signups' = Signups \cup {i}, Admitted' = Admitted \ {r}
    PROVE  SignupCap!Step
<1>1. r \in Reqs
    BY DEF Admitted
<1>2. SignupCap!Insert(r)
    BY DEF SignupCap!Insert, Signups, Admitted
<1> QED
    BY <1>1, <1>2 DEF SignupCap!Step, SignupCap!Next

LEMMA CapGiveUp ==
    ASSUME NEW R \in SUBSET Reqs, Signups' = Signups, Admitted' = Admitted \ R
    PROVE  SignupCap!Step
<1>1. SignupCap!GiveUp(R)
    BY DEF SignupCap!GiveUp, Signups, Admitted
<1> QED
    BY <1>1 DEF SignupCap!Step, SignupCap!Next

LEMMA CapRemove ==
    ASSUME NEW S \in SUBSET Signups, Signups' = Signups \ S, Admitted' = Admitted
    PROVE  SignupCap!Step
<1>1. SignupCap!Remove(S)
    BY DEF SignupCap!Remove, Signups, Admitted
<1> QED
    BY <1>1 DEF SignupCap!Step, SignupCap!Next, Signups

\* A request outside the admitted ones that stays outside, or one of them that
\* leaves, is a request that gave up or a stutter.
LEMMA CapAside ==
    ASSUME NEW r \in Reqs, Signups' = Signups, Admitted' = Admitted \ {r}
    PROVE  SignupCap!Step
BY CapGiveUp

LEMMA CapIdle ==
    ASSUME Signups' = Signups, Admitted' = Admitted
    PROVE  SignupCap!Step
<1>1. {} \in SUBSET Reqs /\ Admitted' = Admitted \ {}
    OBVIOUS
<1> QED
    BY <1>1, CapGiveUp

\* The signups after a change of one account.
LEMMA SignupsAfter ==
    ASSUME Typed, NEW i \in UserIds, NEW u \in User, users' = [users EXCEPT ![i] = u]
    PROVE  Signups' = IF u.via = "signup" THEN Signups \cup {i} ELSE Signups \ {i}
<1>1. Live' = Live \cup {i} /\ users'[i] = u /\ \A j \in Live : j # i => users'[j] = users[j]
    BY LiveAfter
<1> QED
    BY <1>1 DEF Signups

\* Steps of signups.
LEMMA CapSignup ==
    ASSUME Typed, NEW r \in Reqs, CountUsers(r) \/ FindExisting(r) \/ InsertSignup(r)
    PROVE  SignupCap!Step
<1>1. CASE CountUsers(r)
    <2>1. Signups' = Signups /\ Busy(r) /\ Cardinality(Live) \in Nat
        BY <1>1, FewSignups DEF CountUsers, Signups, Live, At
    <2>2. CASE Respond(r)
        BY <2>1, <2>2, AdmittedAfter, CapAside
    <2>3. CASE Goto(r, "findExisting") /\ ~ (Cardinality(Live) >= MaxUsers)
        <3>1. Admitted' = Admitted \cup {r}
            BY <2>1, <2>3, AdmittedAfter
        <3>2. Cardinality(Live) < MaxUsers
            BY <2>1, <2>3, MaxUsersAssumption
        <3> QED
            BY <2>1, <3>1, <3>2, CapAdmit
    <2> QED
        BY <1>1, <2>2, <2>3 DEF CountUsers
<1>2. CASE FindExisting(r)
    <2>1. Signups' = Signups /\ Busy(r) /\ r \in Admitted
        BY <1>2 DEF FindExisting, Signups, Live, At, Admitted
    <2>2. CASE Respond(r)
        BY <2>1, <2>2, AdmittedAfter, CapAside
    <2>3. CASE Goto(r, "insertSignup")
        <3>1. Admitted' = Admitted \cup {r}
            BY <2>1, <2>3, AdmittedAfter
        <3> QED
            BY <2>1, <3>1, CapIdle
    <2> QED
        BY <1>2, <2>2, <2>3 DEF FindExisting
<1>3. CASE InsertSignup(r)
    <2>1. r \in Admitted /\ Admitted' = Admitted \ {r}
        BY <1>3, AdmittedAfter DEF InsertSignup, Admitted
    <2>2. CASE users' = users
        <3>1. Signups' = Signups
            BY <2>2 DEF Signups, Live
        <3> QED
            BY <2>1, <3>1, CapAside
    <2>3. CASE users' # users
        <3>1. PICK i \in UserIds, u \in User :
                 IsNext(i) /\ users' = [users EXCEPT ![i] = u] /\ u.via = "signup"
            BY <1>3, <2>3, SignupInserts
        <3>2. Signups' = Signups \cup {i}
            BY <3>1, SignupsAfter
        <3>3. i \notin Signups
            BY <3>1 DEF IsNext, Signups, Live
        <3> QED
            BY <2>1, <3>2, <3>3, CapInsert
    <2> QED
        BY <2>2, <2>3
<1> QED
    BY <1>1, <1>2, <1>3

\* Steps of sign-ins with Google, which are admitted by nobody.
LEMMA CapOAuth ==
    ASSUME Typed, NEW r \in Reqs,
           FindKnown(r) \/ FindEmail(r) \/ ProbeName(r) \/ InsertOAuth(r)
    PROVE  SignupCap!Step
<1>1. Busy(r)
    BY DEF FindKnown, FindEmail, ProbeName, InsertOAuth, At
<1>2. Signups' = Signups
    <2>1. CASE users' = users
        BY <2>1 DEF Signups, Live
    <2>2. CASE InsertOAuth(r) /\ users' # users
        <3>1. PICK i \in UserIds, u \in User :
                 IsNext(i) /\ users' = [users EXCEPT ![i] = u] /\ u.via = "oauth"
            BY <2>2, OAuthInserts
        <3>2. Signups' = Signups \ {i} /\ i \notin Signups
            BY <3>1, SignupsAfter DEF IsNext, Signups, Live
        <3> QED
            BY <3>2
    <2> QED
        BY <2>1, <2>2 DEF FindKnown, FindEmail, ProbeName
<1>3. Admitted' = Admitted \ {r}
    <2>1. CASE Respond(r)
        BY <2>1, AdmittedAfter
    <2>2. CASE Goto(r, "findEmail") \/ Goto(r, "probeName") \/ Goto(r, "insertOAuth")
        BY <1>1, <2>2, AdmittedAfter
    <2>3. CASE ProbeName(r) /\ req' = [req EXCEPT ![r].n = @ + 1]
        <3> DEFINE q == [req[r] EXCEPT !.n = req[r].n + 1]
        <3>1. req' = [req EXCEPT ![r] = q] /\ req[r] \in OAuthReq /\ req[r].pc = "probeName"
            BY <2>3, AtOAuth DEF ProbeName, At
        <3>2. q.pc = "probeName" /\ q # Idle
            BY <3>1 DEF OAuthReq, Idle
        <3> HIDE DEF q
        <3>3. req'[r] = q /\ \A s \in Reqs : s # r => req'[s] = req[s]
            BY <3>1 DEF Typed
        <3> QED
            BY <3>1, <3>2, <3>3 DEF Admitted, At, Busy
    <2> QED
        BY <2>1, <2>2, <2>3 DEF FindKnown, FindEmail, ProbeName, InsertOAuth
<1> QED
    BY <1>2, <1>3, CapAside

\* Steps of profile updates.
LEMMA CapUpdate ==
    ASSUME Typed, NEW r \in Reqs, LoadUser(r) \/ SaveUser(r)
    PROVE  SignupCap!Step
<1>1. CASE LoadUser(r)
    <2>1. Signups' = Signups /\ At(r, "loadUser")
        BY <1>1 DEF LoadUser, Signups, Live
    <2>2. req[r] \in UpdateReq /\ req[r] # Idle
        BY <2>1, AtUpdate DEF At, Busy
    <2>3. Admitted' = Admitted \ {r}
        <3>1. CASE Respond(r)
            BY <3>1, AdmittedAfter
        <3>2. CASE ~ Respond(r)
            <4> DEFINE p == req[r]
                       name == IF p.username = users[p.id].username THEN None ELSE p.username
                       email == IF p.email = users[p.id].email THEN None ELSE p.email
                       q == [p EXCEPT !.pc = "saveUser", !.username = name, !.email = email]
            <4>1. req' = [req EXCEPT ![r] = q]
                BY <1>1, <3>2 DEF LoadUser
            <4>2. q.pc = "saveUser"
                BY <2>2 DEF UpdateReq
            <4> HIDE DEF q
            <4>3. req'[r] = q /\ \A s \in Reqs : s # r => req'[s] = req[s]
                BY <4>1 DEF Typed, q
            <4> QED
                BY <4>2, <4>3 DEF Admitted, At, Busy
        <3> QED
            BY <3>1, <3>2
    <2> QED
        BY <2>1, <2>3, CapAside
<1>2. CASE SaveUser(r)
    <2>1. Admitted' = Admitted \ {r}
        BY <1>2, AdmittedAfter DEF SaveUser
    <2>2. CASE users' = users
        <3>1. Signups' = Signups
            BY <2>2 DEF Signups, Live
        <3> QED
            BY <2>1, <3>1, CapAside
    <2>3. CASE users' # users
        <3>1. PICK i \in Live, u \in User :
                 users' = [users EXCEPT ![i] = u] /\ u.via = users[i].via
            BY <1>2, <2>3, SaveWrites
        <3>2. i \in UserIds
            BY <3>1 DEF Live
        <3>3. Signups' = IF u.via = "signup" THEN Signups \cup {i} ELSE Signups \ {i}
            BY <3>1, <3>2, SignupsAfter
        <3>4. Signups' = Signups
            BY <3>1, <3>3 DEF Signups
        <3> QED
            BY <2>1, <3>4, CapAside
    <2> QED
        BY <2>2, <2>3
<1> QED
    BY <1>1, <1>2

LEMMA CapArrive ==
    ASSUME Typed, NEW r \in Reqs, NEW op, NEW label \in {"countUsers", "findKnown", "loadUser"},
           NEW id, NEW username, NEW email, NEW google, NEW current, NEW password,
           Arrive(r, op, label, id, username, email, google, current, password)
    PROVE  SignupCap!Step
<1> DEFINE q == [op |-> op, pc |-> label, id |-> id, username |-> username, n |-> 1,
                 email |-> email, googleId |-> google, current |-> current,
                 password |-> password]
<1>1. ~ Busy(r) /\ req' = [req EXCEPT ![r] = q] /\ users' = users
    BY DEF Arrive
<1>2. q.pc = label
    OBVIOUS
<1> HIDE DEF q
<1>3. req'[r] = q /\ \A s \in Reqs : s # r => req'[s] = req[s]
    BY <1>1 DEF Typed
<1>4. Admitted' = Admitted
    BY <1>1, <1>2, <1>3 DEF Admitted, At, Busy
<1>5. Signups' = Signups
    BY <1>1 DEF Signups, Live
<1> QED
    BY <1>4, <1>5, CapIdle

LEMMA CapStart ==
    ASSUME Typed, NEW r \in Reqs, Start(r)
    PROVE  SignupCap!Step
BY CapArrive DEF Start, StartSignup, StartOAuth, StartUpdateProfile

LEMMA CapStep ==
    ASSUME Typed, [Next]_vars
    PROVE  SignupCap!Step
<1>1. CASE UNCHANGED vars
    <2>1. Signups' = Signups /\ Admitted' = Admitted
        BY <1>1 DEF vars, Signups, Live, Admitted, At, Busy
    <2> QED
        BY <2>1, CapIdle
<1>2. CASE \E r \in Reqs : Start(r) \/ Step(r)
    BY <1>2, CapStart, CapSignup, CapOAuth, CapUpdate DEF Step
<1>3. CASE \E i \in UserIds : DropAccount(i)
    <2>1. PICK i \in UserIds : i \in Live /\ users' = [users EXCEPT ![i] = Gone] /\ req' = req
        BY <1>3 DEF DropAccount
    <2>2. Admitted' = Admitted
        BY <2>1 DEF Admitted, At, Busy
    <2>3. Signups' = Signups \ (Signups \cap {i})
        BY <2>1, LiveWithout DEF Signups
    <2>4. Signups \cap {i} \in SUBSET Signups
        OBVIOUS
    <2> QED
        BY <2>2, <2>3, <2>4, CapRemove
<1>4. CASE Crash
    <2>1. Signups' = Signups /\ req' = [r \in Reqs |-> Idle]
        BY <1>4 DEF Crash, Signups, Live
    <2>2. Admitted' = Admitted \ Reqs
        BY <2>1 DEF Admitted, At, Busy
    <2> QED
        BY <2>1, <2>2, CapGiveUp
<1> QED
    BY <1>1, <1>2, <1>3, <1>4 DEF Next

\* Every step of the routes is a step of the capped collection, or none: a signup
\* inserts only after a count of its own came back below the limit, and all that
\* Google sign-ins do to the cap is to take room (user.ts:38-77).
THEOREM SignupsAreCapped == Spec => SignupsCapped
<1>1. Init => SignupCap!Init
    BY DEF Init, SignupCap!Init, Live, Unborn, At, Busy
<1>2. Typed /\ [Next]_vars => [SignupCap!Step]_(SignupCap!cappedVars)
    BY CapStep
<1> QED
    BY <1>1, <1>2, TypedAlways, PTL DEF Spec, SignupsCapped, SignupCap!Spec

-----------------------------------------------------------------------------
(* The overshoot, by the theorem about capped collections.                 *)

Capped == INSTANCE CappedCollectionProofs WITH
    Items <- UserIds, Creators <- Reqs, Limit <- MaxUsers,
    items <- Signups, admitted <- Admitted

\* No more accounts made by signup than the limit and the requests running
\* beside the last one (user.ts:42-44).
SignupOvershoot == Cardinality(Signups) <= MaxUsers + Cardinality(Reqs) - 1

LEMMA SameFinite ==
    /\ Capped!Parameters
    /\ \A S : Capped!Cardinality(S) = Cardinality(S)
BY ReqsAssumption, MaxUsersAssumption
DEF Capped!Parameters, Capped!IsFiniteSet, IsFiniteSet, Capped!Cardinality, Cardinality

THEOREM SignupsOvershootBounded == Spec => []SignupOvershoot
<1>1. Spec => Capped!Spec
    <2>1. Init => Capped!Init
        BY DEF Init, Capped!Init, Signups, Admitted, Live, Unborn, At, Busy
    <2>2. SignupCap!Step => Capped!Step
        BY SameCardinality, SameFinite
        DEF SignupCap!Step, SignupCap!Next, SignupCap!cappedVars, SignupCap!Admit,
            SignupCap!Insert, SignupCap!GiveUp, SignupCap!Remove,
            Capped!Step, Capped!Next, Capped!cappedVars, Capped!Admit,
            Capped!Insert, Capped!GiveUp, Capped!Remove, Signups, Admitted
    <2> QED
        BY <2>1, <2>2, CapStep, TypedAlways, PTL DEF Spec, Capped!Spec
<1>2. Capped!Spec => []Capped!OvershootBounded
    BY Capped!OvershootBoundedHolds, SameFinite
<1>3. Capped!OvershootBounded => SignupOvershoot
    BY SameFinite DEF Capped!OvershootBounded, SignupOvershoot
<1> QED
    BY <1>1, <1>2, <1>3, PTL
=============================================================================
