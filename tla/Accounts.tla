------------------------------ MODULE Accounts ------------------------------
(***************************************************************************)
(* Accounts: userService.signup and updateProfile                          *)
(* (lib/services/user.ts) and oauthService.findOrCreate                    *)
(* (lib/services/oauth.ts), with the routes that call them.  One action    *)
(* for every call to MongoDB; the unique indexes are the only guard that   *)
(* is not a check made earlier.                                            *)
(***************************************************************************)
EXTENDS Naturals, Sequences, FiniteSets

CONSTANTS
    Reqs,        \* requests that may be in flight together
    UserIds,     \* ObjectIds, used in increasing order, never again
    Names,       \* usernames asked for: words and the numbers that end them
    ShortNames,  \* those among them with fewer than 3 characters
    Emails, GoogleIds, Passwords,
    MaxUsers,    \* demoLimits.maxUsers
    None         \* an absent field

ASSUME ReqsAssumption == IsFiniteSet(Reqs) /\ Reqs # {}
ASSUME NamesAssumption == Names \subseteq STRING \X Seq(Nat)
ASSUME IdsAssumption == UserIds \subseteq Nat /\ IsFiniteSet(UserIds)
ASSUME NoneAssumption == None \notin Names \cup Emails \cup GoogleIds \cup Passwords
ASSUME MaxUsersAssumption == MaxUsers \in Nat

VARIABLES
    users,    \* users[i]: the user document i
    req,      \* req[r]: the request slot r, its locals between two awaits
    signins   \* history: <<googleId, account>> of each sign-in with Google

vars == <<users, req, signins>>

\* base, base-2, base-3, ...
Candidate(base, n) == IF n = 1 THEN base ELSE <<base[1], Append(base[2], n)>>

\* Typed or derived.
Username == (STRING \X Seq(Nat)) \ ShortNames

Unborn == [state |-> "unborn"]
Gone == [state |-> "gone"]
User == [state : {"live"}, via : {"signup", "oauth"}, username : Username,
         email : Emails, googleId : GoogleIds \cup {None},
         password : Passwords \cup {None}]

Labels == {"countUsers", "findExisting", "insertSignup", "findKnown", "findEmail",
           "probeName", "insertOAuth", "loadUser", "saveUser"}
Request == [op : {"signup", "oauth", "updateProfile"}, pc : Labels,
            id : UserIds \cup {None},            \* :id of the URL
            username : Names \cup {None}, n : Nat,
            email : Emails \cup {None}, googleId : GoogleIds \cup {None},
            current : Passwords \cup {None},     \* currentPassword
            password : Passwords \cup {None}]
Idle == [op |-> "none", pc |-> "idle"]

TypeOK ==
    /\ users \in [UserIds -> User \cup {Unborn, Gone}]
    /\ req \in [Reqs -> Request \cup {Idle}]
    /\ signins \subseteq GoogleIds \X UserIds

Init ==
    /\ users = [i \in UserIds |-> Unborn]
    /\ req = [r \in Reqs |-> Idle]
    /\ signins = {}

Live == { i \in UserIds : users[i].state = "live" }
Named(name) == { i \in Live : users[i].username = name }
Mailed(email) == { i \in Live : users[i].email = email }
Known(g) == { i \in Live : users[i].googleId = g }

IsNext(i) == users[i].state = "unborn" /\ \A j \in UserIds : j < i => users[j].state # "unborn"

Busy(r) == req[r] # Idle
At(r, label) == Busy(r) /\ req[r].pc = label
Goto(r, label) == req' = [req EXCEPT ![r].pc = label]
Respond(r) == req' = [req EXCEPT ![r] = Idle]
DerivedName(r) == Candidate(req[r].username, req[r].n)

-----------------------------------------------------------------------------
(* Mutants. *)

CountUsersOffByOne(r) ==
    /\ At(r, "countUsers")
    /\ IF Cardinality(Live) > MaxUsers THEN Respond(r) ELSE Goto(r, "findExisting")
    /\ UNCHANGED <<users, signins>>

InsertSignupNoIndex(r) ==
    /\ At(r, "insertSignup")
    /\ \E i \in UserIds :
          /\ IsNext(i)
          /\ users' = [users EXCEPT ![i] =
                [state |-> "live", via |-> "signup", username |-> req[r].username,
                 email |-> req[r].email, googleId |-> None, password |-> req[r].password]]
    /\ Respond(r)
    /\ UNCHANGED signins

FindEmailLinks(r) ==
    /\ At(r, "findEmail")
    /\ IF Mailed(req[r].email) # {}
       THEN /\ Respond(r)
            /\ signins' = signins \cup ({req[r].googleId} \X Mailed(req[r].email))
       ELSE Goto(r, "probeName") /\ UNCHANGED signins
    /\ UNCHANGED users

ProbeNameForever(r) ==
    /\ At(r, "probeName")
    /\ IF Named(DerivedName(r)) = {} THEN Goto(r, "insertOAuth") ELSE req' = req
    /\ UNCHANGED <<users, signins>>

InsertOAuthUnvalidated(r) ==
    /\ At(r, "insertOAuth")
    /\ LET q == req[r]
           name == DerivedName(r)
       IN IF Named(name) \cup Mailed(q.email) \cup Known(q.googleId) # {}
          THEN UNCHANGED <<users, signins>>
          ELSE \E i \in UserIds :
                  /\ IsNext(i)
                  /\ users' = [users EXCEPT ![i] =
                        [state |-> "live", via |-> "oauth", username |-> name,
                         email |-> q.email, googleId |-> q.googleId, password |-> None]]
                  /\ signins' = signins \cup {<<q.googleId, i>>}
    /\ Respond(r)

-----------------------------------------------------------------------------
(* POST /auth/signup *)

CountUsers(r) ==
    /\ At(r, "countUsers")
    /\ IF Cardinality(Live) >= MaxUsers THEN Respond(r) ELSE Goto(r, "findExisting")
    /\ UNCHANGED <<users, signins>>

\* The pre-check for a precise message; then the password is hashed.
FindExisting(r) ==
    /\ At(r, "findExisting")
    /\ IF Named(req[r].username) \cup Mailed(req[r].email) # {}
       THEN Respond(r)
       ELSE Goto(r, "insertSignup")
    /\ UNCHANGED <<users, signins>>

\* The unique indexes are the guard; E11000 becomes a conflict.
InsertSignup(r) ==
    /\ At(r, "insertSignup")
    /\ LET q == req[r] IN
       IF Named(q.username) \cup Mailed(q.email) # {}
       THEN users' = users
       ELSE \E i \in UserIds :
               /\ IsNext(i)
               /\ users' = [users EXCEPT ![i] =
                     [state |-> "live", via |-> "signup", username |-> q.username,
                      email |-> q.email, googleId |-> None, password |-> q.password]]
    /\ Respond(r)
    /\ UNCHANGED signins

-----------------------------------------------------------------------------
(* GET /auth/google/callback: findOrCreate.  It does not count accounts. *)

FindKnown(r) ==
    /\ At(r, "findKnown")
    /\ LET known == Known(req[r].googleId) IN
       /\ signins' = signins \cup ({req[r].googleId} \X known)
       /\ IF known # {} \/ req[r].email = None THEN Respond(r) ELSE Goto(r, "findEmail")
    /\ UNCHANGED users

\* An account with the same email is never linked.
FindEmail(r) ==
    /\ At(r, "findEmail")
    /\ IF Mailed(req[r].email) # {} THEN Respond(r) ELSE Goto(r, "probeName")
    /\ UNCHANGED <<users, signins>>

\* One findOne of uniqueUsername's loop.
ProbeName(r) ==
    /\ At(r, "probeName")
    /\ IF Named(DerivedName(r)) = {}
       THEN Goto(r, "insertOAuth")
       ELSE req' = [req EXCEPT ![r].n = @ + 1]
    /\ UNCHANGED <<users, signins>>

\* A broken index or a username too short for the schema sends the visitor back
\* to the login page with the error.
InsertOAuth(r) ==
    /\ At(r, "insertOAuth")
    /\ LET q == req[r]
           name == DerivedName(r)
       IN IF Named(name) \cup Mailed(q.email) \cup Known(q.googleId) # {} \/ name \in ShortNames
          THEN UNCHANGED <<users, signins>>
          ELSE \E i \in UserIds :
                  /\ IsNext(i)
                  /\ users' = [users EXCEPT ![i] =
                        [state |-> "live", via |-> "oauth", username |-> name,
                         email |-> q.email, googleId |-> q.googleId, password |-> None]]
                  /\ signins' = signins \cup {<<q.googleId, i>>}
    /\ Respond(r)

-----------------------------------------------------------------------------
(* PATCH /users/:id, requireAuth and requireSelf passed. *)

\* The email of a Google account is locked; a password that exists is changed
\* with itself as proof, one that does not is set without.
LoadUser(r) ==
    /\ At(r, "loadUser")
    /\ LET q == req[r]
           locked == q.email # None /\ users[q.id].googleId # None
           proven == \/ q.password = None
                     \/ users[q.id].password \in {None, q.current}
       IN IF q.id \notin Live \/ locked \/ ~ proven THEN Respond(r)
          ELSE req' = [req EXCEPT ![r] = [q EXCEPT
                  !.pc = "saveUser",
                  !.username = IF q.username = users[q.id].username THEN None ELSE q.username,
                  !.email = IF q.email = users[q.id].email THEN None ELSE q.email]]
    /\ UNCHANGED <<users, signins>>

\* save() sends the paths that differ from the document loaded.
SaveUser(r) ==
    /\ At(r, "saveUser")
    /\ LET q == req[r]
           taken == (Named(q.username) \cup Mailed(q.email)) \ {q.id}
           Set(new, old) == IF new = None THEN old ELSE new
       IN IF q.id \notin Live \/ taken # {}
          THEN users' = users
          ELSE LET user == users[q.id] IN
               users' = [users EXCEPT ![q.id] = [user EXCEPT
                  !.username = Set(q.username, user.username),
                  !.email = Set(q.email, user.email),
                  !.password = Set(q.password, user.password)]]
    /\ Respond(r)
    /\ UNCHANGED signins

\* The last step of userService.remove, in a request of its own.
DropAccount(i) ==
    /\ i \in Live
    /\ users' = [users EXCEPT ![i] = Gone]
    /\ UNCHANGED <<req, signins>>

-----------------------------------------------------------------------------
(* Arrivals. *)

\* An id is left for every create in flight (bound of the model).
IdLeft ==
    Cardinality({ r \in Reqs : req[r].op \in {"signup", "oauth"} })
        < Cardinality({ i \in UserIds : users[i].state = "unborn" })

Arrive(r, op, label, id, username, email, google, current, password) ==
    /\ ~ Busy(r)
    /\ req' = [req EXCEPT ![r] =
          [op |-> op, pc |-> label, id |-> id, username |-> username, n |-> 1,
           email |-> email, googleId |-> google, current |-> current, password |-> password]]
    /\ UNCHANGED <<users, signins>>

StartSignup(r) ==
    \E name \in Names \ ShortNames, email \in Emails, password \in Passwords :
        IdLeft /\ Arrive(r, "signup", "countUsers", None, name, email, None, None, password)

StartOAuth(r) ==
    \E name \in Names, email \in Emails \cup {None}, google \in GoogleIds :
        IdLeft /\ Arrive(r, "oauth", "findKnown", None, name, email, google, None, None)

StartUpdateProfile(r) ==
    \E i \in Live :
        \/ \E name \in (Names \ ShortNames) \cup {None}, email \in Emails \cup {None} :
              Arrive(r, "updateProfile", "loadUser", i, name, email, None, None, None)
        \/ \E current \in Passwords \cup {None}, password \in Passwords :
              Arrive(r, "updateProfile", "loadUser", i, None, None, None, current, password)

Start(r) == StartSignup(r) \/ StartOAuth(r) \/ StartUpdateProfile(r)

Step(r) ==
    \/ CountUsers(r)
    \/ FindExisting(r)
    \/ InsertSignup(r)
    \/ FindKnown(r)
    \/ FindEmail(r)
    \/ ProbeName(r)
    \/ InsertOAuth(r)
    \/ LoadUser(r)
    \/ SaveUser(r)

\* The process dies: every request ends where it is.
Crash ==
    /\ \E r \in Reqs : Busy(r)
    /\ req' = [r \in Reqs |-> Idle]
    /\ UNCHANGED <<users, signins>>

Next ==
    \/ \E r \in Reqs : Start(r) \/ Step(r)
    \/ \E i \in UserIds : DropAccount(i)
    \/ Crash

Spec == Init /\ [][Next]_vars

\* MongoDB answers every call.
FairSpec == Spec /\ \A r \in Reqs : WF_vars(Step(r))

-----------------------------------------------------------------------------
\* However signups, Google sign-ins and renames race, no two accounts share a
\* username, an email or a Google identity (user.ts:46-48, models/user.ts:5-11).
AccountsUnique ==
    \A i, j \in Live : i # j =>
        /\ users[i].username # users[j].username
        /\ users[i].email # users[j].email
        /\ users[i].googleId = None \/ users[i].googleId # users[j].googleId

\* A sign-in with Google reaches the account created for that identity and never
\* one that was registered with a password (oauth.ts:42-56).
OAuthNeverLinks ==
    \A s \in signins : s[2] \in Live =>
        users[s[2]].via = "oauth" /\ users[s[2]].googleId = s[1]

\* Accounts made by signup, seen as a capped collection (user.ts:38-77).
SignupCap == INSTANCE CappedCollection WITH
    Items <- UserIds,
    Creators <- Reqs,
    Limit <- MaxUsers,
    items <- { i \in Live : users[i].via = "signup" },
    admitted <- { r \in Reqs : At(r, "findExisting") \/ At(r, "insertSignup") }

\* Signups race past the cap by no more than their number, and accounts that
\* came by Google only leave them less room (user.ts:40-45).
SignupsCapped == SignupCap!Spec

\* Every request is answered: the username probes end (oauth.ts:30-36).
RequestsAnswered == \A r \in Reqs : Busy(r) ~> ~ Busy(r)
=============================================================================
