------------------------------ MODULE Sessions ------------------------------
(***************************************************************************)
(* Users, sessions and the three handlers that work on them: create_user,  *)
(* authorize and refresh_token.  A request is a task of its own and every  *)
(* repository call one step, so requests interleave between their calls    *)
(* and the clock moves on while they wait for the pool.                    *)
(*                                                                         *)
(* A session is identified by its refresh token, a fresh uuid: here the    *)
(* number of sessions created so far.  Passwords are abstracted to whether *)
(* they match, and last_use_ms, which nothing reads, is left out.          *)
(***************************************************************************)
EXTENDS Naturals, FiniteSets

CONSTANTS
  User,         \* the usernames
  NoUser,
  Request,      \* bound: the requests handled at the same time
  Lifetime,     \* SESSION_DURATION_MILLIS, in ticks of the clock
  MaxTime,      \* bound: how long the clock runs
  MaxSessions,  \* bound: how many sessions are created
  MaxFaults     \* bound: how many calls to the database fail

ASSUME NoUserAssumption == NoUser \notin User
ASSUME RequestAssumption == IsFiniteSet(Request)
ASSUME BoundsAssumption ==
  /\ Lifetime \in Nat \ {0}
  /\ MaxTime \in Nat
  /\ MaxSessions \in Nat
  /\ MaxFaults \in Nat

VARIABLES
  now,       \* the clock
  users,     \* table users
  sessions,  \* table user_sessions
  issued,    \* how many sessions have been created
  owner,     \* history: the user each session was created for
  request,   \* the requests, with the locals of their handlers
  faults     \* how many calls have failed, bounded by MaxFaults

vars == <<now, users, sessions, issued, owner, request, faults>>

SessionId == 1 .. MaxSessions
Session == [id : SessionId, user : User, expires : 0 .. MaxTime + Lifetime]

\* What a handler remembers of its request between two calls.
Handler == [step : {"idle", "created", "known", "refresh", "used", "granted", "denied"},
            user : User \cup {NoUser},
            token : 0 .. MaxSessions,
            at : 0 .. MaxTime]

\* A user has one row at most.
SessionsTypeOK ==
  /\ now \in 0 .. MaxTime
  /\ users \in SUBSET User
  /\ sessions \in SUBSET Session
  /\ \A s, t \in sessions : s.user = t.user => s = t
  /\ issued \in 0 .. MaxSessions
  /\ owner \in [SessionId -> User \cup {NoUser}]
  /\ request \in [Request -> Handler]
  /\ faults \in 0 .. MaxFaults

NoRequest == [step |-> "idle", user |-> NoUser, token |-> 0, at |-> 0]

Init ==
  /\ now = 0
  /\ users = {}
  /\ sessions = {}
  /\ issued = 0
  /\ owner = [i \in SessionId |-> NoUser]
  /\ request = [r \in Request |-> NoRequest]
  /\ faults = 0

Tick ==
  /\ now < MaxTime
  /\ now' = now + 1
  /\ UNCHANGED <<users, sessions, issued, owner, request, faults>>

\* The request r moves on to a step, with the given changes of its locals.
Move(r, locals) == request' = [request EXCEPT ![r] = locals]
Deny(r) == Move(r, [NoRequest EXCEPT !.step = "denied"])
Grant(r) == Move(r, [request[r] EXCEPT !.step = "granted"])

-----------------------------------------------------------------------------
(* The repository. *)

\* Mutant: the index is missing.
NoIndex(rows) == TRUE

\* The unique index on user_id.
UniqueUsers(rows) == \A s, t \in rows : s.user = t.user => s = t

\* Mutant: the primary key of the row is not overwritten.
UpsertColumns(session) ==
  sessions' = {s \in sessions : s.user # session.user} \cup
    IF \E s \in sessions : s.user = session.user
    THEN {[session EXCEPT !.id = s.id] : s \in {t \in sessions : t.user = session.user}}
    ELSE {session}

\* Mutant: a row of its own for each session.
InsertSession(session) == sessions' = sessions \cup {session}

\* UserRepository::create_session: the row of the user, if any, is overwritten,
\* its primary key included.
Upsert(session) ==
  sessions' = {s \in sessions : s.user # session.user} \cup {session}

\* Mutant: the filter by expiration is missing.
UsableForEver(id, at) == {s \in sessions : s.id = id}

\* The row that use_session selects.
Usable(id, at) == {s \in sessions : s.id = id /\ at < s.expires}

\* Mutant: a refresh prolongs the session.
UpdateAndProlong(session) ==
  {[s EXCEPT !.user = session.user, !.expires = now + Lifetime] : s \in sessions}

\* The table after the update of use_session, which has no filter: it gives
\* every row the columns of the session but its primary key.
UpdateAll(session) ==
  {[s EXCEPT !.user = session.user, !.expires = session.expires] : s \in sessions}

-----------------------------------------------------------------------------
(* create_user. *)

\* UserRepository::create; the unique index refuses a name that is taken.
CreateUser(r, u) ==
  /\ request[r].step = "idle"
  /\ \/ u \in users /\ Deny(r) /\ UNCHANGED users
     \/ /\ u \notin users
        /\ users' = users \cup {u}
        /\ Move(r, [NoRequest EXCEPT !.step = "created", !.user = u])
  /\ UNCHANGED <<now, sessions, issued, owner, faults>>

\* The new user is read back, and no token is handed out.
GetNewUser(r) ==
  /\ request[r].step = "created"
  /\ Move(r, NoRequest)
  /\ UNCHANGED <<now, users, sessions, issued, owner, faults>>

-----------------------------------------------------------------------------
(* authorize. *)

\* The authorizations that will create a session are within the bound.
Pending == {r \in Request : request[r].step = "known"}
Room == issued + Cardinality(Pending) < MaxSessions

\* UserRepository::get and the check of the password, which does not match or
\* does.  The clock is read before the call that creates the session.
GetUser(r, u) ==
  /\ request[r].step = "idle"
  /\ \/ Deny(r)
     \/ u \in users /\ Room /\ Move(r, [NoRequest EXCEPT !.step = "known", !.user = u, !.at = now])
  /\ UNCHANGED <<now, users, sessions, issued, owner, faults>>

CreateSession(r) ==
  /\ request[r].step = "known"
  /\ issued' = issued + 1
  /\ owner' = [owner EXCEPT ![issued'] = request[r].user]
  /\ Upsert([id |-> issued', user |-> request[r].user,
             expires |-> request[r].at + Lifetime])
  /\ Move(r, [request[r] EXCEPT !.step = "granted", !.token = issued'])
  /\ UNCHANGED <<now, users, faults>>

-----------------------------------------------------------------------------
(* refresh_token. *)

\* The body may hold any string: the token of a session, of one that is over, or
\* 0, which is nobody's.  The clock is read when the handler starts.
Refresh(r) ==
  /\ request[r].step = "idle"
  /\ \E i \in 0 .. issued :
       Move(r, [NoRequest EXCEPT !.step = "refresh", !.token = i, !.at = now])
  /\ UNCHANGED <<now, users, sessions, issued, owner, faults>>

\* UserRepository::use_session, one transaction.
UseSession(r) ==
  /\ request[r].step = "refresh"
  /\ \E s \in Usable(request[r].token, request[r].at) :
       /\ UniqueUsers(UpdateAll(s))
       /\ sessions' = UpdateAll(s)
       /\ Move(r, [request[r] EXCEPT !.step = "used", !.user = s.user])
  /\ UNCHANGED <<now, users, issued, owner, faults>>

\* There is no such session or it is expired.
NoSession(r) ==
  /\ request[r].step = "refresh"
  /\ Usable(request[r].token, request[r].at) = {}
  /\ Deny(r)
  /\ UNCHANGED <<now, users, sessions, issued, owner, faults>>

\* The update breaks the unique index and the transaction is rolled back.
UseSessionConflict(r) ==
  /\ request[r].step = "refresh"
  /\ \E s \in Usable(request[r].token, request[r].at) : ~UniqueUsers(UpdateAll(s))
  /\ Deny(r)
  /\ UNCHANGED <<now, users, sessions, issued, owner, faults>>

\* UserRepository::get_by_id and make_token.
GetById(r) ==
  /\ request[r].step = "used"
  /\ request[r].user \in users
  /\ Grant(r)
  /\ UNCHANGED <<now, users, sessions, issued, owner, faults>>

-----------------------------------------------------------------------------
\* A call to the database fails.
Fail(r) ==
  /\ request[r].step \in {"created", "known", "refresh", "used"}
  /\ faults < MaxFaults
  /\ faults' = faults + 1
  /\ Deny(r)
  /\ UNCHANGED <<now, users, sessions, issued, owner>>

\* The response is on its way.
Respond(r) ==
  /\ request[r].step \in {"granted", "denied"}
  /\ Move(r, NoRequest)
  /\ UNCHANGED <<now, users, sessions, issued, owner, faults>>

Next ==
  \/ Tick
  \/ \E r \in Request :
       \/ \E u \in User : CreateUser(r, u) \/ GetUser(r, u)
       \/ GetNewUser(r)
       \/ CreateSession(r)
       \/ Refresh(r) \/ UseSession(r) \/ NoSession(r) \/ UseSessionConflict(r)
       \/ GetById(r)
       \/ Fail(r)
       \/ Respond(r)

Spec == Init /\ [][Next]_vars

-----------------------------------------------------------------------------
(* Properties. *)

\* The table has one session for each user that was ever authorized, the last
\* one: older refresh tokens are dead, however the authorizations interleave.
LatestSessionOnly ==
  {s.id : s \in sessions} =
    {i \in 1 .. issued : \A j \in i + 1 .. issued : owner[j] # owner[i]}

\* A refresh token only ever gets access tokens for the user it was issued to.
GrantedToOwner ==
  \A r \in Request : request[r].step = "granted" => request[r].user = owner[request[r].token]

\* A session is never prolonged nor handed to another user, by the refreshes of
\* its own user or of others.
SessionFixed ==
  [][\A s \in sessions, t \in sessions' : s.id = t.id => s = t]_vars

\* A session lets its user refresh the access token until it expires: a
\* refresh with a live session is not answered by a refusal of the credentials.
LiveSessionRefreshes ==
  [][\A r \in Request :
       /\ request[r].step = "refresh"
       /\ Usable(request[r].token, request[r].at) # {}
       => request'[r].step # "denied"]_vars

\* The token of each user, and the requests, as users see them: a request is
\* served by the call that decides on it.
Good == [u \in User |->
  IF \E s \in sessions : s.user = u
  THEN LET s == CHOOSE s \in sessions : s.user = u IN [token |-> s.id, ends |-> s.expires]
  ELSE [token |-> 0, ends |-> 0]]

Seen(x) ==
  IF x.step \in {"known", "refresh"} THEN [x EXCEPT !.step = "asked"]
  ELSE IF x.step \in {"used", "granted"} THEN [x EXCEPT !.step = "served"]
  ELSE NoRequest

Uses == [r \in Request |-> Seen(request[r])]

RefreshTokens == INSTANCE Tokens WITH good <- Good, use <- Uses

\* One token of a user is good, the last; it is never prolonged; who is served
\* has logged in or come with a good token before it ended, though the clock is
\* read before the wait for the connection: authorize and refresh_token.
ImplementsTokens == RefreshTokens!Spec

=============================================================================
