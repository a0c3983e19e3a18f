--------------------------- MODULE Sessions_proofs ---------------------------
(***************************************************************************)
(* Proofs about users and sessions, for any users and requests, any        *)
(* lifetime of a session and any number of failures.                       *)
(***************************************************************************)
EXTENDS Sessions, FiniteSetTheorems, TLAPS

-----------------------------------------------------------------------------
(* The inductive invariant. *)

\* The sessions that the authorizations under way will create are in the bound.
Promised == issued + Cardinality(Pending) <= MaxSessions

\* A row of the table belongs to the user its token was issued to.
RowsOwned ==
  \A s \in sessions : s.id \in 1 .. issued /\ owner[s.id] = s.user

\* A handler that has found its session has a token that was issued, and a user
\* that the token belongs to.
HandlerOK(x) ==
  /\ x.step = "known" => x.user \in User
  /\ x.step = "refresh" => x.token \in 0 .. issued
  /\ x.step \in {"used", "granted"} => x.token \in 1 .. issued /\ x.user = owner[x.token]

SessionsInv ==
  /\ SessionsTypeOK
  /\ Promised
  /\ UniqueUsers(sessions)
  /\ RowsOwned
  /\ LatestSessionOnly
  /\ \A r \in Request : HandlerOK(request[r])

\* Before the first request there is neither a session nor a promise of one.
LEMMA SessionsInit == ASSUME Init PROVE SessionsInv
<1> USE BoundsAssumption, NoUserAssumption DEF Init, NoRequest
<1>1. SessionsTypeOK
  BY DEF SessionsTypeOK, Handler
<1>2. Pending = {}
  BY DEF Pending
<1>3. Promised
  BY <1>2, FS_EmptySet DEF Promised
<1>4. UniqueUsers(sessions) /\ RowsOwned /\ LatestSessionOnly
  BY DEF UniqueUsers, RowsOwned, LatestSessionOnly
<1>5. \A r \in Request : HandlerOK(request[r])
  BY DEF HandlerOK
<1> QED
  BY <1>1, <1>3, <1>4, <1>5 DEF SessionsInv

-----------------------------------------------------------------------------
(* The requests. *)

\* A move changes the locals of one request.
LEMMA MoveFacts ==
  ASSUME SessionsTypeOK, NEW r \in Request, NEW x \in Handler, Move(r, x)
  PROVE  /\ request' \in [Request -> Handler]
         /\ \A q \in Request : request'[q] = (IF q = r THEN x ELSE request[q])
BY DEF Move, SessionsTypeOK

\* A request that moves to any other step than "known" leaves the promises, if
\* it was among them.
LEMMA PendingLess ==
  ASSUME SessionsTypeOK, NEW r \in Request, NEW x \in Handler, Move(r, x), x.step # "known"
  PROVE  /\ Cardinality(Pending) \in Nat
         /\ Cardinality(Pending') \in Nat
         /\ Cardinality(Pending') <= Cardinality(Pending)
         /\ r \in Pending => Cardinality(Pending') = Cardinality(Pending) - 1
<1>1. IsFiniteSet(Pending)
  BY RequestAssumption, FS_Subset DEF Pending
<1>2. Pending' = Pending \ {r}
  BY MoveFacts DEF Pending
<1>3. r \notin Pending => Pending' = Pending
  BY <1>2
<1>4. /\ r \in Pending => Cardinality(Pending') = Cardinality(Pending) - 1
      /\ IsFiniteSet(Pending')
  BY <1>1, <1>2, FS_RemoveElement
<1> QED
  BY <1>1, <1>3, <1>4, FS_CardinalityType

\* A request that moves to "known" is one more promise at most.
LEMMA PendingMore ==
  ASSUME SessionsTypeOK, NEW r \in Request, NEW x \in Handler, Move(r, x), x.step = "known"
  PROVE  /\ Cardinality(Pending) \in Nat
         /\ Cardinality(Pending') \in Nat
         /\ Cardinality(Pending') <= Cardinality(Pending) + 1
<1>1. IsFiniteSet(Pending)
  BY RequestAssumption, FS_Subset DEF Pending
<1>2. Pending' = Pending \cup {r}
  BY MoveFacts DEF Pending
<1>3. /\ IsFiniteSet(Pending')
      /\ Cardinality(Pending') = Cardinality(Pending)
         \/ Cardinality(Pending') = Cardinality(Pending) + 1
  BY <1>1, <1>2, FS_AddElement
<1> QED
  BY <1>1, <1>3, FS_CardinalityType

\* A step that leaves the sessions alone keeps the invariant if the request
\* it moves is in order.
LEMMA QuietStep ==
  ASSUME SessionsInv, NEW r \in Request, NEW x \in Handler, Move(r, x),
         UNCHANGED <<now, sessions, issued, owner>>,
         users' \in SUBSET User, faults' \in 0 .. MaxFaults,
         HandlerOK(x), x.step = "known" => Room
  PROVE  SessionsInv'
<1> USE DEF SessionsInv
<1>1. SessionsTypeOK'
  BY MoveFacts DEF SessionsTypeOK
<1>2. issued \in Nat /\ MaxSessions \in Nat
  BY BoundsAssumption DEF SessionsTypeOK
<1>4. Promised'
  <2>1. CASE x.step = "known"
    BY <1>2, <2>1, PendingMore DEF Promised, Room
  <2>2. CASE x.step # "known"
    BY <1>2, <2>2, PendingLess DEF Promised
  <2> QED
    BY <2>1, <2>2
<1>5. UniqueUsers(sessions)' /\ RowsOwned' /\ LatestSessionOnly'
  BY DEF UniqueUsers, RowsOwned, LatestSessionOnly
<1>6. (\A q \in Request : HandlerOK(request[q]))'
  BY MoveFacts DEF HandlerOK
<1> QED
  BY <1>1, <1>4, <1>5, <1>6

-----------------------------------------------------------------------------
(* The sessions. *)

\* What becomes of the locals of a request that is granted a new session.
LEMMA GrantHandler ==
  ASSUME NEW h \in Handler, NEW n \in 0 .. MaxSessions
  PROVE  LET x == [h EXCEPT !.step = "granted", !.token = n]
         IN x \in Handler /\ x.step = "granted" /\ x.token = n /\ x.user = h.user
BY DEF Handler

\* The new session takes the place of its user's former one.
LEMMA CreateSessionStep ==
  ASSUME SessionsInv, NEW r \in Request, CreateSession(r) PROVE SessionsInv'
<1> USE DEF SessionsInv
<1>n. PICK n : n = issued + 1
  OBVIOUS
<1>u. PICK u : u = request[r].user
  OBVIOUS
<1>new. PICK new : new = [id |-> n, user |-> u, expires |-> request[r].at + Lifetime]
  OBVIOUS
<1>x. PICK x : x = [request[r] EXCEPT !.step = "granted", !.token = n]
  OBVIOUS
<1>1. /\ request[r] \in Handler /\ request[r].step = "known" /\ u \in User
      /\ issued' = n /\ owner' = [owner EXCEPT ![n] = u]
      /\ sessions' = {s \in sessions : s.user # u} \cup {new}
      /\ Move(r, x)
      /\ UNCHANGED <<now, users, faults>>
  BY <1>n, <1>u, <1>new, <1>x DEF CreateSession, Upsert, SessionsTypeOK, HandlerOK
<1>2. r \in Pending
  BY <1>1 DEF Pending
<1>3. issued \in Nat /\ MaxSessions \in Nat
  BY BoundsAssumption DEF SessionsTypeOK
<1>4. n \in 1 .. MaxSessions
  <2>1. Cardinality(Pending) # 0 /\ Cardinality(Pending) \in Nat
    BY <1>2, RequestAssumption, FS_Subset, FS_EmptySet, FS_CardinalityType DEF Pending
  <2> QED
    BY <1>n, <1>3, <2>1 DEF Promised
<1>5. x \in Handler /\ x.step = "granted" /\ x.token = n /\ x.user = u
  <2>1. n \in 0 .. MaxSessions
    BY <1>3, <1>4
  <2> HIDE DEF SessionsInv
  <2> QED
    BY <1>u, <1>x, <1>1, <2>1, GrantHandler
<1>6. Promised'
  <2>1. /\ Cardinality(Pending) \in Nat /\ Cardinality(Pending') \in Nat
        /\ Cardinality(Pending') = Cardinality(Pending) - 1
    BY <1>1, <1>2, <1>5, PendingLess
  <2> QED
    BY <1>n, <1>1, <1>3, <2>1 DEF Promised
<1>7. new \in Session
  BY <1>new, <1>1, <1>4, BoundsAssumption DEF Session, SessionId, Handler
<1>8. SessionsTypeOK'
  <2>1. \A s, t \in sessions' : s.user = t.user => s = t
    BY <1>new, <1>1 DEF UniqueUsers
  <2>2. sessions' \in SUBSET Session
    BY <1>1, <1>7 DEF SessionsTypeOK
  <2> QED
    BY <1>1, <1>3, <1>4, <1>5, <2>1, <2>2, MoveFacts DEF SessionsTypeOK, SessionId
<1>9. \A i \in 1 .. n : owner'[i] = (IF i = n THEN u ELSE owner[i])
  BY <1>1, <1>3, <1>4 DEF SessionsTypeOK, SessionId
<1>10. \A s \in sessions : s.id \in 1 .. issued /\ s.id # n /\ owner[s.id] = s.user
  BY <1>n, <1>3 DEF RowsOwned
<1>11. RowsOwned'
  BY <1>n, <1>new, <1>1, <1>3, <1>9, <1>10 DEF RowsOwned
<1>12. UniqueUsers(sessions)'
  BY <1>new, <1>1 DEF UniqueUsers
<1>13. LatestSessionOnly'
  <2>1. {s.id : s \in sessions'} = {s.id : s \in {t \in sessions : t.user # u}} \cup {n}
    BY <1>new, <1>1
  <2>2. {s.id : s \in {t \in sessions : t.user # u}} =
          {i \in {s.id : s \in sessions} : owner[i] # u}
    BY <1>10
  <2>3. {i \in {s.id : s \in sessions} : owner[i] # u} =
          {i \in 1 .. issued : owner[i] # u /\ \A j \in i + 1 .. issued : owner[j] # owner[i]}
    BY DEF LatestSessionOnly
  <2>4. \A i \in 1 .. issued :
          (\A j \in i + 1 .. n : owner'[j] # owner'[i])
            <=> owner[i] # u /\ \A j \in i + 1 .. issued : owner[j] # owner[i]
    BY <1>n, <1>3, <1>9
  <2>5. \A i : i \in 1 .. n <=> i = n \/ i \in 1 .. issued
    BY <1>n, <1>3
  <2>6. {i \in 1 .. n : \A j \in i + 1 .. n : owner'[j] # owner'[i]} =
          {i \in 1 .. issued : owner[i] # u /\ \A j \in i + 1 .. issued : owner[j] # owner[i]}
            \cup {n}
    BY <1>n, <1>3, <2>4, <2>5
  <2> QED
    BY <1>1, <2>1, <2>2, <2>3, <2>6 DEF LatestSessionOnly
<1>14. (\A q \in Request : HandlerOK(request[q]))'
  <2> SUFFICES ASSUME NEW q \in Request PROVE HandlerOK(request[q])'
    OBVIOUS
  <2>1. request'[q] = IF q = r THEN x ELSE request[q]
    BY <1>1, <1>5, MoveFacts
  <2>2. CASE q = r
    BY <1>n, <1>1, <1>3, <1>5, <1>9, <2>1, <2>2 DEF HandlerOK
  <2>3. CASE q # r
    BY <1>n, <1>1, <1>3, <1>9, <2>1, <2>3 DEF HandlerOK
  <2> QED
    BY <2>2, <2>3
<1> QED
  BY <1>6, <1>8, <1>11, <1>12, <1>13, <1>14

\* The update of a session is only accepted if there is no other, and then it
\* changes nothing.
LEMMA UpdateChangesNothing ==
  ASSUME SessionsInv, NEW s \in sessions, UniqueUsers(UpdateAll(s)) PROVE UpdateAll(s) = sessions
<1> USE DEF SessionsInv
<1>1. \A t \in sessions : t \in Session
  BY DEF SessionsTypeOK
<1>2. \A t \in sessions : [t EXCEPT !.user = s.user, !.expires = s.expires] \in UpdateAll(s)
  BY DEF UpdateAll
<1>3. [s EXCEPT !.user = s.user, !.expires = s.expires] = s
  BY <1>1 DEF Session
<1>4. \A t \in sessions : [t EXCEPT !.user = s.user, !.expires = s.expires] = s
  BY <1>1, <1>2, <1>3 DEF UniqueUsers, Session
<1>5. \A t \in sessions : t.id = s.id
  BY <1>1, <1>4 DEF Session
<1>6. \A t \in sessions : t = s
  BY <1>5 DEF RowsOwned, UniqueUsers
<1>7. sessions = {s}
  BY <1>6
<1> QED
  BY <1>3, <1>7 DEF UpdateAll

\* A session in use answers with the user it belongs to.
LEMMA UseSessionStep ==
  ASSUME SessionsInv, NEW r \in Request, UseSession(r)
  PROVE  SessionsInv' /\ sessions' = sessions
<1>1. PICK s \in Usable(request[r].token, request[r].at) :
        /\ UniqueUsers(UpdateAll(s))
        /\ sessions' = UpdateAll(s)
        /\ Move(r, [request[r] EXCEPT !.step = "used", !.user = s.user])
  BY DEF UseSession
<1>2. s \in sessions /\ s.id = request[r].token /\ s \in Session
  BY DEF Usable, SessionsInv, SessionsTypeOK
<1>3. sessions' = sessions
  BY <1>1, <1>2, UpdateChangesNothing
<1> DEFINE x == [request[r] EXCEPT !.step = "used", !.user = s.user]
<1>4. request[r] \in Handler /\ request[r].step = "refresh"
  BY DEF UseSession, SessionsInv, SessionsTypeOK
<1>5. x \in Handler /\ x.step = "used" /\ x.user = s.user /\ x.token = request[r].token
  BY <1>2, <1>4 DEF Handler, Session
<1>6. HandlerOK(x)
  BY <1>2, <1>4, <1>5 DEF HandlerOK, SessionsInv, RowsOwned
<1>7. UNCHANGED <<now, users, issued, owner, faults>>
  BY DEF UseSession
<1>8. users' \in SUBSET User /\ faults' \in 0 .. MaxFaults
  BY <1>7 DEF SessionsInv, SessionsTypeOK
<1> QED
  BY <1>1, <1>3, <1>5, <1>6, <1>7, <1>8, QuietStep

-----------------------------------------------------------------------------
(* The theorems. *)

\* Every step keeps the invariant.
LEMMA SessionsStep == ASSUME SessionsInv, [Next]_vars PROVE SessionsInv'
<1> DEFINE Same == UNCHANGED <<now, sessions, issued, owner>>
<1>type. ASSUME NEW r \in Request
         PROVE  request[r] \in Handler /\ HandlerOK(request[r])
  BY DEF SessionsInv, SessionsTypeOK
<1>kept. /\ users \in SUBSET User /\ now \in 0 .. MaxTime /\ faults \in 0 .. MaxFaults
         /\ issued \in 0 .. MaxSessions
  BY DEF SessionsInv, SessionsTypeOK
<1>const. MaxSessions \in Nat /\ MaxTime \in Nat /\ MaxFaults \in Nat
  BY BoundsAssumption
<1>idle. NoRequest \in Handler /\ HandlerOK(NoRequest)
  BY <1>const DEF NoRequest, Handler, HandlerOK
<1>deny. ASSUME NEW r \in Request, Deny(r), Same,
                users' \in SUBSET User, faults' \in 0 .. MaxFaults
         PROVE  SessionsInv'
  <2> DEFINE x == [NoRequest EXCEPT !.step = "denied"]
  <2>1. x \in Handler /\ HandlerOK(x) /\ x.step # "known"
    BY <1>idle DEF NoRequest, Handler, HandlerOK
  <2> QED
    BY <1>deny, <2>1, QuietStep DEF Deny
<1>1. CASE Tick
  <2>1. UNCHANGED <<users, sessions, issued, owner, request, faults>> /\ now' \in 0 .. MaxTime
    BY <1>1, <1>kept, <1>const DEF Tick
  <2> QED
    BY <2>1 DEF SessionsInv, SessionsTypeOK, Promised, Pending, UniqueUsers, RowsOwned,
                LatestSessionOnly, HandlerOK
<1>2. ASSUME NEW r \in Request, NEW u \in User, CreateUser(r, u) PROVE SessionsInv'
  <2>1. CASE Deny(r) /\ UNCHANGED users
    BY <1>2, <1>kept, <1>deny, <2>1 DEF CreateUser
  <2>2. CASE users' = users \cup {u} /\ Move(r, [NoRequest EXCEPT !.step = "created", !.user = u])
    <3> DEFINE x == [NoRequest EXCEPT !.step = "created", !.user = u]
    <3>1. x \in Handler /\ HandlerOK(x) /\ x.step # "known"
      BY <1>idle DEF NoRequest, Handler, HandlerOK
    <3>2. Same /\ users' \in SUBSET User /\ faults' \in 0 .. MaxFaults
      BY <1>2, <1>kept, <2>2 DEF CreateUser
    <3> QED
      BY <2>2, <3>1, <3>2, QuietStep
  <2> QED
    BY <1>2, <2>1, <2>2 DEF CreateUser
<1>3. ASSUME NEW r \in Request, NEW u \in User, GetUser(r, u) PROVE SessionsInv'
  <2>1. CASE Deny(r)
    BY <1>3, <1>kept, <1>deny, <2>1 DEF GetUser
  <2>2. CASE Room /\ Move(r, [NoRequest EXCEPT !.step = "known", !.user = u, !.at = now])
    <3> DEFINE x == [NoRequest EXCEPT !.step = "known", !.user = u, !.at = now]
    <3>1. x \in Handler /\ HandlerOK(x)
      BY <1>idle, <1>kept DEF NoRequest, Handler, HandlerOK
    <3>2. Same /\ users' \in SUBSET User /\ faults' \in 0 .. MaxFaults
      BY <1>3, <1>kept DEF GetUser
    <3> QED
      BY <2>2, <3>1, <3>2, QuietStep
  <2> QED
    BY <1>3, <2>1, <2>2 DEF GetUser
<1>4. ASSUME NEW r \in Request, GetNewUser(r) \/ Respond(r) PROVE SessionsInv'
  <2>1. Same /\ users' \in SUBSET User /\ faults' \in 0 .. MaxFaults /\ Move(r, NoRequest)
    BY <1>4, <1>kept DEF GetNewUser, Respond
  <2>2. NoRequest.step # "known"
    BY DEF NoRequest
  <2> QED
    BY <1>idle, <2>1, <2>2, QuietStep
<1>5. ASSUME NEW r \in Request, CreateSession(r) PROVE SessionsInv'
  BY <1>5, CreateSessionStep
<1>6. ASSUME NEW r \in Request, Refresh(r) PROVE SessionsInv'
  <2>1. PICK i \in 0 .. issued :
          Move(r, [NoRequest EXCEPT !.step = "refresh", !.token = i, !.at = now])
    BY <1>6 DEF Refresh
  <2> DEFINE x == [NoRequest EXCEPT !.step = "refresh", !.token = i, !.at = now]
  <2>2. i \in 0 .. MaxSessions
    BY <1>kept, <1>const
  <2>3. x \in Handler /\ HandlerOK(x) /\ x.step # "known"
    BY <1>kept, <1>idle, <2>2 DEF NoRequest, Handler, HandlerOK
  <2>4. Same /\ users' \in SUBSET User /\ faults' \in 0 .. MaxFaults
    BY <1>6, <1>kept DEF Refresh
  <2> QED
    BY <2>1, <2>3, <2>4, QuietStep
<1>7. ASSUME NEW r \in Request, UseSession(r) PROVE SessionsInv'
  BY <1>7, UseSessionStep
<1>8. ASSUME NEW r \in Request, NoSession(r) \/ UseSessionConflict(r) PROVE SessionsInv'
  BY <1>8, <1>kept, <1>deny DEF NoSession, UseSessionConflict
<1>9. ASSUME NEW r \in Request, GetById(r) PROVE SessionsInv'
  <2> DEFINE x == [request[r] EXCEPT !.step = "granted"]
  <2>1. request[r].step = "used" /\ Move(r, x) /\ Same
        /\ users' \in SUBSET User /\ faults' \in 0 .. MaxFaults
    BY <1>9, <1>kept DEF GetById, Grant
  <2>2. x \in Handler /\ HandlerOK(x) /\ x.step # "known"
    BY <1>type, <2>1 DEF Handler, HandlerOK
  <2> QED
    BY <2>1, <2>2, QuietStep
<1>10. ASSUME NEW r \in Request, Fail(r) PROVE SessionsInv'
  <2>1. faults' \in 0 .. MaxFaults /\ users' \in SUBSET User /\ Same /\ Deny(r)
    BY <1>10, <1>kept, <1>const DEF Fail
  <2> QED
    BY <1>deny, <2>1
<1>11. CASE UNCHANGED vars
  BY <1>11 DEF vars, SessionsInv, SessionsTypeOK, Promised, Pending, UniqueUsers, RowsOwned,
               LatestSessionOnly, HandlerOK
<1> QED
  BY <1>1, <1>2, <1>3, <1>4, <1>5, <1>6, <1>7, <1>8, <1>9, <1>10, <1>11 DEF Next

\* The inductive invariant: rows, tokens and requests agree on the users.
THEOREM SessionsInvariant == Spec => []SessionsInv
<1>1. Init => SessionsInv
  BY SessionsInit
<1>2. SessionsInv /\ [Next]_vars => SessionsInv'
  BY SessionsStep
<1> QED
  BY <1>1, <1>2, PTL DEF Spec

\* Every variable keeps its type: no more sessions are created than promised.
THEOREM SessionsTypeCorrect == Spec => []SessionsTypeOK
<1>1. SessionsInv => SessionsTypeOK
  BY DEF SessionsInv
<1> QED
  BY <1>1, SessionsInvariant, PTL

\* The table holds the last session of each user, and no other.
THEOREM LatestSessionOnlyHolds == Spec => []LatestSessionOnly
<1>1. SessionsInv => LatestSessionOnly
  BY DEF SessionsInv
<1> QED
  BY <1>1, SessionsInvariant, PTL

\* A refresh token serves the user it was issued to.
THEOREM GrantedToOwnerHolds == Spec => []GrantedToOwner
<1>1. SessionsInv => GrantedToOwner
  BY DEF SessionsInv, HandlerOK, GrantedToOwner
<1> QED
  BY <1>1, SessionsInvariant, PTL

\* No step alters a session that stays: the index refuses the update that would.
THEOREM SessionFixedHolds == Spec => SessionFixed
<1> DEFINE Fixed == \A s \in sessions, t \in sessions' : s.id = t.id => s = t
<1>1. SessionsInv /\ [Next]_vars => [Fixed]_vars
  <2> SUFFICES ASSUME SessionsInv, Next PROVE Fixed
    OBVIOUS
  <2>1. \A s, t \in sessions : s.id = t.id => s = t
    BY DEF SessionsInv, RowsOwned, UniqueUsers
  <2>2. ASSUME NEW r \in Request, UseSession(r) PROVE sessions' = sessions
    BY <2>2, UseSessionStep
  <2>3. ASSUME NEW r \in Request, CreateSession(r) PROVE Fixed
    <3>0. issued' = issued + 1
      BY <2>3 DEF CreateSession
    <3> PICK new : new = [id |-> issued + 1, user |-> request[r].user,
                          expires |-> request[r].at + Lifetime]
      OBVIOUS
    <3>1. /\ sessions' = {s \in sessions : s.user # request[r].user} \cup {new}
          /\ new.id = issued + 1
      BY <2>3, <3>0 DEF CreateSession, Upsert
    <3>2. \A s \in sessions : s.id # issued + 1
      BY DEF SessionsInv, SessionsTypeOK, RowsOwned
    <3> QED
      BY <2>1, <3>1, <3>2
  <2>4. CASE UNCHANGED sessions
    BY <2>1, <2>4
  <2> QED
    BY <2>2, <2>3, <2>4
    DEF Next, Tick, CreateUser, GetUser, GetNewUser, Refresh, NoSession, UseSessionConflict,
        GetById, Fail, Respond
<1> QED
  BY <1>1, SessionsInvariant, PTL DEF Spec, SessionFixed

-----------------------------------------------------------------------------
(* The refinement of Tokens. *)

\* The row of a user is the token that is good.
LEMMA GoodIs ==
  ASSUME UniqueUsers(sessions), NEW s \in sessions, s.user \in User
  PROVE  Good[s.user] = [token |-> s.id, ends |-> s.expires]
<1>1. \A t \in sessions : t.user = s.user => t = s
  BY DEF UniqueUsers
<1>2. s = CHOOSE t \in sessions : t.user = s.user
  BY <1>1
<1> QED
  BY <1>2 DEF Good

\* A move is seen at one request.
LEMMA MoveSeen ==
  ASSUME SessionsTypeOK, NEW r \in Request, NEW x \in Handler, Move(r, x)
  PROVE  Uses' = [Uses EXCEPT ![r] = Seen(x)]
<1>1. \A q \in Request : Seen(request'[q]) = IF q = r THEN Seen(x) ELSE Seen(request[q])
  BY MoveFacts
<1>2. Uses' = [q \in Request |-> Seen(request'[q])]
  BY DEF Uses, Seen
<1> QED
  BY <1>1, <1>2 DEF Uses

\* A request that moves to where users see nothing of it has left, or has not
\* been seen before.
LEMMA LeaveSeen ==
  ASSUME SessionsTypeOK, NEW r \in Request, NEW x \in Handler, Move(r, x), Seen(x) = NoRequest,
         UNCHANGED <<now, sessions, issued>>
  PROVE  RefreshTokens!Leave(r) \/ UNCHANGED RefreshTokens!vars
<1>1. Uses' = [Uses EXCEPT ![r] = NoRequest]
  BY MoveSeen
<1>2. Good' = Good
  BY DEF Good
<1>3. CASE Uses[r] = NoRequest
  <2>1. Uses' = Uses
    BY <1>1, <1>3 DEF Uses
  <2> QED
    BY <1>2, <2>1 DEF RefreshTokens!vars
<1>4. CASE Uses[r] # NoRequest
  BY <1>1, <1>2, <1>4 DEF RefreshTokens!Leave, RefreshTokens!Nothing, NoRequest
<1> QED
  BY <1>3, <1>4

\* A request comes.
LEMMA ComeSeen ==
  ASSUME SessionsTypeOK, NEW r \in Request, request[r].step = "idle",
         NEW x \in Handler, Move(r, x), x.step \in {"known", "refresh"}, x.at = now,
         UNCHANGED <<now, sessions, issued>>
  PROVE  RefreshTokens!Come(r, x.user, x.token)
<1>1. Seen(x) = [step |-> "asked", user |-> x.user, token |-> x.token, at |-> now]
  BY DEF Seen, Handler
<1>2. Uses' = [Uses EXCEPT ![r] = Seen(x)]
  BY MoveSeen
<1>3. Uses[r] = NoRequest
  BY DEF Uses, Seen
<1>4. Good' = Good
  BY DEF Good
<1> QED
  BY <1>1, <1>2, <1>3, <1>4 DEF RefreshTokens!Come, RefreshTokens!Nothing, NoRequest

\* The new row is the good token of its user, and nobody else's changes.
LEMMA CreateSessionSeen ==
  ASSUME SessionsInv, NEW r \in Request, CreateSession(r)
  PROVE  RefreshTokens!Give(r)
<1> DEFINE u == request[r].user
           new == [id |-> issued', user |-> u, expires |-> request[r].at + Lifetime]
           x == [request[r] EXCEPT !.step = "granted", !.token = issued']
<1>1. /\ request[r] \in Handler /\ request[r].step = "known" /\ u \in User
      /\ issued' = issued + 1 /\ UNCHANGED now
      /\ sessions' = {s \in sessions : s.user # u} \cup {new}
      /\ Move(r, x)
  BY DEF CreateSession, Upsert, SessionsInv, SessionsTypeOK, HandlerOK
<1>2. SessionsInv'
  BY CreateSessionStep
<1>3. x \in Handler /\ x.step = "granted"
  <2>1. issued' \in 0 .. MaxSessions
    BY <1>2 DEF SessionsInv, SessionsTypeOK
  <2> QED
    BY <1>1, <2>1, GrantHandler
<1>4. Good' = [Good EXCEPT ![u] = [token |-> issued', ends |-> request[r].at + Lifetime]]
  <2>1. new \in sessions' /\ new.user = u
    BY <1>1
  <2>2. \A s \in sessions' : s.user = u => s = new
    BY <1>2, <2>1 DEF SessionsInv, UniqueUsers
  <2>3. new = CHOOSE s \in sessions' : s.user = u
    BY <2>1, <2>2
  <2>4. Good'[u] = [token |-> issued', ends |-> request[r].at + Lifetime]
    BY <1>1, <2>1, <2>3 DEF Good
  <2>5. ASSUME NEW v \in User, v # u PROVE Good'[v] = Good[v]
    <3>1. \A s : s \in sessions' /\ s.user = v <=> s \in sessions /\ s.user = v
      BY <1>1, <2>5
    <3>2. (CHOOSE s \in sessions' : s.user = v) = (CHOOSE s \in sessions : s.user = v)
      BY <3>1
    <3> QED
      BY <3>1, <3>2 DEF Good
  <2>6. Good' = [v \in User |-> Good'[v]] /\ Good = [v \in User |-> Good[v]]
    BY DEF Good
  <2> HIDE DEF u
  <2> QED
    BY <1>1, <2>4, <2>5, <2>6
<1>5. Uses' = [Uses EXCEPT ![r] = Seen(x)]
  BY <1>1, <1>3, MoveSeen DEF SessionsInv
<1>6. Uses[r] = [request[r] EXCEPT !.step = "asked"]
  BY <1>1 DEF Uses, Seen
<1>7. Seen(x) = [Uses[r] EXCEPT !.step = "served", !.user = Uses[r].user, !.token = issued']
  BY <1>1, <1>3, <1>6 DEF Seen, Handler
<1>8. Uses[r].step = "asked" /\ Uses[r].user = u /\ Uses[r].at = request[r].at /\ u # NoUser
  BY <1>1, <1>6, NoUserAssumption DEF Handler
<1>9. RefreshTokens!Serve(r, Uses[r].user, issued')
  BY <1>5, <1>7 DEF RefreshTokens!Serve
<1> QED
  BY <1>1, <1>4, <1>8, <1>9 DEF RefreshTokens!Give

\* The row that use_session finds is the good token of its user.
LEMMA UseSessionSeen ==
  ASSUME SessionsInv, NEW r \in Request, UseSession(r)
  PROVE  RefreshTokens!Honour(r)
<1>1. PICK s \in Usable(request[r].token, request[r].at) :
        Move(r, [request[r] EXCEPT !.step = "used", !.user = s.user])
  BY DEF UseSession
<1>2. /\ s \in sessions /\ s \in Session /\ s.id = request[r].token
      /\ request[r].at < s.expires
  BY DEF Usable, SessionsInv, SessionsTypeOK
<1>3. sessions' = sessions /\ UNCHANGED <<now, issued>>
  BY UseSessionStep DEF UseSession
<1>4. request[r] \in Handler /\ request[r].step = "refresh"
  BY DEF UseSession, SessionsInv, SessionsTypeOK
<1> DEFINE x == [request[r] EXCEPT !.step = "used", !.user = s.user]
<1>5. x \in Handler /\ x.step = "used" /\ s.user \in User
  BY <1>2, <1>4 DEF Handler, Session
<1>6. Uses' = [Uses EXCEPT ![r] = Seen(x)]
  BY <1>1, <1>5, MoveSeen DEF SessionsInv
<1>7. Uses[r] = [request[r] EXCEPT !.step = "asked"]
  BY <1>4 DEF Uses, Seen
<1>8. Seen(x) = [Uses[r] EXCEPT !.step = "served", !.user = s.user, !.token = Uses[r].token]
  BY <1>4, <1>5, <1>7 DEF Seen, Handler
<1>9. /\ Uses[r].step = "asked" /\ Uses[r].token = request[r].token
      /\ Uses[r].at = request[r].at
  BY <1>4, <1>7 DEF Handler
<1>10. Good[s.user] = [token |-> s.id, ends |-> s.expires]
  BY <1>2, <1>5, GoodIs DEF SessionsInv
<1>11. Good' = Good
  BY <1>3 DEF Good
<1>12. RefreshTokens!Serve(r, s.user, Uses[r].token)
  BY <1>6, <1>8 DEF RefreshTokens!Serve
<1> QED
  BY <1>2, <1>3, <1>5, <1>9, <1>10, <1>11, <1>12 DEF RefreshTokens!Honour

LEMMA TokensInit == ASSUME Init PROVE RefreshTokens!Init
<1>1. Good = [u \in User |-> [token |-> 0, ends |-> 0]]
  BY DEF Init, Good
<1>2. Uses = [r \in Request |-> NoRequest]
  BY DEF Init, Uses, Seen, NoRequest
<1> QED
  BY <1>1, <1>2 DEF Init, RefreshTokens!Init, RefreshTokens!NoToken, RefreshTokens!Nothing, NoRequest

\* Every step is one of Tokens, or nothing that users see.
LEMMA TokensStep ==
  ASSUME SessionsInv, [Next]_vars PROVE [RefreshTokens!Next]_(RefreshTokens!vars)
<1>type. /\ SessionsTypeOK /\ MaxSessions \in Nat
         /\ \A r \in Request : request[r] \in Handler
  BY BoundsAssumption DEF SessionsInv, SessionsTypeOK
<1>leave. ASSUME NEW r \in Request, NEW x \in Handler, Move(r, x), Seen(x) = NoRequest,
                 UNCHANGED <<now, sessions, issued>>
          PROVE  [RefreshTokens!Next]_(RefreshTokens!vars)
  BY <1>type, <1>leave, LeaveSeen DEF RefreshTokens!Next
<1>idle. NoRequest \in Handler /\ Seen(NoRequest) = NoRequest
  BY <1>type, BoundsAssumption DEF NoRequest, Handler, Seen
<1>deny. ASSUME NEW r \in Request, Deny(r), UNCHANGED <<now, sessions, issued>>
         PROVE  [RefreshTokens!Next]_(RefreshTokens!vars)
  <2> DEFINE x == [NoRequest EXCEPT !.step = "denied"]
  <2>1. x \in Handler /\ Seen(x) = NoRequest
    BY <1>idle DEF NoRequest, Handler, Seen
  <2> QED
    BY <1>deny, <1>leave, <2>1 DEF Deny
<1>1. CASE Tick
  <2>1. Good' = Good /\ Uses' = Uses
    BY <1>1 DEF Tick, Good, Uses, Seen
  <2> QED
    BY <1>1, <2>1 DEF Tick, RefreshTokens!Tick, RefreshTokens!Next
<1>2. ASSUME NEW r \in Request, NEW u \in User, CreateUser(r, u)
      PROVE  [RefreshTokens!Next]_(RefreshTokens!vars)
  <2>1. UNCHANGED <<now, sessions, issued>>
    BY <1>2 DEF CreateUser
  <2>2. CASE Move(r, [NoRequest EXCEPT !.step = "created", !.user = u])
    <3> DEFINE x == [NoRequest EXCEPT !.step = "created", !.user = u]
    <3>1. x \in Handler /\ Seen(x) = NoRequest
      BY <1>idle DEF NoRequest, Handler, Seen
    <3> QED
      BY <1>leave, <2>1, <2>2, <3>1
  <2> QED
    BY <1>2, <1>deny, <2>1, <2>2 DEF CreateUser
<1>3. ASSUME NEW r \in Request, NEW u \in User, GetUser(r, u)
      PROVE  [RefreshTokens!Next]_(RefreshTokens!vars)
  <2>1. UNCHANGED <<now, sessions, issued>> /\ request[r].step = "idle"
    BY <1>3 DEF GetUser
  <2>2. CASE Move(r, [NoRequest EXCEPT !.step = "known", !.user = u, !.at = now])
    <3> DEFINE x == [NoRequest EXCEPT !.step = "known", !.user = u, !.at = now]
    <3>1. x \in Handler /\ x.step = "known" /\ x.user = u /\ x.token = 0 /\ x.at = now
      BY <1>type, <1>idle DEF NoRequest, Handler, SessionsTypeOK
    <3>2. Move(r, x)
      BY <2>2
    <3> HIDE DEF x
    <3>3. RefreshTokens!Come(r, u, 0)
      BY <1>type, <2>1, <3>1, <3>2, ComeSeen
    <3> QED
      BY <3>3 DEF RefreshTokens!Login, RefreshTokens!Next
  <2> QED
    BY <1>3, <1>deny, <2>1, <2>2 DEF GetUser
<1>4. ASSUME NEW r \in Request, GetNewUser(r) \/ Respond(r)
      PROVE  [RefreshTokens!Next]_(RefreshTokens!vars)
  BY <1>4, <1>idle, <1>leave DEF GetNewUser, Respond
<1>5. ASSUME NEW r \in Request, CreateSession(r) PROVE [RefreshTokens!Next]_(RefreshTokens!vars)
  BY <1>5, CreateSessionSeen DEF RefreshTokens!Next
<1>6. ASSUME NEW r \in Request, Refresh(r) PROVE [RefreshTokens!Next]_(RefreshTokens!vars)
  <2>1. PICK i \in 0 .. issued :
          Move(r, [NoRequest EXCEPT !.step = "refresh", !.token = i, !.at = now])
    BY <1>6 DEF Refresh
  <2>2. UNCHANGED <<now, sessions, issued>> /\ request[r].step = "idle"
    BY <1>6 DEF Refresh
  <2> DEFINE x == [NoRequest EXCEPT !.step = "refresh", !.token = i, !.at = now]
  <2>3. i \in 0 .. MaxSessions
    BY <1>type DEF SessionsTypeOK
  <2>4. x \in Handler /\ x.step = "refresh" /\ x.user = NoUser /\ x.token = i /\ x.at = now
    BY <1>type, <1>idle, <2>3 DEF NoRequest, Handler, SessionsTypeOK
  <2>5. Move(r, x)
    BY <2>1
  <2> HIDE DEF x
  <2>6. RefreshTokens!Come(r, NoUser, i)
    BY <1>type, <2>2, <2>4, <2>5, ComeSeen
  <2> QED
    BY <2>6 DEF RefreshTokens!Present, RefreshTokens!Next
<1>7. ASSUME NEW r \in Request, UseSession(r) PROVE [RefreshTokens!Next]_(RefreshTokens!vars)
  BY <1>7, UseSessionSeen DEF RefreshTokens!Next
<1>8. ASSUME NEW r \in Request, NoSession(r) \/ UseSessionConflict(r) \/ Fail(r)
      PROVE  [RefreshTokens!Next]_(RefreshTokens!vars)
  BY <1>8, <1>deny DEF NoSession, UseSessionConflict, Fail
<1>9. ASSUME NEW r \in Request, GetById(r) PROVE [RefreshTokens!Next]_(RefreshTokens!vars)
  <2> DEFINE x == [request[r] EXCEPT !.step = "granted"]
  <2>1. request[r].step = "used" /\ Move(r, x) /\ UNCHANGED <<now, sessions, issued>>
    BY <1>9 DEF GetById, Grant
  <2>2. x \in Handler /\ Seen(x) = Seen(request[r])
    BY <1>type, <2>1 DEF Handler, Seen
  <2>3. Uses' = [Uses EXCEPT ![r] = Seen(request[r])]
    BY <1>type, <2>1, <2>2, MoveSeen
  <2>4. Uses' = Uses /\ Good' = Good
    BY <2>1, <2>3 DEF Uses, Good
  <2> QED
    BY <2>1, <2>4 DEF RefreshTokens!vars
<1>10. CASE UNCHANGED vars
  BY <1>10 DEF vars, RefreshTokens!vars, Good, Uses, Seen
<1> QED
  BY <1>1, <1>2, <1>3, <1>4, <1>5, <1>6, <1>7, <1>8, <1>9, <1>10 DEF Next

\* Users only see what Tokens promises, whatever waits, fails or is refused
\* between the calls of authorize and refresh_token.
THEOREM ImplementsTokensHolds == Spec => ImplementsTokens
<1>1. Init => RefreshTokens!Init
  BY TokensInit
<1>2. SessionsInv /\ [Next]_vars => [RefreshTokens!Next]_(RefreshTokens!vars)
  BY TokensStep
<1> QED
  BY <1>1, <1>2, SessionsInvariant, PTL DEF Spec, ImplementsTokens, RefreshTokens!Spec

=============================================================================
