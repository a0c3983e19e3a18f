------------------------------- MODULE Tokens -------------------------------
(***************************************************************************)
(* Abstract: what users are promised of refresh tokens.  A user has one    *)
(* token that is good, the last one they were given.  Whether it has       *)
(* expired is judged by the moment somebody comes with it, and a new one   *)
(* ends a lifetime after its user has logged in, however long a request    *)
(* waits before it is served.  It may be turned away for any reason, but   *)
(* one that is served was entitled to it.                                  *)
(***************************************************************************)
EXTENDS Naturals

CONSTANTS User, NoUser, Request, Lifetime

VARIABLES
  now,     \* the clock
  issued,  \* how many tokens have been given
  good,    \* the token of each user, and when it ends
  use      \* the requests

vars == <<now, issued, good, use>>

NoToken == [token |-> 0, ends |-> 0]
Nothing == [step |-> "idle", user |-> NoUser, token |-> 0, at |-> 0]

Init ==
  /\ now = 0
  /\ issued = 0
  /\ good = [u \in User |-> NoToken]
  /\ use = [r \in Request |-> Nothing]

Tick ==
  /\ now' = now + 1
  /\ UNCHANGED <<issued, good, use>>

Come(r, user, token) ==
  /\ use[r] = Nothing
  /\ use' = [use EXCEPT ![r] = [step |-> "asked", user |-> user, token |-> token, at |-> now]]
  /\ UNCHANGED <<now, issued, good>>

\* A user has logged in: the password matches.
Login(r) == \E u \in User : Come(r, u, 0)

\* Somebody comes with a token that was given once, or with none such, 0.
Present(r) == \E i \in 0 .. issued : Come(r, NoUser, i)

Serve(r, user, token) ==
  use' = [use EXCEPT ![r] = [@ EXCEPT !.step = "served", !.user = user, !.token = token]]

\* The user gets a new token, and the former one is good no more.
Give(r) ==
  /\ use[r].step = "asked"
  /\ use[r].user # NoUser
  /\ issued' = issued + 1
  /\ good' = [good EXCEPT ![use[r].user] =
       [token |-> issued', ends |-> use[r].at + Lifetime]]
  /\ Serve(r, use[r].user, issued')
  /\ UNCHANGED now

\* The token is good: its user is served, and the token is what it was.
Honour(r) ==
  /\ use[r].step = "asked"
  /\ \E u \in User :
       /\ good[u].token = use[r].token
       /\ use[r].at < good[u].ends
       /\ Serve(r, u, use[r].token)
  /\ UNCHANGED <<now, issued, good>>

\* The request is over, served or turned away.
Leave(r) ==
  /\ use[r] # Nothing
  /\ use' = [use EXCEPT ![r] = Nothing]
  /\ UNCHANGED <<now, issued, good>>

Next ==
  \/ Tick
  \/ \E r \in Request : Login(r) \/ Present(r) \/ Give(r) \/ Honour(r) \/ Leave(r)

Spec == Init /\ [][Next]_vars

=============================================================================
