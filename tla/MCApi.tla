------------------------------- MODULE MCApi -------------------------------
(* A small instance of Api for TLC. *)
EXTENDS Api, TLC

CONSTANTS c1, c2

\* One client asks for anything, the other one to create the user that the
\* first one may create at the same time.
MCRoutes == c1 :> Handlers @@ c2 :> {CreateUser}

=============================================================================
