------------------------------- MODULE Store -------------------------------
(***************************************************************************)
(* Abstract: what the rest of the daemon assumes of a repository call.     *)
(* The call takes effect at one point between its start and its answer, or *)
(* it fails without a trace.  Only the calls of Torn, which write with     *)
(* several statements and no transaction, may fail and leave their row.    *)
(***************************************************************************)
CONSTANTS
  Caller,    \* the tasks that call the repositories
  Call,      \* the calls: records with the row they are about
  Nothing,   \* what a caller asks for that waits for nothing
  Writes,    \* the calls that leave their row
  Finds,     \* those that need their row
  Excludes,  \* those that need that there is no such row
  Torn       \* those that may fail and leave their row

VARIABLES
  stored,  \* the rows there are
  asked,   \* the call that each caller waits for
  answer   \* the answer it has got

vars == <<stored, asked, answer>>

Init ==
  /\ stored = {}
  /\ asked = [c \in Caller |-> Nothing]
  /\ answer = [c \in Caller |-> "none"]

Pending(c) == asked[c] # Nothing

Answer(c, a) ==
  /\ answer' = [answer EXCEPT ![c] = a]
  /\ asked' = [asked EXCEPT ![c] = Nothing]

Ask(c) ==
  /\ ~Pending(c)
  /\ asked'[c] \in Call
  /\ asked' = [asked EXCEPT ![c] = asked'[c]]
  /\ answer' = [answer EXCEPT ![c] = "none"]
  /\ UNCHANGED stored

Leave(row) == stored' = stored \cup {row}

\* The call happens.
Serve(c) ==
  /\ Pending(c)
  /\ asked[c] \in Finds => asked[c].row \in stored
  /\ asked[c] \in Excludes => asked[c].row \notin stored
  /\ IF asked[c] \in Writes THEN Leave(asked[c].row) ELSE UNCHANGED stored
  /\ Answer(c, "ok")

Miss(c) ==
  /\ Pending(c)
  /\ asked[c] \in Finds
  /\ asked[c].row \notin stored
  /\ Answer(c, "notFound")
  /\ UNCHANGED stored

Fail(c) ==
  /\ Pending(c)
  /\ \/ UNCHANGED stored
     \/ asked[c] \in Torn /\ Leave(asked[c].row)
  /\ Answer(c, "failed")

\* The caller goes on to something else.
Take(c) ==
  /\ ~Pending(c)
  /\ Answer(c, "none")
  /\ UNCHANGED stored

\* Nobody waits for an answer any more; a call of Torn may have left its row.
Restart ==
  /\ \/ UNCHANGED stored
     \/ \E c \in Caller : Pending(c) /\ asked[c] \in Torn /\ Leave(asked[c].row)
  /\ asked' = [c \in Caller |-> Nothing]
  /\ answer' = [c \in Caller |-> "none"]

Next ==
  \/ \E c \in Caller : Ask(c) \/ Serve(c) \/ Miss(c) \/ Fail(c) \/ Take(c)
  \/ Restart

Spec == Init /\ [][Next]_vars

=============================================================================
