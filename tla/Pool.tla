-------------------------------- MODULE Pool --------------------------------
(***************************************************************************)
(* AsyncPool: every repository call is a closure that waits for the only   *)
(* connection of the pool, runs its statements on it and gives it back.    *)
(* A call that waits for thirty seconds fails.  A closure of several       *)
(* statements is a transaction, or each statement commits on its own.      *)
(*                                                                         *)
(* The database is abstracted to the rows that a call may miss or find in  *)
(* its way, one of each table.  Time is left out: the limit of a call that *)
(* waits may be over at any moment.                                        *)
(***************************************************************************)
EXTENDS Naturals, Sequences

CONSTANTS
  Caller,    \* the tasks that call the repositories: requests and jobs
  MaxFaults  \* bound: how many statements fail and how often the daemon is killed

ASSUME MaxFaultsAssumption == MaxFaults \in Nat

VARIABLES
  rows,   \* the database file: the rows committed
  call,   \* the last call of each task
  faults  \* how many failures there have been, bounded by MaxFaults

pool == <<rows, call, faults>>

Row == {"account", "pair", "price", "report", "user"}

\* Mutant: the migrations without their unique indexes.
NoIndexes == {}

\* Those with a unique index that an insertion does not resolve.
Unique == {"pair", "user"}

\* The foreign keys, which on_acquire asks SQLite to check.
Parents(row) == IF row = "price" THEN {"pair"} ELSE {}

\* What the closures do.  The answer of a list does not depend on a row.
Statements == [
  find   |-> <<"find">>,
  list   |-> <<"list">>,
  insert |-> <<"insert">>,
  upsert |-> <<"upsert">>,
  set    |-> <<"upsert", "find">>,
  create |-> <<"insert", "find">>]

\* Mutant: set_account without conn.transaction.
NoTransactions == {}

\* The closures that are one transaction.
Transactions == {"set"}

Kind == DOMAIN Statements
Outcome == {"ok", "notFound", "failed"}

Call == [kind : Kind \ {"list"}, row : Row] \cup [kind : {"list"}, row : {"none"}]
Progress == [step : {"idle", "waiting", "running"} \cup Outcome,
             kind : Kind, row : Row \cup {"none"}, at : 1 .. 2, staged : BOOLEAN]

PoolTypeOK ==
  /\ rows \in SUBSET Row
  /\ call \in [Caller -> Progress]
  /\ faults \in 0 .. MaxFaults

Idle == [step |-> "idle", kind |-> "list", row |-> "none", at |-> 1, staged |-> FALSE]

PoolInit ==
  /\ rows = {}
  /\ call = [c \in Caller |-> Idle]
  /\ faults = 0

Busy(c) == call[c].step \in {"waiting", "running"}

\* The connection is back in the pool, and a transaction under way is rolled
\* back: the rows are what has been committed.
End(c, outcome) ==
  call' = [call EXCEPT ![c] = [Idle EXCEPT !.step = outcome]]

-----------------------------------------------------------------------------
(* AsyncPool::exec. *)

Exec(c, kind, row) ==
  /\ ~Busy(c)
  /\ call' = [call EXCEPT ![c] = [Idle EXCEPT !.step = "waiting", !.kind = kind, !.row = row]]

\* The caller has the outcome.
Take(c) ==
  /\ call[c].step \in Outcome
  /\ call' = [call EXCEPT ![c] = Idle]

\* One of those that wait, in no particular order, gets the connection.
Acquire(c) ==
  /\ call[c].step = "waiting"
  /\ \A d \in Caller : call[d].step # "running"
  /\ call' = [call EXCEPT ![c].step = "running"]
  /\ UNCHANGED <<rows, faults>>

\* Mutant: no limit on the wait.
NoTimeOut(c) ==
  /\ call[c].step = "waiting"
  /\ \A d \in Caller : call[d].step # "running"
  /\ End(c, "failed")
  /\ UNCHANGED <<rows, faults>>

\* connection_timeout: the error of r2d2 is PoolError::Faillable.
TimeOut(c) ==
  /\ call[c].step = "waiting"
  /\ End(c, "failed")
  /\ UNCHANGED <<rows, faults>>

-----------------------------------------------------------------------------
(* The closure. *)

\* The statement that comes next.
Current(c) == Statements[call[c].kind][call[c].at]
IsLast(c) == call[c].at = Len(Statements[call[c].kind])

\* The rows as the connection sees them.
Seen(c) == IF call[c].staged THEN rows \cup {call[c].row} ELSE rows

\* A constraint refuses the row.
Refused(c) ==
  \/ Current(c) = "insert" /\ call[c].row \in Unique \cap Seen(c)
  \/ Current(c) \in {"insert", "upsert"} /\ ~(Parents(call[c].row) \subseteq Seen(c))

Refuse(c) ==
  /\ call[c].step = "running"
  /\ Refused(c)
  /\ End(c, "failed")
  /\ UNCHANGED <<rows, faults>>

\* DriverError::NotFound, which is the one error a repository tells apart.
Miss(c) ==
  /\ call[c].step = "running"
  /\ Current(c) = "find"
  /\ call[c].row \notin Seen(c)
  /\ End(c, "notFound")
  /\ UNCHANGED <<rows, faults>>

Wrote(c) == call[c].staged \/ Current(c) \in {"insert", "upsert"}

\* What has been written is in the file.
Commit(c) == rows' = IF Wrote(c) THEN rows \cup {call[c].row} ELSE rows

Proceed(c) ==
  /\ call[c].step = "running"
  /\ ~Refused(c)
  /\ Current(c) = "find" => call[c].row \in Seen(c)
  /\ IF IsLast(c)
     THEN Commit(c) /\ End(c, "ok")
     ELSE IF call[c].kind \in Transactions
          THEN /\ call' = [call EXCEPT ![c].at = @ + 1, ![c].staged = Wrote(c)]
               /\ UNCHANGED rows
          ELSE /\ call' = [call EXCEPT ![c].at = @ + 1]
               /\ Commit(c)
  /\ UNCHANGED faults

\* Any other error: the statement fails or the file cannot be written.
Break(c) ==
  /\ call[c].step = "running"
  /\ faults < MaxFaults
  /\ faults' = faults + 1
  /\ End(c, "failed")
  /\ UNCHANGED rows

Closure(c) == Refuse(c) \/ Miss(c) \/ Proceed(c) \/ Break(c)

PoolStep(c) == Acquire(c) \/ TimeOut(c) \/ Closure(c)

\* The process ends and starts again: SQLite rolls back what is not committed.
Crash ==
  /\ faults < MaxFaults
  /\ faults' = faults + 1
  /\ call' = [c \in Caller |-> Idle]
  /\ UNCHANGED rows

-----------------------------------------------------------------------------
(* Properties. *)

\* A closure that commits statement by statement and is not done shows its row
\* to nobody: the connection is the only one there is.
Unfinished ==
  {call[c].row : c \in {d \in Caller :
     call[d].step = "running" /\ call[d].kind = "create" /\ call[d].at = 2}}

Writing == {q \in Call : q.kind \in {"insert", "upsert", "set", "create"}}
Finding == {q \in Call : q.kind = "find"}
Excluding == {q \in Call : q.kind \in {"insert", "create"} /\ q.row \in {"pair", "user"}}
Tearing == {q \in Call : q.kind = "create"}

\* Repository calls are atomic, although they are made of several statements,
\* wait for one another, time out, fail and are cut off by a crash: the claim
\* on which Ledger, Sessions, Prices and StatusChecker rest.  Only create_pair
\* may fail and leave its row.
AtomicStore == INSTANCE Store WITH
  Writes <- Writing, Finds <- Finding, Excludes <- Excluding, Torn <- Tearing,
  stored <- rows \ Unfinished,
  Nothing <- Idle,
  asked <- [c \in Caller |->
    IF Busy(c) THEN [kind |-> call[c].kind, row |-> call[c].row] ELSE Idle],
  answer <- [c \in Caller |-> IF call[c].step \in Outcome THEN call[c].step ELSE "none"]

ImplementsStore == AtomicStore!Spec

=============================================================================
