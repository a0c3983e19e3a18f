------------------------------ MODULE Process ------------------------------
(***************************************************************************)
(* The life of the process under systemd: the configuration is read, the   *)
(* database is migrated, the jobs are spawned, the port is bound, the      *)
(* secret is read and the server serves until Ctrl-C.  Any other signal    *)
(* ends the process at once, and so does a failure of the start-up.  The   *)
(* service always starts again.                                            *)
(*                                                                         *)
(* What the operator may get wrong is one flaw at a time, made or          *)
(* mended at any moment: in the configuration, in its schedules, which are *)
(* parsed when the jobs are prepared, or in the secret file; or the port   *)
(* is taken by another process.                                            *)
(***************************************************************************)
EXTENDS Scheduler, Sequences

VARIABLES
  boot,     \* how far the process has got
  applied,  \* in the database file: how many migrations are recorded
  schema,   \* in the database file: the columns of its tables
  flaw,     \* what is wrong around the process
  parsable  \* whether the schedules that were read parse

vars == <<tasks, boot, applied, schema, flaw, parsable>>

-----------------------------------------------------------------------------
(* The migrations: the columns that each one drops and adds. *)

Columns(table, names) == {table} \X names

CreatePrices ==
  [drop |-> {}, add |-> Columns("prices", {"base", "quote", "bid", "ask"})]

BlockAndAccount == [
  drop |-> {},
  add |-> UNION {
    Columns("blocks", {"id", "height", "hash", "slot_time_ms", "baker"}),
    Columns("accounts", {"id", "address", "available_amount", "staked_amount", "lottery_power"}),
    Columns("account_rewards", {"id", "account_id", "block_hash", "amount", "epoch_ms", "kind"})}]

StatusTable ==
  [drop |-> {}, add |-> Columns("statuses", {"id", "resources", "node", "timestamp_ms"})]

UserAndSession == [
  drop |-> {},
  add |-> Columns("users", {"id", "username", "password"})
            \cup Columns("user_sessions", {"id", "user_id", "expiration_ms", "last_use_ms"})]

AccountPendingUpdate == [
  drop |-> Columns("accounts", {"available_amount", "staked_amount"})
             \cup Columns("account_rewards", {"amount"}),
  add |-> Columns("accounts", {"balance", "stake", "pending_update"})
            \cup Columns("account_rewards", {"amount"})]

PriceMore == [
  drop |-> Columns("prices", {"base", "quote", "bid", "ask"}),
  add |-> UNION {
    Columns("pairs", {"id", "base", "quote"}),
    Columns("prices", {"pair_id", "bid", "ask", "daily_change_relative", "high", "low"}),
    Columns("hist_prices", {"pair_id", "bid", "ask", "timestamp_ms"})}]

Migrations == <<CreatePrices, BlockAndAccount, StatusTable, UserAndSession,
                AccountPendingUpdate, PriceMore>>

\* What the queries of the repositories are compiled against.
Tables == UNION {
  Columns("account_rewards", {"id", "account_id", "block_hash", "epoch_ms", "kind", "amount"}),
  Columns("accounts", {"id", "address", "lottery_power", "balance", "stake", "pending_update"}),
  Columns("blocks", {"id", "height", "hash", "slot_time_ms", "baker"}),
  Columns("hist_prices", {"pair_id", "bid", "ask", "timestamp_ms"}),
  Columns("pairs", {"id", "base", "quote"}),
  Columns("prices", {"pair_id", "bid", "ask", "daily_change_relative", "high", "low"}),
  Columns("statuses", {"id", "resources", "node", "timestamp_ms"}),
  Columns("user_sessions", {"id", "user_id", "expiration_ms", "last_use_ms"}),
  Columns("users", {"id", "username", "password"})}

Changed(columns, m) == (columns \ m.drop) \cup m.add

\* The schema left by an earlier version of the daemon, after k migrations: the
\* columns that one of them added and no later one dropped.
SchemaAfter(k) ==
  {c \in UNION {Migrations[i].add : i \in 1 .. k} :
     \E i \in 1 .. k : c \in Migrations[i].add /\ \A m \in i + 1 .. k : c \notin Migrations[m].drop}

-----------------------------------------------------------------------------
\* A file that is not there, or a job, the client or the address in it that
\* the types of the configuration do not accept.  A schedule is any text.
ConfigErrors == {"no file", "job", "client", "address"}

Flaws == {"none", "schedule", "port", "secret"} \cup ConfigErrors

ProcessTypeOK ==
  /\ SchedulerTypeOK
  /\ boot \in {"down", "loaded", "scheduled", "bound", "up"}
  /\ applied \in 0 .. Len(Migrations)
  /\ schema \subseteq UNION {Migrations[k].add : k \in DOMAIN Migrations}
  /\ flaw \in Flaws
  /\ parsable \in BOOLEAN
  /\ Alive <=> boot \in {"scheduled", "bound", "up"}

\* The tasks are gone.
Gone ==
  /\ main' = "exited"
  /\ requests' = 0
  /\ closed' = FALSE
  /\ task' = [j \in Job |-> "sleeping"]
  /\ due' = {}
  /\ arrived' = {}
  /\ controller' = "listening"
  /\ runs' = [j \in Job |-> 0]

Init ==
  /\ main = "exited"
  /\ requests = 0
  /\ closed = FALSE
  /\ task = [j \in Job |-> "sleeping"]
  /\ due = {}
  /\ arrived = {}
  /\ controller = "listening"
  /\ runs = [j \in Job |-> 0]
  /\ boot = "down"
  /\ applied \in 0 .. Len(Migrations)
  /\ schema = SchemaAfter(applied)
  /\ flaw \in Flaws
  /\ parsable = TRUE

-----------------------------------------------------------------------------
(* main and run_server. *)

\* Config::from_file.  With an error the process ends, and systemd starts the
\* next one.
Load ==
  /\ boot = "down"
  /\ flaw \notin ConfigErrors
  /\ boot' = "loaded"
  /\ parsable' = (flaw # "schedule")
  /\ Gone
  /\ UNCHANGED <<applied, schema, flaw>>

\* Mutant: the columns that a migration drops are left.
MigrateAddOnly ==
  /\ boot = "loaded"
  /\ applied < Len(Migrations)
  /\ applied' = applied + 1
  /\ schema' = schema \cup Migrations[applied + 1].add
  /\ UNCHANGED <<tasks, boot, flaw, parsable>>

\* run_migrations: each one is a transaction together with its record.
Migrate ==
  /\ boot = "loaded"
  /\ applied < Len(Migrations)
  /\ applied' = applied + 1
  /\ schema' = Changed(schema, Migrations[applied + 1])
  /\ UNCHANGED <<tasks, boot, flaw, parsable>>

\* prepare_jobs: a schedule that does not parse panics before a job is spawned.
PrepareJobs ==
  /\ boot = "loaded"
  /\ applied = Len(Migrations)
  /\ parsable
  /\ boot' = "scheduled"
  /\ Spawn
  /\ UNCHANGED <<applied, schema, flaw, parsable>>

\* The jobs run already.
Bind ==
  /\ boot = "scheduled"
  /\ flaw # "port"
  /\ boot' = "bound"
  /\ UNCHANGED <<tasks, applied, schema, flaw, parsable>>

\* create_app reads the secret, and the server starts.
Serve ==
  /\ boot = "bound"
  /\ flaw # "secret"
  /\ boot' = "up"
  /\ main' = "serving"
  /\ UNCHANGED <<requests, closed, task, due, arrived, controller, runs>>
  /\ UNCHANGED <<applied, schema, flaw, parsable>>

Fails ==
  \/ boot = "loaded" /\ applied = Len(Migrations) /\ ~parsable
  \/ boot = "scheduled" /\ flaw = "port"
  \/ boot = "bound" /\ flaw = "secret"

\* Mutant: a start-up that fails waits for the jobs.
AbortAfterJobs ==
  /\ Fails
  /\ \A j \in Job : task[j] = "returned"
  /\ boot' = "down"
  /\ Gone
  /\ UNCHANGED <<applied, schema, flaw, parsable>>

\* Mutant: the jobs outlive the start-up that failed.
AbortButJobs ==
  /\ Fails
  /\ boot' = "down"
  /\ UNCHANGED <<tasks, applied, schema, flaw, parsable>>

\* A panic or an error returned: the runtime drops the jobs that were spawned.
Abort ==
  /\ Fails
  /\ boot' = "down"
  /\ Gone
  /\ UNCHANGED <<applied, schema, flaw, parsable>>

\* main returns.
ExitMain ==
  /\ Exit
  /\ boot' = "down"
  /\ UNCHANGED <<applied, schema, flaw, parsable>>

-----------------------------------------------------------------------------
(* The operator. *)

\* systemctl stop sends SIGTERM, for which there is no handler; or the process
\* or the machine crashes.
Kill ==
  /\ boot # "down"
  /\ boot' = "down"
  /\ Gone
  /\ UNCHANGED <<applied, schema, flaw, parsable>>

Edit ==
  /\ \E f \in Flaws : flaw' = IF flaw = "none" THEN f ELSE "none"
  /\ UNCHANGED <<tasks, boot, applied, schema, parsable>>

-----------------------------------------------------------------------------
StartUp == Load \/ Migrate \/ PrepareJobs \/ Bind \/ Serve \/ Abort

Run == SchedulerStep /\ UNCHANGED <<boot, applied, schema, flaw, parsable>>

Next == StartUp \/ Run \/ ExitMain \/ Kill \/ Edit

Spec == Init /\ [][Next]_vars

\* The start-up goes on and systemd starts the service again, Restart=always.
FairSpec == Spec /\ WF_vars(StartUp) /\ SchedulerFairness

-----------------------------------------------------------------------------
(* Properties. *)

\* No job starts and no request is served unless every schedule that was read
\* parses, and none meets a database of another version than the one the queries
\* are compiled for, wherever earlier versions or kills between the migrations
\* have left it.
ReadyBeforeUse == Alive => parsable /\ schema = Tables

\* When nothing is wrong any more and nobody kills the process, it serves again
\* and again: no failure of the start-up and no shutdown leaves it stuck.
ServesAgain ==
  TimerFires /\ <>[](flaw = "none") /\ <>[][~Kill]_vars => []<>(main = "serving")

=============================================================================
