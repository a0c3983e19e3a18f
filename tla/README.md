# bakerd in TLA+

bakerd follows a Concordium node.  Jobs on cron schedules read the node (gRPC)
and Bitfinex (HTTP) and fill a SQLite database; an HTTP server reads it and lets
an administrator follow accounts and create pairs and users.  Everything runs in
one process on the Tokio runtime.  The modules here are translated from the Rust
code under `src/src` and the migrations; `PROJECT.json` maps every definition to
its lines.

## The system

| Component | Code | State | Operations |
|---|---|---|---|
| block fetcher | `job/block.rs` | locals of a pass; `blocks`, `account_rewards`, `accounts.pending_update` | `execute`, `do_block`, `do_rewards`, `insert_rewards` |
| accounts refresher | `job/account.rs` | locals of a pass; rows of `accounts` | `execute`, `do_account` |
| reward repairer | `job/block.rs` | locals of a pass; `account_rewards` | `execute`, `insert_rewards` |
| price refresher, pairs | `job/price.rs`, `repository/price.rs`, `client/bitfinex.rs` | `pairs`, `prices` | `execute`, `get_prices`, `create_pair`, `set_price` |
| status checker | `job/status.rs`, `repository/status.rs` | `statuses` | `execute`, `report`, `garbage_collect` |
| block and account repositories | `repository/block.rs`, `repository/account.rs` | the tables above | one SQL statement or transaction each |
| users and sessions | `repository/user.rs`, `controller/auth.rs` | `users`, `user_sessions` | `create_user`, `authorize`, `refresh_token` |
| scheduler and shutdown | `job/mod.rs`, `main.rs` | task of each job, watch channel, barrier | `start`, `schedule_job`, `shutdown`, `run_server` |
| start-up and migrations | `main.rs`, `repository/mod.rs`, `migrations/`, `bakerd.service` | the schema and its recorded version | `main`, `Dependencies::make`, `prepare_jobs`, `run_migrations` |
| configuration | `config.rs` | read once | parse, the schedules, the secret |
| connection pool | `repository/mod.rs` | one connection, 30 s limit on the wait | `get_conn`, `exec` |
| claims and roles | `authentication.rs` | none | decode a bearer token, `has_role` |
| HTTP handlers | `controller/mod.rs`, `controller/auth.rs` | none | reads, `POST /accounts`, `POST /pairs`, `create_user` |
| node client | `client/node.rs` | none | gRPC calls and their decoding |

Interaction.  Jobs and handlers never call one another: they meet in the tables
and at the pool's single connection.  A repository call is one closure on that
connection, so it appears atomic (`Pool` shows in which sense); nothing is atomic
between two calls, and a job's pass or a handler is several.  The one exception is the shutdown, where the jobs' tasks, the controller and the
main task meet at a watch channel and a barrier.  systemd restarts the daemon
(`Restart=always`): tables survive, locals do not.

What is hard:

- *partial failure and crashes*: a block is a sequence of calls without a
  transaction around them; every `?` ends the pass where it stands;
- *interleaving*: fetcher, refresher, repairer and posts write the same rows,
  with values read some awaits ago;
- *start-up*: migrations on whatever an earlier version left, jobs that run before
  the port is bound and the secret is read, failures that systemd repeats;
- *contention*: everybody waits for one connection, in no order and not for ever;
- *errors that change meaning* on their way from SQLite to a status code;
- *liveness*: a pass that always fails at the same account serves nobody behind
  it; a shutdown waits for a barrier of N + 1 parties;
- *whole-table statements*: the update of a session without a filter, the
  garbage collections;
- *positions and numeric edges*: the zip of pairs and tickers, `0 / 0`,
  `height - GC_OFFSET`.

`PROJECT.json` lists the hazards line by line with the properties for each.

## The modules

| Module | Models | Correspondence |
|---|---|---|
| `Ledger` | the node's chain, the tables of blocks, accounts and rewards | one operator for each repository call; `Finalize` is the consensus, `Follow` is `POST /accounts` |
| `BlockFetcher` | the job block-fetcher | one action for each await of `execute` / `do_block` / `do_rewards`; `fetchPc` is the position, `height`, `target`, `todo`, `current` the locals |
| `ChainIndex` | abstract: what readers of blocks and rewards are promised | blocks appear one height at a time, with their rewards in pairs |
| `BlockFetcher_proofs` | theorems on `BlockFetcher` | |
| `AccountsRefresher` | the job accounts-refresher | `waiting` is the list, `tip` the last block read once; `rowOrder` is the scan order of the table |
| `RewardRepairer` | the job reward-repairer | one account and one block at a time, two writes for each |
| `Daemon` | the composition of the three jobs, the posts and restarts | `EXTENDS` the three; a step of one leaves the locals of the others |
| `RefreshHistory` | `Daemon` with a history of its refresher | `writtenAt` is the last finalized block when the refresher wrote a row |
| `Scheduler` | tasks, watch channel, barrier, timeout, drain of the server | `task[j]` is the position in `schedule_job`; `controller` the task spawned by `start`; `main` is `run_server`; it has no specification of its own |
| `Process` | `Scheduler` within start-up, migrations, kills and restarts | `boot` is the position in `main` and `run_server`; `applied` and `schema` are the file; `flaw` is the operator's mistake |
| `Store` | abstract: an atomic store of rows | a call takes effect at one moment or not at all |
| `Pool` | `AsyncPool`: the wait, its limit, closures statement by statement, transactions | `call[c]` is the call of a task; `kind` the shape of its closure; `rows` what is committed |
| `Api` | claims, all handlers over the pool, the mapping of errors; the jobs as rivals | a handler is its role and its calls, each with the answer to a missing row |
| `Sessions` | `create_user`, `authorize`, `refresh_token` | each request has its position and locals; one action for each repository call; a refresh presents any token, issued or not |
| `Tokens` | abstract: what users are promised of refresh tokens | a user has one token that is good; nothing but a new one changes it |
| `Sessions_proofs` | theorems on `Sessions` | |
| `Prices` | pairs, the job price-refresher, the Bitfinex client | one action for each await of the job |
| `StatusChecker` | the job status-checker and its table | one action for each await that matters |
| `Daemon_proofs` | theorems on `Daemon` and `RefreshHistory` | |
| `Process_proofs`, `Api_proofs`, `Prices_proofs`, `StatusChecker_proofs` | theorems on the module of that name | |
| `SequenceLemmas` | what the operators on sequences preserve | a list read from a table, its rest, an appended or inserted row |
| `MC*` | symmetry sets for TLC | |

Abstractions, and why they are harmless:

- a block is its height, an account its address, a session its serial number;
- a reward's amount is left out, but for the amount `'0'` which the migration of
  2022-08-31 put in every old row (`zeroed`): it is what the repairer repairs;
- a balance is the height of the block it was read at, which is what staleness
  is about; 0 is the balance of a row never refreshed;
- `SetReward`, `Store` and the others keep the order of the code's calls; only
  *reads of the node* that follow one another are one step, since what the node
  says of a finalized block never changes;
- time is left out of `Scheduler` (any order of the timers) and of `Pool` (the
  limit of a wait may be over at any moment), and reduced to order in
  `StatusChecker` (the clock is "behind" so many reports);
- in `Pool` a table is the one row that a call could miss or meet, and the two
  jobs that write reports and prices stand for all jobs; lists do not
  depend on a row; the three causes of a 401 are one answer; the updates of
  `use_session` and `garbage_collect`, of rows that no call of `Api` names, are
  not among its shapes of closures (`Sessions` and `StatusChecker` have what they
  do);
- Bitfinex drops from its answer the symbols it does not list, and keeps the
  order of the others: an answer in another order is left out;
- in `Process` a table is its columns, and the operator makes one mistake at a
  time;
- the cron schedules are left out: an idle job may start at any moment.

Some variables are history: `since` (the last block stored when an account got
its row), `writtenAt`, `owner` (for whom a session was created), `runs` (the
executions of each job since the channel was closed, where 2 stands for more),
`lag`, `added` (the reports stored since the last collection), `acked` (what
clients were told to be stored) and the field `knew` of a request (which of the
resources it may report missing were stored when it came).  They guard no step.

## The runs

Every bound is a CONSTANT; failures are bounded by `MaxFaults`.

| Run | Bounds | Shows |
|---|---|---|
| `block_fetcher` | 2 accounts, heights 1..4, GC 1, 1 fault | `TypeOK`, `NextUnstored`, `BlocksContiguous`, `RewardsComplete`, `RewardsSound`; `ImplementsIndex`: the fetcher implements `ChainIndex` |
| `daemon` | `RefreshHistory`: 1 account, heights 1..3, 1 fault or restart | with all three jobs: `FeeHasBaker`, `RewardsComplete`, `RewardAsksForRefresh` |
| `daemon_live` | 1 account on the chain and 1 that is not, heights 1..2, 1 fault or restart | with all three jobs: `DaemonTypeOK`, `RefreshedOnce`; `ImplementsChainIndex` (`ChainIndex` with its fairness), `EventuallyRefreshed`, `EventuallyRepaired` |
| `process` | 3 jobs, one exhausted schedule, 2 requests; any earlier version of the database, any number of kills and mistakes | `ProcessTypeOK`, `GracefulMeansStopped`, `ReturnTogether`, `AtMostOneMoreRun`, `ReadyBeforeUse`, `ShutdownEnds`, `GracefulInTheEnd`, `ServesAgain` |
| `api` | 2 clients, one of which asks for any handler and one creates a user, 1 job, 1 failure or kill | `ApiTypeOK`, `AckedStays`, `ImplementsStore`: the pool implements `Store`; `NotFoundIsTrue`, `CreatedOnce`, `Answered` |
| `sessions` | 2 users, 2 requests, 3 sessions, 1 fault | `SessionsTypeOK`, `LatestSessionOnly`, `GrantedToOwner`, `SessionFixed`; `ImplementsTokens`: the handlers implement `Tokens` |
| `prices` | 3 pairs, all listed, 2 faults | `PricesTypeOK`, `PriceOfItsPair`, `EventuallyPriced` |
| `status_checker` | 3 reports kept, 2 faults | `StatusTypeOK`, `TableBounded`, `OwnReportKept`, `ReportsGoOn` |

Are the bounds enough?  The fetcher's hazards need one block stored before, one
in progress and one behind it, so three heights; the fourth lets an account that
was followed while a block was in progress meet one more block that must be
complete.  A second account lets one be in hand while the other is done, missing
or added; one fault can hit any step.
A GC offset of 1 is the smallest the assumption allows and the worst
for `BlocksContiguous`.  The races of the daemon are between one writer of each
kind and need one block; for a mark that is lost it takes two, one that was
accounted for and one that is not, and one account.  In `daemon_live` the address
that is not on the chain may get its row before the other account or after it,
and the refresher has a list of two.  The accounts of one block are independent
of one another but for the fetcher's loop over them, which `block_fetcher` runs
with two; the proofs are for any number.  Two users and two requests are the least that makes a
session's update touch another's row and two requests of one user overlap;
a third session lets a user come back.  The barrier is exercised with one party
running, one waiting and one that spins.  `process` has no counter at all: its
kills, restarts and edits are unbounded.  In `api` three tasks are the least
with one on the connection and two that wait; the one fault can be any
statement or a kill, and a limit that ends a wait is no fault and happens any
number of times.

Fairness.  A job's steps are weakly fair: the scheduler starts each job for ever
(`loop` in `schedule_job`), the await of a call ends in an answer or an error,
and errors are bounded by `MaxFaults`.  The environment (consensus, posts,
clock) is not fair.  That every await ends is an assumption on the node and on
Bitfinex, as neither client sets a timeout (`client/node.rs:138`,
`client/bitfinex.rs:66`), and `ImplementsChainIndex`, `EventuallyRepaired`,
`EventuallyRefreshed` and `EventuallyPriced` rest on it.  `StatusChecker` does
without it: only the steps that do not wait for the node are fair, and
`ReportsGoOn` says that reports go on unless a call to the node never returns.
In `Process`, `FairSpec` asks for nothing from the jobs or
the timer: requests end, the main task and the controller are polled when they
are woken; the start-up goes on, and `Restart=always` makes its first step fair
as well.  Each liveness property names what it needs beyond that.
`ShutdownEnds` needs the timer only (`TimerFires`); `GracefulInTheEnd` does
without it but needs the executions to return (`JobsReturn`).  `Stop(j)` is
strongly fair there, since `select!` picks a ready branch at random: an exhausted
schedule, ready at every turn, cannot win for ever.  `ServesAgain` needs an
operator who mends the last flaw, no more kills, and the timer.  In
`Api` each task is fair as a whole (`GoOn`): a closure ends, a wait ends with the
connection *or* with its limit, and nothing is assumed of the order in which r2d2
serves those that wait.  A request may be overtaken by the job for ever; that
`Answered` holds all the same is due to the limit alone (its mutant).

No run disables the check for deadlocks.

### Where the code does otherwise

Runs that TLC must find violated, each against a sentence of the code:

- `lost_update` (`RewardedArePending`): the refresher writes a balance read at a
  block older than the one the fetcher has just marked the account for, and
  clears the mark (`job/account.rs:48`): the balance stays without that reward
  until the next one.  `daemon` shows what the marks do promise: that the row has
  been *written* since the block was finalized, with a balance of whichever
  block the refresher began its pass with.
- `refresh_refused`: `use_session` updates all sessions (`repository/user.rs:180`)
  and breaks the unique index as soon as two users have one.  `sessions` shows
  that the index at least saves the sessions: `SessionFixed`, `GrantedToOwner`.
- `price_shifted`: tickers are matched with pairs by position
  (`client/bitfinex.rs:98`); `prices` shows that this is right if all are listed.
- `status_unreadable`: a node without peers has a NaN for latency
  (`client/node.rs:334`), stored as `null`, which cannot be read back.

Met while modelling, and stated here because no sentence of the code says
otherwise:

- an address that is not on the chain ends every pass of the refresher
  (`job/account.rs:63`): the accounts with a newer row are never refreshed.
  `daemon_live` shows that those with an older row are;
- a job whose schedule has no next occurrence fires at once, again and again, and
  may start any number of executions after the shutdown has begun
  (`job/mod.rs:121`): `AtMostOneMoreRun` holds for the other jobs only, and
  `GracefulInTheEnd` needs a `select!` that does not prefer the schedule for ever;
- a node that takes a call and never answers stops the job that waits for it
  (`client/node.rs:138` sets no timeout), the status checker too;
- `get_block_at_height` asks for the blocks at a height and keeps the last one of
  the list (`client/node.rs:215`); for a finalized height there is only one;
- `GET /status` before the first report is a 500, since the error of
  `get_last_report` is never told apart;
- only Ctrl-C ends the daemon gracefully: `systemctl stop` sends SIGTERM, which
  kills the jobs wherever they are (`Kill`);
- jobs already run when the port is bound and the secret is read, so a service
  that fails there runs them, cut short, at each restart;
- the daemon itself only issues tokens without roles (`Issued`): the token of an
  administrator has to be signed with its key by somebody else;
- a call of `create_pair` that fails may leave its pair, and a `create_user` whose
  read fails leaves its user: `Store` allows the first explicitly (`Torn`), and
  `CreatedOnce` shows that nobody is told twice of the creation.

## The proofs

Every safety invariant and every action property of the runs that pass, and all
refinements (those of `ChainIndex` without its fairness), is a theorem
for every value of the constants that the assumptions named in the modules
allow.  Each component has one inductive invariant, `Init => Inv` and
`Inv /\ [Next]_vars => Inv'`; TLC has checked each of them on the component's
run before it was proved.

`BlockFetcher_proofs` proves, for any set of accounts, any length of the chain,
any `GcOffset >= 1` and any number of failures, from the assumptions named in
`Ledger` and `BlockFetcher`:

- `TypeCorrect`, `NextUnstoredHolds`, `BlocksContiguousHolds`, `FeeHasBakerHolds`,
  `RewardsCompleteHolds`, `RewardsSoundHolds`: every
  invariant of the run `block_fetcher`, and `FeeHasBaker`, which `daemon` checks;
- `ImplementsIndexHolds`: `Spec => ImplementsIndex`, the refinement without its
  fairness.

None of the invariants is inductive.  The strengthening comes in two parts.
`IndexInv` says where a pass is: the table has a greatest height, which is
finalized; `height` is the next one; the height in progress is at most `target`
and `target` is finalized; the account in hand is one of `todo`, and `todo` is
empty when the block is stored.  From that, storing extends the table by one and
collecting spares the last block.  `RewardInv` adds what has been done for the
block in progress (`Progress`), that stored blocks have their rewards in pairs
and that `since` is never ahead of the table: it is what makes `Store` publish a
complete block.  The rows that a failed pass left are covered since `Progress`
speaks of accounts outside `todo` only.  One lemma for each action that writes something, a
stutter lemma for the others; `RefinesStep` maps `Finalize` to `Grow`, `Store`
to `IndexBlock` and every other step to a stutter.

`Sessions_proofs` proves, for any users, any lifetime and any finite set of
requests (`RequestAssumption`: the bound on sessions counts the requests that
will create one):

- `SessionsTypeCorrect`, `LatestSessionOnlyHolds`, `GrantedToOwnerHolds`,
  `SessionFixedHolds`, `ImplementsTokensHolds`: every property of the run
  `sessions`.

The invariant `SessionsInv` adds to them that the index is never broken, that a
row belongs to the user its token was issued to (`RowsOwned`), that the token and
the user in a handler's hands agree with `owner` at each of its steps
(`HandlerOK`), and that the sessions promised to the authorizations under way
fit the bound.  The one surprising argument is `UpdateChangesNothing`: the update
without a filter gives all rows one user, so the index accepts it only when there
is a single row, and then it writes what was there.  It is also why `Honour` of
`Tokens` may leave the good tokens alone.  A handler is mapped to the call that
decides: `CreateSession` gives the token, `UseSession` honours it, and what the
handlers do before or after that is not seen.

`Daemon_proofs` proves, for finitely many accounts (`AccountAssumption`: the job
reads the accounts that wait into a list), any chain and any number of failures,
posts and restarts:

- `DaemonTypeCorrect`, `RefreshedOnceHolds`, `DaemonFeeHasBaker`,
  `DaemonRewardsComplete`: the invariants of `Daemon` that the runs check;
- `DaemonKeepsIndex`: the fetcher's own invariants, which the runs of `Daemon`
  do not check again;
- `DaemonImplementsIndex`: the composition implements `ChainIndex` too, again
  without its fairness;
- `RewardAsksForRefreshHolds`: the invariant of `RefreshHistory`.

`DaemonInv` takes `IndexInv` and `RewardInv` from the fetcher's proof and adds a
part for each of the two other jobs.  `RefreshInv` says
that each row has one place in the scan order, that the refresher has no account
twice and none without a row, and that the block it writes balances from is a
finalized one.  `RepairInv` says what the repairer may rely on: a block it has
in hand has the baker reward of the account it repairs.  From these follows the
one argument that is new, `StoredInPairs`: of a stored block that rewards an
account, a baker reward comes with its fee, so the fee that the repairer writes
after it is already there and readers of the index see nothing.

`RewardAsksForRefresh` needs `AskInv` on top of `DaemonInv`: what the property
says of stored blocks holds of the block in progress as well from the moment its
accounts are marked until it is stored.  The refresher writes at a time when
every stored block is finalized, so its write answers every mark it clears.

`Process_proofs` proves, for any finite set of jobs, any of them with an
exhausted schedule, any version of the file at the start and any kills, restarts
and edits of the configuration:

- `ProcessTypeCorrect`, `GracefulStops`, `NoneReturnsAlone`, `OneMoreRun`,
  `JobsMeetTheirSchema`: every invariant of the run `process`.

`ProcessInv` is the types and three parts.  `Barrier`: those who have arrived are the jobs that
have stopped, and nobody returns before all have.  `LastRuns`: a job with a next
occurrence that has begun an execution since the channel was closed is not asleep
again, since its next turn finds the channel closed; of the exhausted ones it says
nothing, as they may go on.  `Migrated`: the schema is the one of the version
recorded, and tasks are only alive once that is the last version and the
schedules have been parsed;
`AllMigrations` shows that this is the schema of the queries.

`Api_proofs` proves, for any callers, any clients among them, any handlers they
may ask for and any number of failures:

- `ApiTypeCorrect`, `Durable` (`AckedStays`), `TrueNotFound` (`NotFoundIsTrue`),
  `ToldOnce` (`CreatedOnce`);
- `PoolIsAtomic`: `Spec => ImplementsStore`, the pool under the handlers is an
  atomic store.

`PoolInv` says that at most one closure runs, and only a transaction past its
first statement has something staged.  It suffices for the refinement: what is
committed changes at one statement of a call, or at two for `create_pair`, which
has no transaction (`Torn`).  `RequestInv` says that the calls before a handler's
position have written their rows, that what a request knew is still there, and,
for `CreatedOnce`, that of those under way one request at most has inserted a
given pair or user, and no client has been told of it (`OneInserter`).

`StatusChecker_proofs` proves `StatusTypeCorrect`, `TableStaysSmall`
(`TableBounded`) and `OwnReportSurvives` (`OwnReportKept`) for any
`MaxReports >= 1` and any failures.  The bound of the table starts again with each
collection (`added`), so it says that one collection is enough after any number
of failures.  The invariant adds `OwnReport`: between its
insertion and the collection, the report of the pass is in the table, as many
places from the end as the clock was behind (`lag`).

`Prices_proofs` proves `PricesTypeCorrect` and `PricesMatch`, for any pairs and
listed symbols, without assuming that all are listed as the run `prices` does:
as long as the pairs *created* are listed, each price is the one of its pair.
The condition is needed (`price_shifted`), and nothing the job does can make it
false; pairs created during a pass are covered.  The argument is `QuotedRight`,
the pairs asked and the tickers received agree position by position.  It rests
on `TickersAreAsked`: the exchange answers in the order of the request and drops
what it does not list, and if it lists all of it the n-th ticker is the n-th
pair, which is a counting argument (`Ranks`).

Since the prover has no induction over data, definitions that the proofs reach
avoid recursion: the list that the refresher reads is *the* enumeration that
ascends by row (`InRowOrder`), the tickers are given by rank, and `SchemaAfter`
takes the columns that a migration added and no later one dropped.

With TLC only: liveness, that is every `~>` and `<>` and the fairness of
`ChainIndex`, which is beyond the prover, and the four runs that must be violated.

## What is not modelled

- the bodies of responses and the filters of lists, which are pure reads;
- `get_baker` of the node, whose answer is one more value in an account's row,
  and the wire formats of the node, Bitfinex and SQLite beyond what is said above;
- the amounts: `rust_decimal`, the difference of balance and stake; the getters
  of `model.rs`; generated code (`schema.rs` is modelled by its columns);
- the cron schedules: when an execution is due; password hashing, and the
  signature and expiry of tokens beyond valid or not;
- a migration that the *data* of an earlier version refuses (a unique index over
  duplicates, say): nothing in the code says what should become of it;
- the command line, logging, and the migrations' `down.sql`, which the daemon
  never runs.

## Plan

Done, in this order: `Ledger`, `BlockFetcher`, `ChainIndex` and the proofs;
`AccountsRefresher`, `RewardRepairer`, `Daemon`; `Scheduler`; `Sessions`
and its proofs; `Prices`; `StatusChecker`; `Store`, `Pool`, `Api`; `Process`.

All safety properties of the runs that pass are proved as well, and `Tokens` with
the proof that `Sessions` implements it.

The marks have a specification of their own (`RefreshHistory`), and the refresher
is checked with an account that is off the chain (`daemon_live`).

Left: an abstract specification of the shutdown (a request to stop, and one
answer) that `Scheduler` implements; an exchange that answers in another order.
