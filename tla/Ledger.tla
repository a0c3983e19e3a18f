------------------------------- MODULE Ledger -------------------------------
(***************************************************************************)
(* What the jobs of bakerd share: the Concordium node they read and the    *)
(* SQLite tables they write.  The node is external; the tables are those   *)
(* of the migrations and every operator on them is one repository call,    *)
(* which the connection pool runs as one atomic closure (AsyncPool::exec). *)
(*                                                                         *)
(* A block is identified with its height and an account with its address.  *)
(* A reward row is <<account, height, kind>>: the amount is left out but   *)
(* for the one distinction the code makes, a row of the wrong amount '0'   *)
(* that the migration of 2022-08-31 left behind.  A balance is the height  *)
(* of the block it was read at, 0 standing for the balance '0' of a row    *)
(* that has never been refreshed.                                          *)
(***************************************************************************)
EXTENDS Integers

CONSTANTS
  Account,      \* addresses a client may ask the daemon to follow
  OnChain,      \* those of them that exist on the chain
  FirstHeight,  \* height of the initial block inserted by the migration
  MaxHeight,    \* bound: the chain is not finalized further
  GcOffset,     \* GC_OFFSET, how many blocks the table keeps
  MaxFaults     \* bound: how many passes of the jobs fail or are killed

ASSUME OnChainAssumption == OnChain \subseteq Account
ASSUME HeightAssumption ==
  /\ FirstHeight \in Nat \ {0}
  /\ MaxHeight \in Nat
  /\ FirstHeight <= MaxHeight
ASSUME GcOffsetAssumption == GcOffset \in Nat \ {0}
ASSUME MaxFaultsAssumption == MaxFaults \in Nat

Height == FirstHeight .. MaxHeight
Kind == {"baker", "fee"}
Row == Account \X Height \X Kind

VARIABLES
  finalized,  \* the node: height of the last finalized block
  payday,     \* the node: the accounts a finalized block rewards
  blocks,     \* table blocks: the heights stored
  followed,   \* table accounts: the accounts that have a row
  pending,    \* table accounts: those whose pending_update is set
  balanceAt,  \* table accounts: the block the balance was read at
  rewards,    \* table account_rewards: its rows
  zeroed,     \* table account_rewards: the rows of amount '0' the migration left
  since,      \* history: the last block stored when the account got its row
  faults      \* how many passes have failed, bounded by MaxFaults

chain == <<finalized, payday>>
accounts == <<followed, pending, balanceAt>>
tables == <<blocks, followed, pending, balanceAt, rewards, zeroed>>
ledger == <<finalized, payday, tables, since, faults>>

LedgerTypeOK ==
  /\ finalized \in Height
  /\ payday \in [Height -> SUBSET OnChain]
  /\ blocks \in SUBSET Height
  /\ followed \in SUBSET Account
  /\ pending \in SUBSET followed
  /\ balanceAt \in [Account -> 0 .. MaxHeight]
  /\ rewards \in SUBSET Row
  /\ zeroed \in SUBSET Row
  /\ since \in [Account -> 0 .. MaxHeight]
  /\ faults \in 0 .. MaxFaults

(***************************************************************************)
(* The daemon has run its migrations and no job has started.  The database *)
(* is new (no account is followed) or it was written by the version before *)
(* the migration of 2022-08-31: its accounts are all pending, their        *)
(* balances '0', and the rewards of its last block are there, zeroed.      *)
(***************************************************************************)
LedgerInit ==
  /\ finalized = FirstHeight
  /\ blocks = {FirstHeight}
  /\ followed \in SUBSET Account
  /\ pending = followed
  /\ balanceAt = [a \in Account |-> 0]
  /\ \E S \in SUBSET OnChain :
       /\ payday = [h \in Height |-> IF h = FirstHeight THEN S ELSE {}]
       /\ rewards = (S \cap followed) \X {FirstHeight} \X Kind
  /\ zeroed = rewards
  /\ since = [a \in Account |-> 0]
  /\ faults = 0

-----------------------------------------------------------------------------
(* The node. *)

\* The consensus finalizes one more block, which rewards the accounts S.
Finalize ==
  /\ finalized + 1 \in Height
  /\ finalized' = finalized + 1
  /\ \E S \in SUBSET OnChain : payday' = [payday EXCEPT ![finalized + 1] = S]
  /\ UNCHANGED <<tables, since, faults>>

-----------------------------------------------------------------------------
(* The repositories. *)

\* BlockRepository::get_last_block: the first row by descending height.
LastHeight == CHOOSE h \in blocks : \A g \in blocks : g <= h

\* BlockRepository::store.  The unique index refuses a height stored twice:
\* NextUnstored in BlockFetcher is why the refusal is not modelled.
StoreBlock(h) == blocks' = blocks \cup {h}

\* Mutant: le instead of lt.
CollectUpTo(h) == blocks' = {b \in blocks : h < b}

\* BlockRepository::garbage_collect.
CollectBelow(h) == blocks' = {b \in blocks : h <= b}

\* AccountRepository::set_reward: insert, or set the amount of the row.
SetReward(a, h, kind) ==
  /\ rewards' = rewards \cup {<<a, h, kind>>}
  /\ zeroed' = zeroed \ {<<a, h, kind>>}

\* Mutant: the flag is taken the wrong way round.
UnsetForUpdate(addresses) == pending' = pending \ addresses

\* Mutant: an upsert, which marks accounts nobody follows.
UpsertForUpdate(addresses) == pending' = pending \cup addresses

\* AccountRepository::set_for_update(addresses, true): addresses without a
\* row are not touched.
SetForUpdate(addresses) == pending' = pending \cup (addresses \cap followed)

\* AccountRepository::set_account: insert the row, or overwrite all of it.
SetAccount(a, balance, isPending) ==
  /\ followed' = followed \cup {a}
  /\ pending' = IF isPending THEN pending \cup {a} ELSE pending \ {a}
  /\ balanceAt' = [balanceAt EXCEPT ![a] = balance]

-----------------------------------------------------------------------------
(* The HTTP interface. *)

\* Mutant: the new row does not ask for a refresh.
FollowUnmarked(a) ==
  /\ SetAccount(a, 0, FALSE)
  /\ since' = IF a \in followed THEN since ELSE [since EXCEPT ![a] = LastHeight]
  /\ UNCHANGED <<chain, blocks, rewards, zeroed, faults>>

\* POST /accounts by an administrator, for an account that has a row or not.
Follow(a) ==
  /\ SetAccount(a, 0, TRUE)
  /\ since' = IF a \in followed THEN since
              ELSE [since EXCEPT ![a] = LastHeight]
  /\ UNCHANGED <<chain, blocks, rewards, zeroed, faults>>

\* What happens outside of the jobs.
Environment == Finalize \/ \E a \in Account : Follow(a)

=============================================================================
