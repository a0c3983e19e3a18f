---------------------------- MODULE BlockFetcher ----------------------------
(***************************************************************************)
(* The job block-fetcher: it walks from the last stored block to the last  *)
(* finalized one and stores, for each block, the rewards of the followed   *)
(* accounts, the mark that asks for a refresh of their balances and, last, *)
(* the block itself.                                                       *)
(*                                                                         *)
(* There is no transaction around a block.  Every await is a step of its   *)
(* own, so that a pass may fail, or the daemon be killed, between any two  *)
(* of them, and the HTTP interface may follow an account meanwhile.  Only  *)
(* reads of the node that follow one another are one step: what the node   *)
(* says of a finalized block never changes.                                *)
(*                                                                         *)
(* The fetcher never reads a mark or a balance.  The job that does and     *)
(* clears the marks, accounts-refresher, is put next to it in Daemon.      *)
(***************************************************************************)
EXTENDS Ledger

CONSTANT NoAccount
ASSUME NoAccountAssumption == NoAccount \notin Account

VARIABLES
  fetchPc,  \* what the job does next; "idle" while it sleeps
  target,   \* local last_block: the last finalized height, read once
  height,   \* local height: the block in progress
  todo,     \* the accounts whose rewards remain to be inserted
  current   \* the account between its baker reward and its fee

fetcher == <<fetchPc, target, height, todo, current>>
fetcherVars == <<ledger, fetcher>>

Steps == {"idle", "last", "loop", "accounts", "rewards", "fee", "store", "collect"}

FetcherTypeOK ==
  /\ fetchPc \in Steps
  /\ target \in 0 .. MaxHeight
  /\ height \in 0 .. MaxHeight + 1
  /\ todo \in SUBSET OnChain
  /\ current \in Account \cup {NoAccount}

TypeOK == LedgerTypeOK /\ FetcherTypeOK

FetcherInit ==
  /\ fetchPc = "idle"
  /\ target = 0
  /\ height = 0
  /\ todo = {}
  /\ current = NoAccount

\* The pass is over and its locals are dropped.
Rest ==
  /\ fetchPc' = "idle"
  /\ target' = 0
  /\ height' = 0
  /\ todo' = {}
  /\ current' = NoAccount

-----------------------------------------------------------------------------
(* BlockFetcher::execute. *)

FetchLastBlock ==
  /\ fetchPc = "idle"
  /\ fetchPc' = "last"
  /\ target' = finalized
  /\ UNCHANGED <<ledger, height, todo, current>>

\* Mutant: the last stored block again instead of the one after it.
ReadSameBlock ==
  /\ fetchPc = "last"
  /\ fetchPc' = "loop"
  /\ height' = LastHeight
  /\ UNCHANGED <<ledger, target, todo, current>>

ReadLastBlock ==
  /\ fetchPc = "last"
  /\ fetchPc' = "loop"
  /\ height' = LastHeight + 1
  /\ UNCHANGED <<ledger, target, todo, current>>

\* The node gives the hash of the block, then its info and its summary.
FetchBlock ==
  /\ fetchPc = "loop"
  /\ height <= target
  /\ fetchPc' = "accounts"
  /\ UNCHANGED <<ledger, target, height, todo, current>>

\* The node knows no hash at this height: the pass breaks out of the loop.
NoHash ==
  /\ fetchPc = "loop"
  /\ height <= target
  /\ faults < MaxFaults
  /\ faults' = faults + 1
  /\ fetchPc' = "collect"
  /\ UNCHANGED <<chain, tables, since, target, height, todo, current>>

EndLoop ==
  /\ fetchPc = "loop"
  /\ target < height
  /\ fetchPc' = "collect"
  /\ UNCHANGED <<ledger, target, height, todo, current>>

Collect ==
  /\ fetchPc = "collect"
  /\ CollectBelow(height - GcOffset)
  /\ Rest
  /\ UNCHANGED <<chain, accounts, rewards, zeroed, since, faults>>

-----------------------------------------------------------------------------
(* BlockFetcher::do_rewards and insert_rewards, then the end of do_block. *)

\* Mutant: the accounts that wait for a refresh already are filtered out.
ReadUnmarked ==
  /\ fetchPc = "accounts"
  /\ fetchPc' = "rewards"
  /\ todo' = payday[height] \cap (followed \ pending)
  /\ UNCHANGED <<ledger, target, height, current>>

\* Mutant: the summary of the last block instead of the one in progress.
ReadTargetRewards ==
  /\ fetchPc = "accounts"
  /\ fetchPc' = "rewards"
  /\ todo' = payday[target] \cap followed
  /\ UNCHANGED <<ledger, target, height, current>>

ReadAccounts ==
  /\ fetchPc = "accounts"
  /\ fetchPc' = "rewards"
  /\ todo' = payday[height] \cap followed
  /\ UNCHANGED <<ledger, target, height, current>>

\* Mutant: the fee is inserted first.
InsertFeeFirst(a) ==
  /\ fetchPc = "rewards"
  /\ a \in todo
  /\ SetReward(a, height, "fee")
  /\ current' = a
  /\ fetchPc' = "fee"
  /\ UNCHANGED <<chain, blocks, accounts, since, faults, target, height, todo>>

InsertBakerReward(a) ==
  /\ fetchPc = "rewards"
  /\ a \in todo
  /\ SetReward(a, height, "baker")
  /\ current' = a
  /\ fetchPc' = "fee"
  /\ UNCHANGED <<chain, blocks, accounts, since, faults, target, height, todo>>

\* Mutant: the fee is taken for inserted when its call has failed.
SkipFee ==
  /\ fetchPc = "fee"
  /\ todo' = todo \ {current}
  /\ current' = NoAccount
  /\ fetchPc' = "rewards"
  /\ UNCHANGED <<ledger, target, height>>

InsertFee ==
  /\ fetchPc = "fee"
  /\ SetReward(current, height, "fee")
  /\ todo' = todo \ {current}
  /\ current' = NoAccount
  /\ fetchPc' = "rewards"
  /\ UNCHANGED <<chain, blocks, accounts, since, faults, target, height>>

MarkForUpdate ==
  /\ fetchPc = "rewards"
  /\ todo = {}
  /\ SetForUpdate(payday[height])
  /\ fetchPc' = "store"
  /\ UNCHANGED <<chain, blocks, followed, balanceAt, rewards, zeroed, since, faults,
                 target, height, todo, current>>

Store ==
  /\ fetchPc = "store"
  /\ StoreBlock(height)
  /\ height' = height + 1
  /\ fetchPc' = "loop"
  /\ UNCHANGED <<chain, accounts, rewards, zeroed, since, faults, target, todo, current>>

-----------------------------------------------------------------------------
\* A call to the node or to the database returns an error, which ends the
\* pass; or the daemon is killed, and restarted with no pass running.
FailFetch ==
  /\ fetchPc # "idle"
  /\ faults < MaxFaults
  /\ faults' = faults + 1
  /\ Rest
  /\ UNCHANGED <<chain, tables, since>>

\* The steps of a pass.
Fetch ==
  \/ FetchLastBlock
  \/ ReadLastBlock
  \/ FetchBlock
  \/ EndLoop
  \/ ReadAccounts
  \/ \E a \in Account : InsertBakerReward(a)
  \/ InsertFee
  \/ MarkForUpdate
  \/ Store
  \/ Collect

Init == LedgerInit /\ FetcherInit

Next ==
  \/ Fetch
  \/ NoHash
  \/ FailFetch
  \/ Environment /\ UNCHANGED fetcher

Spec == Init /\ [][Next]_fetcherVars

\* The scheduler starts the job again and again and every call returns.
FairSpec == Spec /\ WF_fetcherVars(Fetch)

-----------------------------------------------------------------------------
(* Properties. *)

\* The height a pass works on is the one after the last block stored, whatever
\* failed before: no height is stored twice, which the unique index would
\* refuse, and none is skipped.
NextUnstored == fetchPc \notin {"idle", "last"} => height = LastHeight + 1

\* The table of blocks is never empty, even after a garbage collection: a pass
\* that found it empty could never tell where to start again.  It has no hole.
BlocksContiguous ==
  /\ blocks # {}
  /\ \A g, h \in blocks : g .. h \subseteq blocks

\* A fee is only there along with the baker reward of the same block, also in
\* the middle of a block: the reward repairer looks at baker rewards alone and
\* relies on finding every reward through them.
FeeHasBaker ==
  \A a \in Account, h \in Height :
    <<a, h, "fee">> \in rewards => <<a, h, "baker">> \in rewards

\* A block that a reader sees has all of its rewards: every account that it
\* rewards and that was followed before the fetcher reached the block has both
\* of its rows.  The block after the one stored when the account was added may
\* already be in progress, hence the + 1.
RewardsComplete ==
  \A a \in followed, h \in FirstHeight + 1 .. LastHeight :
    a \in payday[h] /\ since[a] + 1 < h => \A k \in Kind : <<a, h, k>> \in rewards

\* No reward is made up: the account is followed, the block finalized and it
\* rewards the account, and at most one block past the last one stored has
\* rewards (the one in progress, or left by a pass that failed).
RewardsSound ==
  \A a \in Account, h \in Height, k \in Kind :
    <<a, h, k>> \in rewards =>
      /\ a \in followed
      /\ a \in payday[h]
      /\ h <= finalized
      /\ h <= LastHeight + 1

\* The fetcher implements the index that the readers expect.
Index == INSTANCE ChainIndex WITH
  last <- LastHeight,
  visible <- {r \in rewards : r[2] <= LastHeight}

\* Readers see blocks appear one at a time, none twice and none skipped, each
\* with all its rewards in pairs; what they see stays.
ImplementsIndex == Index!Spec

\* The same, and every finalized block appears in the end.
ImplementsChainIndex == Index!FairSpec

=============================================================================
