---------------------------- MODULE Daemon_proofs ----------------------------
(***************************************************************************)
(* Proofs about the three jobs together, next to the HTTP interface: what  *)
(* is proved of the block fetcher alone still holds when the refresher and *)
(* the repairer write to the same tables and all of them restart at once.  *)
(***************************************************************************)
EXTENDS RefreshHistory, BlockFetcher_proofs, SequenceLemmas

-----------------------------------------------------------------------------
(* The inductive invariant. *)

\* The refresher writes balances of a real block only.
RefreshInv ==
  /\ RefresherTypeOK
  /\ RefreshedOnce
  /\ refreshPc = "accounts" => tip \in Height

\* The repairer writes rewards of the blocks it has a baker reward of.
RepairInv ==
  /\ RepairerTypeOK
  /\ \A a \in repaired, h \in toRepair : <<a, h, "baker">> \in rewards
  /\ repairPc = "fee" => repairAt \in toRepair

DaemonInv == IndexInv /\ RewardInv /\ RefreshInv /\ RepairInv

-----------------------------------------------------------------------------
(* The blocks and their rewards. *)

\* Whatever is done to marks, balances and amounts leaves the index alone; so
\* does the end of a pass of the fetcher.
LEMMA OtherTables ==
  ASSUME IndexInv, RewardInv,
         UNCHANGED <<finalized, payday, blocks, followed, rewards, since>>,
         pending' \in SUBSET followed, balanceAt' \in [Account -> 0 .. MaxHeight],
         zeroed' \in SUBSET Row, faults' \in 0 .. MaxFaults,
         Rest \/ UNCHANGED fetcher
  PROVE  IndexInv' /\ RewardInv' /\ UNCHANGED Index!vars
<1>1. LastHeight' = LastHeight
  BY DEF LastHeight
<1>2. finalized \in Nat
  BY WalkFacts
<1>3. FetcherTypeOK' /\ Walk'
  BY <1>1, <1>2, HeightAssumption
  DEF Rest, fetcher, IndexInv, TypeOK, FetcherTypeOK, Walk, NextUnstored, Steps, InBlock, Filling
<1>4. LedgerTypeOK'
  BY DEF IndexInv, TypeOK, LedgerTypeOK
<1>5. HasLast' /\ BlocksContiguous'
  BY <1>1 DEF IndexInv, HasLast, BlocksContiguous
<1>6. Progress'
  BY DEF Rest, fetcher, RewardInv, Progress, Filling
<1>7. RewardInv'
  BY <1>1, <1>6
  DEF RewardInv, RewardsSound, FeeHasBaker, RewardsComplete, StoredInPairs, SincePast
<1>8. UNCHANGED Index!vars
  BY <1>1 DEF Index!vars
<1> QED
  BY <1>3, <1>4, <1>5, <1>7, <1>8 DEF IndexInv, TypeOK

\* The repairer adds no baker reward.
LEMMA SameBakerReward ==
  ASSUME IndexInv, RewardInv, RepairInv, NEW a \in Account, NEW h \in Height, RepairBaker(a, h),
         UNCHANGED fetcher
  PROVE  IndexInv' /\ RewardInv' /\ UNCHANGED Index!vars
<1>1. rewards' = rewards
  BY DEF RepairBaker, RepairInv, SetReward
<1>2. zeroed' \in SUBSET Row
  BY DEF RepairBaker, SetReward, IndexInv, TypeOK, LedgerTypeOK
<1>3. /\ UNCHANGED <<finalized, payday, blocks, followed, pending, balanceAt, since, faults>>
  BY DEF RepairBaker, chain, accounts
<1> QED
  BY <1>1, <1>2, <1>3, OtherTables DEF IndexInv, TypeOK, LedgerTypeOK

\* A fee that it adds belongs to a block that is not stored yet: readers see no
\* new row.
LEMMA RepairedFee ==
  ASSUME IndexInv, RewardInv, RepairInv, NEW a \in Account, RepairFee(a), UNCHANGED fetcher
  PROVE  IndexInv' /\ RewardInv' /\ UNCHANGED Index!vars
<1> DEFINE h == repairAt
<1>1. /\ UNCHANGED <<finalized, payday, blocks, followed, pending, balanceAt, since, faults>>
      /\ UNCHANGED <<fetchPc, target, height, todo, current>>
      /\ rewards' = rewards \cup {<<a, h, "fee">>}
      /\ zeroed' = zeroed \ {<<a, h, "fee">>}
  BY DEF RepairFee, SetReward, chain, accounts, fetcher
<1>2. h \in Height /\ <<a, h, "baker">> \in rewards
  BY DEF RepairFee, RepairInv, RepairerTypeOK
<1> HIDE DEF h
<1>3. LastHeight' = LastHeight
  BY <1>1 DEF LastHeight
<1>4. LedgerTypeOK'
  BY <1>1, <1>2 DEF IndexInv, TypeOK, LedgerTypeOK, Row, Kind
<1>5. IndexInv'
  BY <1>1, <1>3, <1>4
  DEF IndexInv, TypeOK, FetcherTypeOK, HasLast, Walk, NextUnstored, BlocksContiguous
<1>6. RewardsSound'
  BY <1>1, <1>2, <1>3 DEF RewardInv, RewardsSound, Kind
<1>7. FeeHasBaker' /\ RewardsComplete' /\ StoredInPairs' /\ SincePast'
  BY <1>1, <1>2, <1>3 DEF RewardInv, FeeHasBaker, RewardsComplete, StoredInPairs, SincePast
<1>8. Progress'
  BY <1>1 DEF RewardInv, Progress
<1>9. ASSUME h <= LastHeight PROVE UNCHANGED Index!vars
  <2>1. h \in FirstHeight .. LastHeight
    BY <1>2, <1>9, WalkFacts DEF Height
  <2>2. <<a, h, "fee">> \in rewards
    BY <1>2, <2>1 DEF RewardInv, StoredInPairs
  <2>3. rewards' = rewards
    BY <1>1, <2>2
  <2> QED
    BY <1>1, <1>3, <2>3 DEF Index!vars
<1>10. ASSUME ~(h <= LastHeight) PROVE UNCHANGED Index!vars
  <2>1. Visible' = Visible
    BY <1>1, <1>3, <1>10 DEF Visible
  <2> QED
    BY <1>1, <1>3, <2>1 DEF Index!vars, Visible
<1> QED
  BY <1>5, <1>6, <1>7, <1>8, <1>9, <1>10 DEF RewardInv

\* A job that fails, or the daemon that is killed, leaves the tables.
LEMMA Fault ==
  ASSUME IndexInv, RewardInv, faults < MaxFaults, faults' = faults + 1,
         UNCHANGED <<chain, tables, since>>, Rest \/ UNCHANGED fetcher
  PROVE  IndexInv' /\ RewardInv' /\ UNCHANGED Index!vars
<1>1. faults' \in 0 .. MaxFaults
  BY MaxFaultsAssumption DEF IndexInv, TypeOK, LedgerTypeOK
<1>2. UNCHANGED <<finalized, payday, blocks, followed, pending, balanceAt, rewards, zeroed, since>>
  BY DEF chain, tables
<1> QED
  BY <1>1, <1>2, OtherTables DEF IndexInv, TypeOK, LedgerTypeOK

\* A refreshed account was followed, so no row is added.
LEMMA RefreshedRow ==
  ASSUME IndexInv, RewardInv, RefreshInv, RefreshAccount, UNCHANGED fetcher
  PROVE  /\ IndexInv' /\ RewardInv' /\ UNCHANGED Index!vars
         /\ followed' = followed
<1>1. Head(waiting) \in followed
  BY RestOfList DEF RefreshAccount, RefreshInv, RefresherTypeOK
<1>2. followed' = followed /\ pending' = pending \ {Head(waiting)}
  BY <1>1 DEF RefreshAccount, SetAccount
<1>3. balanceAt' \in [Account -> 0 .. MaxHeight]
  BY DEF RefreshAccount, SetAccount, RefreshInv, RefresherTypeOK, IndexInv, TypeOK, LedgerTypeOK
<1>4. UNCHANGED <<finalized, payday, blocks, rewards, zeroed, since, faults>>
  BY DEF RefreshAccount, chain
<1> QED
  BY <1>2, <1>3, <1>4, OtherTables DEF IndexInv, TypeOK, LedgerTypeOK

\* Every step of the daemon keeps the index as a step of the fetcher does.
LEMMA DaemonIndexStep ==
  ASSUME DaemonInv, [DaemonNext]_daemonVars
  PROVE  IndexInv' /\ RewardInv' /\ [Index!Next]_(Index!vars)
<1>1. IndexInv /\ RewardInv /\ RefreshInv /\ RepairInv
  BY DEF DaemonInv
<1>2. ASSUME [Next]_fetcherVars
      PROVE  IndexInv' /\ RewardInv' /\ [Index!Next]_(Index!vars)
  BY <1>1, <1>2, IndexStep, RewardStep, RefinesStep
<1>3. CASE FetcherStep
  BY <1>2, <1>3 DEF FetcherStep, Next
<1>4. ASSUME NEW a \in Account, Post(a)
      PROVE  IndexInv' /\ RewardInv' /\ [Index!Next]_(Index!vars)
  BY <1>2, <1>4 DEF Post, Next, Environment
<1>5. CASE Produce
  BY <1>2, <1>5 DEF Produce, Next, Environment
<1>6. CASE RefresherStep
  <2>1. UNCHANGED fetcher
    BY <1>6 DEF RefresherStep
  <2>2. CASE ListForUpdate \/ FetchTip \/ UnknownAccount \/ EndRefresh
    BY <1>2, <2>1, <2>2 DEF ListForUpdate, FetchTip, UnknownAccount, EndRefresh, fetcherVars
  <2>3. CASE RefreshAccount
    BY <1>1, <2>1, <2>3, RefreshedRow
  <2>4. CASE FailRefresh
    BY <1>1, <2>1, <2>4, Fault DEF FailRefresh
  <2> QED
    BY <1>6, <2>2, <2>3, <2>4 DEF RefresherStep, Refresh
<1>7. CASE RepairerStep
  <2>1. UNCHANGED fetcher
    BY <1>7 DEF RepairerStep
  <2>2. CASE ListAccounts \/ (\E a \in Account : ListRewards(a)) \/ EndRewards \/ EndRepair
    BY <1>2, <2>1, <2>2 DEF ListAccounts, ListRewards, EndRewards, EndRepair, fetcherVars
  <2>3. CASE \E a \in Account, h \in Height : RepairBaker(a, h)
    BY <1>1, <2>1, <2>3, SameBakerReward
  <2>4. CASE \E a \in Account : RepairFee(a)
    BY <1>1, <2>1, <2>4, RepairedFee
  <2>5. CASE FailRepair
    BY <1>1, <2>1, <2>5, Fault DEF FailRepair
  <2> QED
    BY <1>7, <2>2, <2>3, <2>4, <2>5 DEF RepairerStep, Repair
<1>8. CASE Restart
  BY <1>1, <1>8, Fault DEF Restart
<1>9. CASE UNCHANGED daemonVars
  BY <1>2, <1>9 DEF daemonVars, fetcherVars
<1> QED
  BY <1>3, <1>4, <1>5, <1>6, <1>7, <1>8, <1>9 DEF DaemonNext

-----------------------------------------------------------------------------
(* The refresher and the repairer. *)

\* A step of the fetcher adds marks and rewards only.
LEMMA FetcherAdds ==
  ASSUME Fetch \/ NoHash \/ FailFetch
  PROVE  UNCHANGED <<followed, balanceAt>> /\ pending \subseteq pending' /\ rewards \subseteq rewards'
<1>1. CASE FetchLastBlock \/ ReadLastBlock \/ FetchBlock \/ EndLoop \/ ReadAccounts
  BY <1>1 DEF FetchLastBlock, ReadLastBlock, FetchBlock, EndLoop, ReadAccounts, ledger, tables
<1>2. CASE (\E a \in Account : InsertBakerReward(a)) \/ InsertFee
  BY <1>2 DEF InsertBakerReward, InsertFee, SetReward, accounts
<1>3. CASE MarkForUpdate \/ Store \/ Collect
  BY <1>3 DEF MarkForUpdate, SetForUpdate, Store, Collect, accounts
<1>4. CASE NoHash \/ FailFetch
  BY <1>4 DEF NoHash, FailFetch, tables
<1> QED
  BY <1>1, <1>2, <1>3, <1>4 DEF Fetch

LEMMA RefreshKept ==
  ASSUME RefreshInv, UNCHANGED <<followed, balanceAt, rowOrder>>, pending \subseteq pending',
         RefresherRest \/ UNCHANGED refresher
  PROVE  RefreshInv'
<1>1. UNCHANGED refresher => RefreshInv'
  BY DEF refresher, RefreshInv, RefresherTypeOK, RefreshedOnce
<1>2. ASSUME RefresherRest PROVE RefreshInv'
  <2>1. <<>> \in Seq(followed) /\ IsInjective(<<>>)
    BY DEF IsInjective
  <2>2. RefresherTypeOK'
    BY <1>2, <2>1, HeightAssumption DEF RefresherRest, RefreshInv, RefresherTypeOK
  <2> QED
    BY <1>2, <2>2 DEF RefresherRest, RefreshInv, RefreshedOnce
<1> QED
  BY <1>1, <1>2

LEMMA RepairKept ==
  ASSUME RepairInv, rewards \subseteq rewards', RepairerRest \/ UNCHANGED repairer
  PROVE  RepairInv'
BY DEF RepairerRest, repairer, RepairInv, RepairerTypeOK

\* The refresher lists the accounts that wait, each once.
LEMMA RefresherKeeps ==
  ASSUME IndexInv, RefreshInv, Refresh, UNCHANGED fetcher, RewardInv
  PROVE  RefreshInv'
<1>t. /\ pending \in SUBSET followed /\ followed \in SUBSET Account
      /\ IsFiniteSet(pending) /\ finalized \in Height
      /\ balanceAt \in [Account -> 0 .. MaxHeight]
      /\ FirstHeight \in Nat /\ MaxHeight \in Nat
  <2>1. pending \in SUBSET Account
    BY DEF IndexInv, TypeOK, LedgerTypeOK
  <2> QED
    BY <2>1, AccountAssumption, FS_Subset, HeightAssumption DEF IndexInv, TypeOK, LedgerTypeOK
<1>1. CASE ListForUpdate
  <2>1. waiting' \in Seq(pending) /\ IsInjective(waiting')
    BY <1>t, <1>1, Enumeration DEF ListForUpdate
  <2>2. waiting' \in Seq(followed)
    BY <1>t, <2>1, SeqMonotonic
  <2>3. UNCHANGED <<followed, pending, balanceAt, rowOrder, tip>> /\ refreshPc' = "tip"
    BY <1>1 DEF ListForUpdate, ledger, tables
  <2> QED
    BY <2>1, <2>2, <2>3 DEF RefreshInv, RefresherTypeOK, RefreshedOnce
<1>2. CASE FetchTip
  BY <1>t, <1>2 DEF FetchTip, ledger, tables, RefreshInv, RefresherTypeOK, RefreshedOnce, Height
<1>3. CASE RefreshAccount
  <2>1. followed' = followed
    BY <1>3, RefreshedRow
  <2>2. Tail(waiting) \in Seq(followed) /\ IsInjective(Tail(waiting))
    BY <1>3, RestOfList DEF RefreshAccount, RefreshInv, RefresherTypeOK
  <2>3. UNCHANGED <<rowOrder, refreshPc, tip>> /\ waiting' = Tail(waiting) /\ tip \in Height
    BY <1>3 DEF RefreshAccount, RefreshInv
  <2>4. RefreshedOnce'
    BY <1>t, <1>3, <2>1, <2>3 DEF RefreshAccount, SetAccount, RefreshInv, RefreshedOnce, Height
  <2> QED
    BY <2>1, <2>2, <2>3, <2>4 DEF RefreshInv, RefresherTypeOK
<1>4. CASE UnknownAccount \/ EndRefresh
  BY <1>4, RefreshKept DEF UnknownAccount, EndRefresh, ledger, tables
<1> QED
  BY <1>1, <1>2, <1>3, <1>4 DEF Refresh

\* A new row comes last and waits for a refresh, also when it was there.
LEMMA PostKeeps ==
  ASSUME IndexInv, RefreshInv, NEW a \in Account, Post(a)
  PROVE  RefreshInv'
<1>1. /\ followed' = followed \cup {a} /\ pending' = pending \cup {a}
      /\ balanceAt' = [balanceAt EXCEPT ![a] = 0]
      /\ rowOrder' = IF a \in followed THEN rowOrder ELSE Append(rowOrder, a)
      /\ UNCHANGED <<refreshPc, waiting, tip>>
  BY DEF Post, Follow, SetAccount, AppendRow, refresher
<1>2. rowOrder' \in Seq(followed') /\ IsInjective(rowOrder') /\ followed' \subseteq ToSet(rowOrder')
  <2>1. CASE a \in followed
    <3>1. followed' = followed /\ rowOrder' = rowOrder
      BY <1>1, <2>1
    <3> QED
      BY <3>1 DEF RefreshInv, RefresherTypeOK
  <2>2. CASE a \notin followed
    BY <1>1, <2>2, NewRow DEF RefreshInv, RefresherTypeOK
  <2> QED
    BY <2>1, <2>2
<1>3. waiting' \in Seq(followed') /\ IsInjective(waiting')
  BY <1>1, SeqMonotonic DEF RefreshInv, RefresherTypeOK
<1>4. RefreshedOnce'
  BY <1>1 DEF RefreshInv, RefreshedOnce, IndexInv, TypeOK, LedgerTypeOK
<1> QED
  BY <1>1, <1>2, <1>3, <1>4 DEF RefreshInv, RefresherTypeOK

LEMMA RepairerKeeps ==
  ASSUME IndexInv, RepairInv, Repair
  PROVE  RepairInv'
<1>t. followed \in SUBSET Account
  BY DEF IndexInv, TypeOK, LedgerTypeOK
<1>1. CASE ListAccounts
  BY <1>t, <1>1 DEF ListAccounts, ledger, tables, RepairInv, RepairerTypeOK
<1>2. ASSUME NEW a \in Account, ListRewards(a) PROVE RepairInv'
  BY <1>2 DEF ListRewards, ledger, tables, RepairInv, RepairerTypeOK
<1>3. ASSUME NEW a \in Account, NEW h \in Height, RepairBaker(a, h) PROVE RepairInv'
  BY <1>3 DEF RepairBaker, SetReward, RepairInv, RepairerTypeOK
<1>4. ASSUME NEW a \in Account, RepairFee(a) PROVE RepairInv'
  BY <1>4 DEF RepairFee, SetReward, RepairInv, RepairerTypeOK
<1>5. CASE EndRewards
  BY <1>5 DEF EndRewards, ledger, tables, RepairInv, RepairerTypeOK
<1>6. CASE EndRepair
  BY <1>6, RepairKept DEF EndRepair, ledger, tables
<1> QED
  BY <1>1, <1>2, <1>3, <1>4, <1>5, <1>6 DEF Repair

-----------------------------------------------------------------------------
(* The steps of the daemon. *)

LEMMA DaemonStart == ASSUME DaemonInit PROVE DaemonInv /\ Index!Init
<1>1. Init
  BY DEF DaemonInit, Init
<1>2. IndexInv /\ RewardInv /\ Index!Init
  BY <1>1, IndexInit, RewardInit, RefinesInit
<1>3. followed \in SUBSET Account /\ pending = followed
  BY DEF DaemonInit, LedgerInit
<1>4. IsFiniteSet(followed)
  BY <1>3, AccountAssumption, FS_Subset
<1>5. rowOrder \in Seq(followed) /\ IsInjective(rowOrder) /\ followed \subseteq ToSet(rowOrder)
  BY <1>4, Enumeration DEF DaemonInit, RefresherInit
<1>6. <<>> \in Seq(followed) /\ IsInjective(<<>>)
  BY DEF IsInjective
<1>7. RefreshInv
  BY <1>3, <1>5, <1>6, HeightAssumption
  DEF DaemonInit, RefresherInit, RefreshInv, RefresherTypeOK, RefreshedOnce
<1>8. RepairInv
  BY DEF DaemonInit, RepairerInit, RepairInv, RepairerTypeOK
<1> QED
  BY <1>2, <1>7, <1>8 DEF DaemonInv

LEMMA DaemonStep == ASSUME DaemonInv, [DaemonNext]_daemonVars PROVE DaemonInv'
<1>1. IndexInv /\ RewardInv /\ RefreshInv /\ RepairInv
  BY DEF DaemonInv
<1>2. IndexInv' /\ RewardInv'
  BY DaemonIndexStep
<1>3. CASE FetcherStep
  <2>1. /\ UNCHANGED <<followed, balanceAt>> /\ pending \subseteq pending' /\ rewards \subseteq rewards'
        /\ UNCHANGED <<rowOrder, refresher, repairer>>
    BY <1>3, FetcherAdds DEF FetcherStep
  <2> QED
    BY <1>1, <1>2, <2>1, RefreshKept, RepairKept DEF DaemonInv
<1>4. CASE RefresherStep
  <2>1. UNCHANGED <<fetcher, repairer>>
    BY <1>4 DEF RefresherStep
  <2>2. rewards' = rewards
    BY <1>4
    DEF RefresherStep, Refresh, ListForUpdate, FetchTip, RefreshAccount, UnknownAccount, EndRefresh,
        FailRefresh, ledger, tables
  <2>3. RepairInv'
    BY <1>1, <2>1, <2>2, RepairKept
  <2>4. CASE Refresh
    BY <1>1, <1>2, <2>1, <2>3, <2>4, RefresherKeeps DEF DaemonInv
  <2>5. CASE FailRefresh
    BY <1>1, <1>2, <2>3, <2>5, RefreshKept DEF DaemonInv, FailRefresh, tables
  <2> QED
    BY <1>4, <2>4, <2>5 DEF RefresherStep
<1>5. CASE RepairerStep
  <2>1. UNCHANGED <<followed, pending, balanceAt, rowOrder, refresher>>
    BY <1>5
    DEF RepairerStep, Repair, ListAccounts, ListRewards, RepairBaker, RepairFee, EndRewards, EndRepair,
        FailRepair, ledger, tables, accounts
  <2>2. RefreshInv'
    BY <1>1, <2>1, RefreshKept
  <2>3. CASE Repair
    BY <1>1, <1>2, <2>2, <2>3, RepairerKeeps DEF DaemonInv
  <2>4. CASE FailRepair
    BY <1>1, <1>2, <2>2, <2>4, RepairKept DEF DaemonInv, FailRepair, tables
  <2> QED
    BY <1>5, <2>3, <2>4 DEF RepairerStep
<1>6. ASSUME NEW a \in Account, Post(a) PROVE DaemonInv'
  <2>1. rewards' = rewards /\ UNCHANGED repairer
    BY <1>6 DEF Post, Follow
  <2> QED
    BY <1>1, <1>2, <1>6, <2>1, PostKeeps, RepairKept DEF DaemonInv
<1>7. CASE Produce
  BY <1>1, <1>2, <1>7, RefreshKept, RepairKept DEF DaemonInv, Produce, Finalize, tables
<1>8. CASE Restart
  BY <1>1, <1>2, <1>8, RefreshKept, RepairKept DEF DaemonInv, Restart, tables
<1>9. CASE UNCHANGED daemonVars
  BY <1>1, <1>2, <1>9, RefreshKept, RepairKept DEF DaemonInv, daemonVars, ledger, tables
<1> QED
  BY <1>3, <1>4, <1>5, <1>6, <1>7, <1>8, <1>9 DEF DaemonNext

-----------------------------------------------------------------------------
(* The marks, along with the history of the refresher. *)

\* Before it is stored, the block in progress has marked its accounts.
AskInv ==
  /\ writtenAt \in [Account -> Nat]
  /\ RewardAsksForRefresh
  /\ fetchPc = "store" =>
       \A a \in followed : a \in payday[height] => a \in pending \/ height <= writtenAt[a]

\* Every account waits for a refresh when the daemon starts.
LEMMA AskStart == ASSUME HistoryInit PROVE AskInv
BY DEF HistoryInit, DaemonInit, LedgerInit, FetcherInit, AskInv, RewardAsksForRefresh

\* A step that stores no block and clears no mark.
LEMMA AskKept ==
  ASSUME AskInv, UNCHANGED <<payday, blocks, followed, writtenAt>>, pending \subseteq pending',
         fetchPc' = "store" => fetchPc = "store" /\ height' = height
  PROVE  AskInv'
<1>1. LastHeight' = LastHeight
  BY DEF LastHeight
<1> QED
  BY <1>1 DEF AskInv, RewardAsksForRefresh

\* The steps of the fetcher: the marks are set before the block is stored.
LEMMA AskFetcher ==
  ASSUME DaemonInv, AskInv, Fetch \/ NoHash \/ FailFetch, UNCHANGED writtenAt
  PROVE  AskInv'
<1> USE DEF DaemonInv
<1>1. CASE FetchLastBlock \/ ReadLastBlock \/ FetchBlock \/ EndLoop \/ ReadAccounts
  BY <1>1, AskKept
  DEF FetchLastBlock, ReadLastBlock, FetchBlock, EndLoop, ReadAccounts, ledger, tables
<1>2. CASE NoHash \/ FailFetch
  BY <1>2, AskKept DEF NoHash, FailFetch, Rest, chain, tables
<1>3. ASSUME NEW a \in Account, InsertBakerReward(a) PROVE AskInv'
  BY <1>3, AskKept DEF InsertBakerReward, chain, accounts
<1>4. CASE InsertFee
  BY <1>4, AskKept DEF InsertFee, chain, accounts
<1>5. CASE MarkForUpdate
  <2>1. LastHeight' = LastHeight
    BY <1>5 DEF MarkForUpdate, LastHeight
  <2> QED
    BY <1>5, <2>1 DEF MarkForUpdate, SetForUpdate, chain, AskInv, RewardAsksForRefresh
<1>6. CASE Store
  <2>1. height = LastHeight + 1 /\ LastHeight' = height /\ LastHeight \in Nat
    BY <1>6, StoreLast, WalkFacts
  <2>2. \A h \in FirstHeight .. LastHeight' : h \in FirstHeight .. LastHeight \/ h = height
    BY <2>1, HeightAssumption
  <2>3. fetchPc = "store" /\ fetchPc' = "loop"
    BY <1>6 DEF Store
  <2>4. UNCHANGED <<payday, followed, pending>>
    BY <1>6 DEF Store, chain, accounts
  <2> QED
    BY <2>2, <2>3, <2>4 DEF AskInv, RewardAsksForRefresh
<1>7. CASE Collect
  <2>1. LastHeight' = LastHeight
    BY <1>7, CollectLast
  <2> QED
    BY <1>7, <2>1 DEF Collect, Rest, chain, accounts, AskInv, RewardAsksForRefresh
<1> QED
  BY <1>1, <1>2, <1>3, <1>4, <1>5, <1>6, <1>7 DEF Fetch

\* The write that clears a mark comes after every block stored so far, and after
\* the one in progress, was finalized.
LEMMA AskRefreshed ==
  ASSUME DaemonInv, AskInv, RefreshAccount, UNCHANGED fetcher,
         writtenAt' = [writtenAt EXCEPT ![Head(waiting)] = finalized]
  PROVE  AskInv'
<1>1. followed' = followed
  BY RefreshedRow DEF DaemonInv
<1>2. pending' = pending \ {Head(waiting)} /\ UNCHANGED <<payday, blocks, fetchPc, height>>
  BY DEF RefreshAccount, SetAccount, chain, fetcher
<1>3. LastHeight' = LastHeight
  BY <1>2 DEF LastHeight
<1>4. /\ LastHeight <= finalized /\ LastHeight \in Nat /\ finalized \in Nat
      /\ followed \subseteq Account
      /\ fetchPc = "store" => height <= finalized
  BY WalkFacts DEF DaemonInv, InBlock, Filling
<1>5. \A h \in FirstHeight .. LastHeight : h <= finalized
  BY <1>4, HeightAssumption
<1> QED
  BY <1>1, <1>2, <1>3, <1>4, <1>5 DEF AskInv, RewardAsksForRefresh

\* What is known of finalized blocks stays.
LEMMA AskFinalize ==
  ASSUME DaemonInv, AskInv, Finalize, UNCHANGED <<fetcher, writtenAt>> PROVE AskInv'
<1>1. /\ LastHeight <= finalized /\ LastHeight \in Height /\ finalized \in Nat
      /\ payday \in [Height -> SUBSET OnChain]
      /\ fetchPc = "store" => height \in Height /\ height <= finalized
  BY WalkFacts DEF DaemonInv, InBlock, Filling
<1>2. \A h \in Height : h <= finalized => payday'[h] = payday[h]
  BY <1>1, HeightAssumption DEF Finalize, Height
<1>3. \A h \in FirstHeight .. LastHeight : h \in Height /\ h <= finalized
  BY <1>1, HeightAssumption DEF Height
<1>4. UNCHANGED <<blocks, followed, pending, fetchPc, height, writtenAt>>
  BY DEF Finalize, tables, fetcher
<1>5. LastHeight' = LastHeight
  BY <1>4 DEF LastHeight
<1> QED
  BY <1>1, <1>2, <1>3, <1>4, <1>5 DEF AskInv, RewardAsksForRefresh

\* The write of a row is a step of the refresher and of nobody else.
LEMMA WriterIsRefresher ==
  ASSUME RefreshInv, DaemonNext, RefreshAccount PROVE UNCHANGED fetcher
<1>1. waiting \in Seq(followed) /\ waiting # <<>> /\ waiting' = Tail(waiting)
  BY DEF RefreshAccount, RefreshInv, RefresherTypeOK
<1>2. waiting' # waiting
  <2>1. Len(Tail(waiting)) = Len(waiting) - 1 /\ Len(waiting) \in Nat
    BY <1>1
  <2>2. waiting' = waiting => Len(Tail(waiting)) = Len(waiting)
    BY <1>1, Zenon
  <2>3. Len(waiting) - 1 # Len(waiting)
    BY <2>1
  <2> QED
    BY <2>1, <2>2, <2>3
<1>3. refreshPc' = "accounts"
  BY DEF RefreshAccount
<1> QED
  BY <1>2, <1>3
  DEF DaemonNext, FetcherStep, RefresherStep, RepairerStep, Post, Produce, Restart, RefresherRest,
      refresher

LEMMA AskStep ==
  ASSUME DaemonInv, AskInv, [HistoryNext]_historyVars PROVE AskInv'
<1>1. CASE UNCHANGED historyVars
  BY <1>1, AskKept DEF historyVars, daemonVars, ledger, tables, fetcher
<1>2. CASE DaemonNext /\ RefreshAccount /\ HistoryNext
  BY <1>2, AskRefreshed, WriterIsRefresher DEF HistoryNext, DaemonInv
<1>3. ASSUME DaemonNext, ~RefreshAccount, UNCHANGED writtenAt PROVE AskInv'
  <2>1. CASE FetcherStep
    BY <1>3, <2>1, AskFetcher DEF FetcherStep
  <2>2. CASE RefresherStep
    BY <1>3, <2>2, AskKept
    DEF RefresherStep, Refresh, ListForUpdate, FetchTip, UnknownAccount, EndRefresh, FailRefresh,
        ledger, tables, chain, fetcher
  <2>3. CASE RepairerStep
    BY <1>3, <2>3, AskKept
    DEF RepairerStep, Repair, ListAccounts, ListRewards, RepairBaker, RepairFee, EndRewards, EndRepair,
        FailRepair, ledger, tables, chain, accounts, fetcher
  <2>4. ASSUME NEW a \in Account, Post(a) PROVE AskInv'
    <3>1. LastHeight' = LastHeight
      BY <2>4 DEF Post, Follow, LastHeight
    <3> QED
      BY <1>3, <2>4, <3>1
      DEF Post, Follow, SetAccount, chain, fetcher, AskInv, RewardAsksForRefresh
  <2>5. CASE Produce
    BY <1>3, <2>5, AskFinalize DEF Produce
  <2>6. CASE Restart
    BY <1>3, <2>6, AskKept DEF Restart, Rest, chain, tables
  <2> QED
    BY <1>3, <2>1, <2>2, <2>3, <2>4, <2>5, <2>6 DEF DaemonNext
<1> QED
  BY <1>1, <1>2, <1>3 DEF HistoryNext

-----------------------------------------------------------------------------
(* The theorems. *)

\* The invariant holds in every run of the daemon: all the jobs and the HTTP
\* interface interleaved, passes that fail, and restarts.
THEOREM DaemonInvariant == DaemonSpec => []DaemonInv
<1>1. DaemonInit => DaemonInv
  BY DaemonStart
<1>2. DaemonInv /\ [DaemonNext]_daemonVars => DaemonInv'
  BY DaemonStep
<1> QED
  BY <1>1, <1>2, PTL DEF DaemonSpec

\* Every variable of the three jobs keeps its type; an account has one row, and
\* the refresher only works on accounts that have one.
THEOREM DaemonTypeCorrect == DaemonSpec => []DaemonTypeOK
<1>1. DaemonInv => DaemonTypeOK
  BY DEF DaemonInv, DaemonTypeOK, IndexInv, RefreshInv, RepairInv
<1> QED
  BY <1>1, DaemonInvariant, PTL

\* An account that does not wait for a refresh has had one, also when it is
\* posted again while the refresher has it in hand.
THEOREM RefreshedOnceHolds == DaemonSpec => []RefreshedOnce
<1>1. DaemonInv => RefreshedOnce
  BY DEF DaemonInv, RefreshInv
<1> QED
  BY <1>1, DaemonInvariant, PTL

\* Next to the repairer and the refresher, the fetcher still stores each height
\* once and in order, and no reward is made up, by the repairer either.
THEOREM DaemonKeepsIndex == DaemonSpec => [](NextUnstored /\ BlocksContiguous /\ RewardsSound)
<1>1. DaemonInv => NextUnstored /\ BlocksContiguous /\ RewardsSound
  BY DEF DaemonInv, IndexInv, Walk, RewardInv
<1> QED
  BY <1>1, DaemonInvariant, PTL

\* A fee is never without its baker reward, in the middle of a repair either:
\* RewardRepairer::execute only looks for baker rewards.
THEOREM DaemonFeeHasBaker == DaemonSpec => []FeeHasBaker
<1>1. DaemonInv => FeeHasBaker
  BY DEF DaemonInv, RewardInv
<1> QED
  BY <1>1, DaemonInvariant, PTL

\* A stored block has all the rewards of the accounts followed before it.
THEOREM DaemonRewardsComplete == DaemonSpec => []RewardsComplete
<1>1. DaemonInv => RewardsComplete
  BY DEF DaemonInv, RewardInv
<1> QED
  BY <1>1, DaemonInvariant, PTL

\* The repairer writes rewards of blocks that readers see, and they see none
\* appear or go: the whole daemon implements the index.
THEOREM DaemonImplementsIndex == DaemonSpec => ImplementsIndex
<1>1. DaemonInit => Index!Init
  BY DaemonStart
<1>2. DaemonInv /\ [DaemonNext]_daemonVars => [Index!Next]_(Index!vars)
  BY DaemonIndexStep
<1> QED
  BY <1>1, <1>2, DaemonInvariant, PTL DEF DaemonSpec, ImplementsIndex, Index!Spec

\* No mark is lost: each reward of a stored block has its account refreshed
\* after the block was finalized, or waiting for it.
THEOREM RewardAsksForRefreshHolds == HistorySpec => []RewardAsksForRefresh
<1>1. HistoryInit => DaemonInv /\ AskInv
  BY DaemonStart, AskStart DEF HistoryInit
<1>2. DaemonInv /\ AskInv /\ [HistoryNext]_historyVars => DaemonInv' /\ AskInv'
  <2>1. [HistoryNext]_historyVars => [DaemonNext]_daemonVars
    BY DEF HistoryNext, historyVars
  <2> QED
    BY <2>1, DaemonStep, AskStep
<1>3. AskInv => RewardAsksForRefresh
  BY DEF AskInv
<1> QED
  BY <1>1, <1>2, <1>3, PTL DEF HistorySpec

=============================================================================
