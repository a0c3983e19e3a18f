------------------------- MODULE BlockFetcher_proofs -------------------------
(***************************************************************************)
(* Proofs about the block fetcher, for any set of accounts, any length of  *)
(* the chain, any GC offset and any number of failures.                    *)
(***************************************************************************)
EXTENDS BlockFetcher, TLAPS

-----------------------------------------------------------------------------
(* The inductive invariant. *)

\* What the fetcher does to a block before it stores it.
Filling == {"rewards", "fee", "store"}
InBlock == {"accounts"} \cup Filling

\* The table of blocks has a greatest height, and it is finalized.
HasLast ==
  /\ \E m \in blocks : \A g \in blocks : g <= m
  /\ LastHeight <= finalized

\* A pass works on the next height, which is finalized when it is in a block.
Walk ==
  /\ NextUnstored
  /\ target <= finalized
  /\ fetchPc \in InBlock => height <= target
  /\ fetchPc = "fee" => current \in todo
  /\ fetchPc = "store" => todo = {}

IndexInv == TypeOK /\ HasLast /\ Walk /\ BlocksContiguous

\* The block in progress: the accounts done so far have their two rows, or
\* none if the fetcher has not seen them.
Progress ==
  /\ fetchPc = "fee" => <<current, height, "baker">> \in rewards
  /\ fetchPc \in Filling =>
       /\ todo \subseteq payday[height] \cap followed
       /\ \A a \in (payday[height] \cap followed) \ todo :
            since[a] + 1 < height => \A k \in Kind : <<a, height, k>> \in rewards
       /\ \A a \in Account \ todo :
            <<a, height, "baker">> \in rewards => <<a, height, "fee">> \in rewards

\* A stored block has its rewards in pairs.
StoredInPairs ==
  \A a \in Account, h \in FirstHeight .. LastHeight :
    <<a, h, "baker">> \in rewards => <<a, h, "fee">> \in rewards

\* An account got its row when some block had been stored already.
SincePast == \A a \in Account : since[a] <= LastHeight

RewardInv ==
  /\ RewardsSound
  /\ FeeHasBaker
  /\ RewardsComplete
  /\ StoredInPairs
  /\ SincePast
  /\ Progress

-----------------------------------------------------------------------------
(* The last block. *)

\* Once there is a greatest height, LastHeight is a stored one that bounds all.
LEMMA LastHeightFacts ==
  ASSUME LedgerTypeOK, \E m \in blocks : \A g \in blocks : g <= m
  PROVE  /\ LastHeight \in blocks
         /\ LastHeight \in Height
         /\ \A g \in blocks : g <= LastHeight
BY DEF LastHeight, LedgerTypeOK

-----------------------------------------------------------------------------
(* The walk over the heights: types, the next height, no hole. *)

\* The migrations insert one block, and no pass has started.
LEMMA IndexInit == ASSUME Init PROVE IndexInv
<1> USE HeightAssumption, OnChainAssumption, MaxFaultsAssumption
    DEF Init, LedgerInit, FetcherInit
<1>1. TypeOK
  BY DEF TypeOK, LedgerTypeOK, FetcherTypeOK, Height, Row, Kind, Steps
<1>2. \A g \in blocks : g <= FirstHeight
  OBVIOUS
<1>3. LastHeight = FirstHeight
  BY <1>2 DEF LastHeight
<1>4. HasLast
  BY <1>2, <1>3 DEF HasLast
<1>5. Walk
  BY DEF Walk, NextUnstored, InBlock, Filling
<1>6. BlocksContiguous
  BY DEF BlocksContiguous
<1> QED
  BY <1>1, <1>4, <1>5, <1>6 DEF IndexInv

\* Only two steps write to the table.  Storing makes the block the last one.
LEMMA StoreLast ==
  ASSUME IndexInv, Store
  PROVE  /\ height \in Height
         /\ height = LastHeight + 1
         /\ height <= finalized
         /\ LastHeight' = height
<1> USE HeightAssumption
    DEF IndexInv, TypeOK, LedgerTypeOK, FetcherTypeOK, HasLast, Height
<1>1. /\ LastHeight \in blocks
      /\ LastHeight \in Height
      /\ \A g \in blocks : g <= LastHeight
  BY LastHeightFacts
<1>2. /\ height \in Height
      /\ height = LastHeight + 1
      /\ height <= finalized
  BY <1>1 DEF Store, Walk, NextUnstored, InBlock, Filling
<1>3. height \in blocks' /\ \A g \in blocks' : g <= height
  BY <1>1, <1>2 DEF Store, StoreBlock
<1>4. LastHeight' \in blocks' /\ \A g \in blocks' : g <= LastHeight'
  BY <1>3 DEF LastHeight
<1>5. LastHeight' = height
  BY <1>1, <1>2, <1>3, <1>4 DEF Store, StoreBlock
<1> QED
  BY <1>2, <1>5

\* A garbage collection spares the last block, as GcOffset is not zero.
LEMMA CollectLast ==
  ASSUME IndexInv, Collect
  PROVE  LastHeight \in blocks' /\ LastHeight' = LastHeight
<1> USE HeightAssumption, GcOffsetAssumption
    DEF IndexInv, TypeOK, LedgerTypeOK, FetcherTypeOK, HasLast, Height
<1>1. /\ LastHeight \in blocks
      /\ LastHeight \in Height
      /\ \A g \in blocks : g <= LastHeight
  BY LastHeightFacts
<1>2. LastHeight \in blocks' /\ \A g \in blocks' : g <= LastHeight
  BY <1>1 DEF Collect, CollectBelow, Walk, NextUnstored
<1>3. LastHeight' \in blocks' /\ \A g \in blocks' : g <= LastHeight'
  BY <1>2 DEF LastHeight
<1>4. blocks' \subseteq blocks
  BY DEF Collect, CollectBelow
<1> QED
  BY <1>1, <1>2, <1>3, <1>4

\* Every step keeps the walk.  Only Store and Collect write to the table.
LEMMA IndexStep == ASSUME IndexInv, [Next]_fetcherVars PROVE IndexInv'
<1> USE HeightAssumption, OnChainAssumption, MaxFaultsAssumption, GcOffsetAssumption
<1>last. /\ LastHeight \in blocks
         /\ LastHeight \in Height
         /\ \A g \in blocks : g <= LastHeight
  BY LastHeightFacts DEF IndexInv, TypeOK, HasLast
<1>same. ASSUME blocks' = blocks PROVE LastHeight' = LastHeight
  BY <1>same DEF LastHeight
<1> USE DEF IndexInv, TypeOK, LedgerTypeOK, FetcherTypeOK, HasLast, Walk, NextUnstored,
            BlocksContiguous, InBlock, Filling, Steps, Height
<1>1. CASE FetchLastBlock
  BY <1>last, <1>same, <1>1 DEF FetchLastBlock, ledger, tables
<1>2. CASE ReadLastBlock
  BY <1>last, <1>same, <1>2 DEF ReadLastBlock, ledger, tables
<1>3. CASE FetchBlock
  BY <1>last, <1>same, <1>3 DEF FetchBlock, ledger, tables
<1>4. CASE EndLoop
  BY <1>last, <1>same, <1>4 DEF EndLoop, ledger, tables
<1>5. CASE ReadAccounts
  BY <1>last, <1>same, <1>5 DEF ReadAccounts, ledger, tables
<1>6. CASE InsertFee
  BY <1>last, <1>same, <1>6 DEF InsertFee, SetReward, chain, accounts, Row, Kind
<1>7. CASE MarkForUpdate
  BY <1>last, <1>same, <1>7 DEF MarkForUpdate, SetForUpdate, chain
<1>8. CASE NoHash
  BY <1>last, <1>same, <1>8 DEF NoHash, chain, tables
<1>9. CASE FailFetch
  BY <1>last, <1>same, <1>9 DEF FailFetch, Rest, chain, tables
<1>10. ASSUME NEW a \in Account, InsertBakerReward(a) PROVE IndexInv'
  BY <1>last, <1>same, <1>10 DEF InsertBakerReward, SetReward, chain, accounts, Row, Kind
<1>11. CASE Finalize /\ UNCHANGED fetcher
  BY <1>last, <1>same, <1>11 DEF Finalize, tables, fetcher
<1>12. ASSUME NEW a \in Account, Follow(a), UNCHANGED fetcher PROVE IndexInv'
  BY <1>last, <1>same, <1>12 DEF Follow, SetAccount, chain, fetcher
<1>13. CASE UNCHANGED fetcherVars
  BY <1>last, <1>same, <1>13 DEF fetcherVars, ledger, tables, fetcher
<1>14. CASE Store
  <2>1. height \in Height /\ height <= finalized /\ LastHeight' = height
    BY <1>14, StoreLast
  <2>2. blocks' = blocks \cup {height} /\ finalized' = finalized
    BY <1>14 DEF Store, StoreBlock, chain
  <2>3. height = LastHeight + 1
    BY <1>14 DEF Store
  <2>4. TypeOK'
    BY <2>1, <2>2, <1>14 DEF Store, chain, accounts
  <2>5. HasLast' /\ Walk'
    BY <1>last, <2>1, <2>2, <2>3, <1>14 DEF Store, chain
  <2>6. BlocksContiguous'
    BY <1>last, <2>1, <2>2, <2>3
  <2> QED
    BY <2>4, <2>5, <2>6
<1>15. CASE Collect
  <2>1. LastHeight \in blocks' /\ LastHeight' = LastHeight
    BY <1>15, CollectLast
  <2>2. /\ blocks' = {b \in blocks : height - GcOffset <= b}
        /\ blocks' \in SUBSET Height
        /\ finalized' = finalized
    BY <1>15 DEF Collect, CollectBelow, chain
  <2>3. TypeOK'
    BY <2>2, <1>15 DEF Collect, Rest, chain, accounts
  <2>4. HasLast' /\ Walk'
    BY <1>last, <2>1, <2>2, <1>15 DEF Collect, Rest, chain
  <2>5. BlocksContiguous'
    BY <1>last, <2>1, <2>2, <1>15
  <2> QED
    BY <2>3, <2>4, <2>5
<1> QED
  BY <1>1, <1>2, <1>3, <1>4, <1>5, <1>6, <1>7, <1>8, <1>9, <1>10, <1>11, <1>12,
     <1>13, <1>14, <1>15
  DEF Next, Fetch, Environment

-----------------------------------------------------------------------------
(* The rewards. *)

\* The rewards of the first block that a new daemon finds come in pairs.
LEMMA RewardInit == ASSUME Init PROVE RewardInv
<1> USE HeightAssumption, OnChainAssumption
    DEF Init, LedgerInit, FetcherInit, Kind, Height
<1>1. LastHeight = FirstHeight
  BY DEF LastHeight
<1>2. PICK S \in SUBSET OnChain :
        /\ payday = [h \in Height |-> IF h = FirstHeight THEN S ELSE {}]
        /\ rewards = (S \cap followed) \X {FirstHeight} \X Kind
  OBVIOUS
<1>3. RewardsSound /\ FeeHasBaker /\ StoredInPairs
  BY <1>1, <1>2 DEF RewardsSound, FeeHasBaker, StoredInPairs
<1>4. RewardsComplete
  BY <1>1 DEF RewardsComplete
<1>5. SincePast /\ Progress
  BY <1>1 DEF SincePast, Progress, Filling
<1> QED
  BY <1>3, <1>4, <1>5 DEF RewardInv

\* What the lemmas below need of the walk.
LEMMA WalkFacts ==
  ASSUME IndexInv
  PROVE  /\ FirstHeight \in Nat /\ MaxHeight \in Nat
         /\ finalized \in Nat
         /\ payday \in [Height -> SUBSET OnChain]
         /\ since \in [Account -> Nat]
         /\ rewards \subseteq Row
         /\ followed \subseteq Account
         /\ pending \subseteq followed
         /\ todo \subseteq OnChain
         /\ LastHeight \in Height /\ LastHeight \in Nat /\ LastHeight <= finalized
         /\ fetchPc \in InBlock => /\ height \in Height
                                  /\ height <= finalized
                                  /\ height = LastHeight + 1
<1>1. LastHeight \in Height /\ LastHeight <= finalized
  BY LastHeightFacts DEF IndexInv, TypeOK, HasLast
<1> QED
  BY <1>1, HeightAssumption
  DEF IndexInv, TypeOK, LedgerTypeOK, FetcherTypeOK, Walk, NextUnstored, Height, InBlock, Filling

\* The fetcher starts on a block: it sees the accounts followed now.
LEMMA ReadAccountsRewards ==
  ASSUME IndexInv, RewardInv, ReadAccounts PROVE RewardInv'
<1>1. UNCHANGED <<finalized, payday, blocks, followed, rewards, since, height>>
  BY DEF ReadAccounts, ledger, tables
<1>2. LastHeight' = LastHeight
  BY <1>1 DEF LastHeight
<1>3. /\ fetchPc = "accounts" /\ fetchPc' = "rewards"
      /\ todo' = payday[height] \cap followed
  BY DEF ReadAccounts
<1>4. height \in Height
  BY <1>3, WalkFacts DEF InBlock
<1>5. \A a \in Account, k \in Kind : <<a, height, k>> \in rewards => a \in todo'
  BY <1>3, <1>4 DEF RewardInv, RewardsSound
<1>6. Progress'
  BY <1>1, <1>3, <1>5 DEF Progress, Kind
<1>7. RewardsSound' /\ FeeHasBaker' /\ RewardsComplete' /\ StoredInPairs' /\ SincePast'
  BY <1>1, <1>2 DEF RewardInv, RewardsSound, FeeHasBaker, RewardsComplete, StoredInPairs, SincePast
<1> QED
  BY <1>6, <1>7 DEF RewardInv

\* A fee that is missing is the one of the account in hand.
LEMMA InsertBakerRewards ==
  ASSUME IndexInv, RewardInv, NEW a \in Account, InsertBakerReward(a) PROVE RewardInv'
<1>1. /\ UNCHANGED <<finalized, payday, blocks, followed, since, height, todo>>
      /\ rewards' = rewards \cup {<<a, height, "baker">>}
  BY DEF InsertBakerReward, SetReward, chain, accounts
<1>2. LastHeight' = LastHeight
  BY <1>1 DEF LastHeight
<1>3. fetchPc = "rewards" /\ fetchPc' = "fee" /\ a \in todo /\ current' = a
  BY DEF InsertBakerReward
<1>4. /\ height \in Height /\ height <= finalized /\ height = LastHeight + 1
      /\ LastHeight \in Nat
  BY <1>3, WalkFacts DEF InBlock, Filling
<1>5. a \in payday[height] /\ a \in followed
  BY <1>3 DEF RewardInv, Progress, Filling
<1>6. RewardsSound'
  BY <1>1, <1>2, <1>4, <1>5 DEF RewardInv, RewardsSound
<1>7. FeeHasBaker' /\ RewardsComplete' /\ SincePast'
  BY <1>1, <1>2 DEF RewardInv, FeeHasBaker, RewardsComplete, SincePast
<1>8. StoredInPairs'
  BY <1>1, <1>2, <1>4 DEF RewardInv, StoredInPairs
<1>9. Progress'
  BY <1>1, <1>3 DEF RewardInv, Progress, Filling
<1> QED
  BY <1>6, <1>7, <1>8, <1>9 DEF RewardInv

\* Storing publishes a block whose accounts are all done.
LEMMA StoreRewards ==
  ASSUME IndexInv, RewardInv, Store PROVE RewardInv'
<1>1. /\ height \in Height /\ height = LastHeight + 1 /\ LastHeight' = height
      /\ LastHeight \in Nat
  BY StoreLast, WalkFacts
<1>2. UNCHANGED <<finalized, payday, followed, rewards, since>>
  BY DEF Store, chain, accounts
<1>3. fetchPc = "store" /\ fetchPc' = "loop" /\ todo = {}
  BY DEF Store, IndexInv, Walk
<1>4. /\ \A a \in followed : a \in payday[height] /\ since[a] + 1 < height
                               => \A k \in Kind : <<a, height, k>> \in rewards
      /\ \A a \in Account :
           <<a, height, "baker">> \in rewards => <<a, height, "fee">> \in rewards
  BY <1>3 DEF RewardInv, Progress, Filling
<1>5. \A h \in FirstHeight .. LastHeight' : h \in FirstHeight .. LastHeight \/ h = height
  BY <1>1, HeightAssumption
<1>6. RewardsComplete'
  <2> SUFFICES ASSUME NEW a \in followed, NEW h \in FirstHeight + 1 .. LastHeight',
                      a \in payday[h], since[a] + 1 < h
               PROVE  \A k \in Kind : <<a, h, k>> \in rewards
    BY <1>2 DEF RewardsComplete
  <2>1. h \in FirstHeight + 1 .. LastHeight \/ h = height
    BY <1>1, HeightAssumption
  <2> QED
    BY <2>1, <1>4 DEF RewardInv, RewardsComplete
<1>7. StoredInPairs'
  BY <1>2, <1>4, <1>5 DEF RewardInv, StoredInPairs
<1>8. RewardsSound'
  BY <1>1, <1>2 DEF RewardInv, RewardsSound, Height
<1>9. SincePast'
  BY <1>1, <1>2, WalkFacts DEF RewardInv, SincePast
<1>10. FeeHasBaker' /\ Progress'
  BY <1>2, <1>3 DEF RewardInv, FeeHasBaker, Progress, Filling
<1> QED
  BY <1>6, <1>7, <1>8, <1>9, <1>10 DEF RewardInv

\* The chain only grows: what it says of finalized blocks stays.
LEMMA FinalizeRewards ==
  ASSUME IndexInv, RewardInv, Finalize, UNCHANGED fetcher PROVE RewardInv'
<1>1. UNCHANGED <<blocks, followed, rewards, since, fetchPc, height, todo, current>>
  BY DEF Finalize, tables, fetcher
<1>2. LastHeight' = LastHeight
  BY <1>1 DEF LastHeight
<1>3. finalized' = finalized + 1 /\ finalized \in Nat
  BY WalkFacts DEF Finalize
<1>4. ASSUME NEW h \in Height, h <= finalized PROVE payday'[h] = payday[h]
  BY <1>3, <1>4, WalkFacts, HeightAssumption DEF Finalize, Height
<1>5. RewardsSound'
  BY <1>1, <1>2, <1>3, <1>4 DEF RewardInv, RewardsSound, Height
<1>6. RewardsComplete'
  <2> SUFFICES ASSUME NEW a \in followed, NEW h \in FirstHeight + 1 .. LastHeight,
                      a \in payday'[h], since[a] + 1 < h
               PROVE  \A k \in Kind : <<a, h, k>> \in rewards
    BY <1>1, <1>2 DEF RewardsComplete
  <2>1. h \in Height /\ h <= finalized
    BY WalkFacts, HeightAssumption DEF Height
  <2> QED
    BY <2>1, <1>4 DEF RewardInv, RewardsComplete
<1>7. FeeHasBaker' /\ StoredInPairs' /\ SincePast'
  BY <1>1, <1>2 DEF RewardInv, FeeHasBaker, StoredInPairs, SincePast
<1>8. fetchPc \in Filling => payday'[height] = payday[height]
  BY <1>4, WalkFacts DEF InBlock
<1>9. Progress'
  BY <1>1, <1>8 DEF RewardInv, Progress
<1> QED
  BY <1>5, <1>6, <1>7, <1>9 DEF RewardInv

\* A followed account has no part in the blocks stored so far.
LEMMA FollowRewards ==
  ASSUME IndexInv, RewardInv, NEW a \in Account, Follow(a), UNCHANGED fetcher
  PROVE  RewardInv'
<1> USE HeightAssumption
<1>1. /\ UNCHANGED <<finalized, payday, blocks, rewards, fetchPc, height, todo, current>>
      /\ followed' = followed \cup {a}
      /\ since' = IF a \in followed THEN since ELSE [since EXCEPT ![a] = LastHeight]
  BY DEF Follow, SetAccount, chain, fetcher
<1>2. LastHeight' = LastHeight
  BY <1>1 DEF LastHeight
<1>3. LastHeight \in Height
  BY LastHeightFacts DEF IndexInv, TypeOK, HasLast
<1>4. since \in [Account -> 0 .. MaxHeight]
  BY DEF IndexInv, TypeOK, LedgerTypeOK
<1>5. \A b \in Account :
        since'[b] = (IF b = a /\ a \notin followed THEN LastHeight ELSE since[b])
  BY <1>1, <1>4
<1>6. RewardsSound' /\ FeeHasBaker' /\ StoredInPairs'
  BY <1>1, <1>2 DEF RewardInv, RewardsSound, FeeHasBaker, StoredInPairs
<1>7. SincePast'
  BY <1>2, <1>3, <1>5 DEF RewardInv, SincePast, Height
<1>8. RewardsComplete'
  BY <1>1, <1>2, <1>3, <1>5
  DEF RewardInv, RewardsComplete, Height, IndexInv, TypeOK, LedgerTypeOK
<1>9. fetchPc \in Filling => height = LastHeight + 1
  BY DEF IndexInv, Walk, NextUnstored, Filling
<1>10. Progress'
  BY <1>1, <1>3, <1>5, <1>9 DEF RewardInv, Progress, Height
<1> QED
  BY <1>6, <1>7, <1>8, <1>10 DEF RewardInv

\* Every step keeps the rewards.
LEMMA RewardStep ==
  ASSUME IndexInv, IndexInv', RewardInv, [Next]_fetcherVars PROVE RewardInv'
<1> USE HeightAssumption, OnChainAssumption
<1>last. LastHeight \in Height /\ LastHeight <= finalized
  BY LastHeightFacts DEF IndexInv, TypeOK, HasLast
<1>same. ASSUME blocks' = blocks PROVE LastHeight' = LastHeight
  BY <1>same DEF LastHeight
<1> USE DEF RewardInv, RewardsSound, FeeHasBaker, RewardsComplete, StoredInPairs,
            SincePast, Progress, Filling, Height
<1> USE DEF IndexInv, TypeOK, LedgerTypeOK, FetcherTypeOK, Walk, NextUnstored, InBlock, Steps
<1>1. CASE FetchLastBlock
  BY <1>last, <1>same, <1>1 DEF FetchLastBlock, ledger, tables
<1>2. CASE ReadLastBlock
  BY <1>last, <1>same, <1>2 DEF ReadLastBlock, ledger, tables
<1>3. CASE FetchBlock
  BY <1>last, <1>same, <1>3 DEF FetchBlock, ledger, tables
<1>4. CASE EndLoop
  BY <1>last, <1>same, <1>4 DEF EndLoop, ledger, tables
<1>5. CASE ReadAccounts
  BY <1>5, ReadAccountsRewards
<1>6. CASE InsertFee
  BY <1>last, <1>same, <1>6 DEF InsertFee, SetReward, chain, accounts, Row, Kind
<1>7. CASE MarkForUpdate
  BY <1>last, <1>same, <1>7 DEF MarkForUpdate, SetForUpdate, chain
<1>8. CASE NoHash
  BY <1>last, <1>same, <1>8 DEF NoHash, chain, tables
<1>9. CASE FailFetch
  BY <1>last, <1>same, <1>9 DEF FailFetch, Rest, chain, tables
<1>10. ASSUME NEW a \in Account, InsertBakerReward(a) PROVE RewardInv'
  BY <1>10, InsertBakerRewards
<1>11. CASE Finalize /\ UNCHANGED fetcher
  BY <1>11, FinalizeRewards
<1>12. ASSUME NEW a \in Account, Follow(a), UNCHANGED fetcher PROVE RewardInv'
  BY <1>12, FollowRewards
<1>13. CASE UNCHANGED fetcherVars
  BY <1>last, <1>same, <1>13 DEF fetcherVars, ledger, tables, fetcher
<1>14. CASE Store
  BY <1>14, StoreRewards
<1>15. CASE Collect
  BY <1>last, <1>15, CollectLast DEF Collect, Rest, chain, accounts
<1> QED
  BY <1>1, <1>2, <1>3, <1>4, <1>5, <1>6, <1>7, <1>8, <1>9, <1>10, <1>11, <1>12, <1>13, <1>14, <1>15
  DEF Next, Fetch, Environment

-----------------------------------------------------------------------------
(* The theorems on the walk and on the rewards. *)

\* The inductive invariant: the walk of the passes over the heights, and the
\* rewards, of stored blocks and of the one in progress.
THEOREM InvariantHolds == Spec => [](IndexInv /\ RewardInv)
<1>1. Init => IndexInv /\ RewardInv
  BY IndexInit, RewardInit
<1>2. IndexInv /\ RewardInv /\ [Next]_fetcherVars => IndexInv' /\ RewardInv'
  BY IndexStep, RewardStep
<1> QED
  BY <1>1, <1>2, PTL DEF Spec

\* Every variable keeps its type: no pass runs past the end of the chain.
THEOREM TypeCorrect == Spec => []TypeOK
<1>1. IndexInv => TypeOK
  BY DEF IndexInv
<1> QED
  BY <1>1, InvariantHolds, PTL

\* Whatever fails, a pass works on the height after the last one stored.
THEOREM NextUnstoredHolds == Spec => []NextUnstored
<1>1. IndexInv => NextUnstored
  BY DEF IndexInv, Walk
<1> QED
  BY <1>1, InvariantHolds, PTL

\* The table of blocks is never empty and has no hole.
THEOREM BlocksContiguousHolds == Spec => []BlocksContiguous
<1>1. IndexInv => BlocksContiguous
  BY DEF IndexInv
<1> QED
  BY <1>1, InvariantHolds, PTL

\* A fee is never without its baker reward: the repairer finds every reward.
THEOREM FeeHasBakerHolds == Spec => []FeeHasBaker
<1>1. RewardInv => FeeHasBaker
  BY DEF RewardInv
<1> QED
  BY <1>1, InvariantHolds, PTL

\* A stored block has all the rewards of the accounts followed before it.
THEOREM RewardsCompleteHolds == Spec => []RewardsComplete
<1>1. RewardInv => RewardsComplete
  BY DEF RewardInv
<1> QED
  BY <1>1, InvariantHolds, PTL

\* No reward is made up or ahead of the block in progress.
THEOREM RewardsSoundHolds == Spec => []RewardsSound
<1>1. RewardInv => RewardsSound
  BY DEF RewardInv
<1> QED
  BY <1>1, InvariantHolds, PTL

-----------------------------------------------------------------------------
(* The fetcher implements ChainIndex: blocks appear with their rewards. *)

Visible == {r \in rewards : r[2] <= LastHeight}

\* Readers of a new database see the first block, and its rewards in pairs.
LEMMA RefinesInit == ASSUME Init PROVE Index!Init
<1> USE HeightAssumption, OnChainAssumption DEF Init, LedgerInit
<1>1. LastHeight = FirstHeight
  BY DEF LastHeight
<1>2. PICK S \in SUBSET OnChain :
        /\ payday = [h \in Height |-> IF h = FirstHeight THEN S ELSE {}]
        /\ rewards = (S \cap followed) \X {FirstHeight} \X Kind
  OBVIOUS
<1>3. payday \in [FirstHeight .. MaxHeight -> SUBSET Account]
  BY <1>2 DEF Height
<1>4. S \cap followed \in SUBSET payday[FirstHeight]
  BY <1>2 DEF Height
<1>5. Visible = (S \cap followed) \X {FirstHeight} \X Kind
  BY <1>1, <1>2 DEF Visible
<1> QED
  BY <1>1, <1>3, <1>4, <1>5 DEF Index!Init, Visible

\* A step that keeps the table of blocks and the visible rewards is a stutter.
LEMMA RefinesStep ==
  ASSUME IndexInv, RewardInv, [Next]_fetcherVars PROVE [Index!Next]_(Index!vars)
<1> USE HeightAssumption, OnChainAssumption
<1>last. /\ LastHeight \in Nat /\ LastHeight <= finalized /\ finalized \in Nat
         /\ payday \in [Height -> SUBSET OnChain]
         /\ rewards \subseteq Row
  BY WalkFacts
<1>same. ASSUME blocks' = blocks PROVE LastHeight' = LastHeight
  BY <1>same DEF LastHeight
<1>stutter. ASSUME UNCHANGED chain, LastHeight' = LastHeight, Visible' = Visible
            PROVE  UNCHANGED Index!vars
  BY <1>stutter DEF Index!vars, Visible, chain
<1>1. CASE FetchLastBlock \/ ReadLastBlock \/ FetchBlock \/ EndLoop \/ ReadAccounts
  BY <1>1, <1>same, <1>stutter
  DEF FetchLastBlock, ReadLastBlock, FetchBlock, EndLoop, ReadAccounts, ledger, tables, chain, Visible
<1>2. CASE NoHash \/ FailFetch
  BY <1>2, <1>same, <1>stutter DEF NoHash, FailFetch, chain, tables, Visible
<1>insert. ASSUME NEW a \in Account, NEW k \in Kind, SetReward(a, height, k),
                  UNCHANGED <<chain, blocks>>, fetchPc \in {"rewards", "fee"}
           PROVE  UNCHANGED Index!vars
  <2>1. height = LastHeight + 1
    BY <1>insert, WalkFacts DEF InBlock, Filling
  <2>2. Visible' = Visible
    BY <1>insert, <1>same, <1>last, <2>1 DEF SetReward, Visible
  <2> QED
    BY <1>insert, <1>same, <1>stutter, <2>2
<1>3. ASSUME NEW a \in Account, InsertBakerReward(a) PROVE UNCHANGED Index!vars
  BY <1>3, <1>insert DEF InsertBakerReward, Kind
<1>4. CASE InsertFee
  <2>1. current \in Account
    BY <1>4 DEF InsertFee, IndexInv, Walk, TypeOK, FetcherTypeOK
  <2> QED
    BY <1>4, <1>insert, <2>1 DEF InsertFee, Kind
<1>5. CASE MarkForUpdate
  BY <1>5, <1>same, <1>stutter DEF MarkForUpdate, Visible
<1>6. CASE Store
  <2> DEFINE S == {a \in Account : <<a, height, "baker">> \in rewards}
  <2>1. /\ height \in Height /\ height <= finalized
        /\ height = LastHeight + 1 /\ LastHeight' = height
    BY <1>6, StoreLast
  <2>2. UNCHANGED <<finalized, payday, rewards>>
    BY <1>6 DEF Store, chain
  <2>3. S \in SUBSET payday[LastHeight + 1]
    BY <2>1 DEF RewardInv, RewardsSound, Kind
  <2>4. \A a \in Account, k \in Kind : <<a, height, k>> \in rewards <=> a \in S
    BY <1>6, <2>1 DEF Store, IndexInv, Walk, RewardInv, Progress, FeeHasBaker, Filling, Kind
  <2>5. \A r \in Row : r \in Visible' <=> r \in Visible \/ r \in S \X {LastHeight + 1} \X Kind
    BY <1>last, <2>1, <2>2, <2>4 DEF Visible, Row, Height
  <2>6. Visible' = Visible \cup S \X {LastHeight + 1} \X Kind
    BY <1>last, <2>1, <2>2, <2>5 DEF Visible, Row
  <2>7. LastHeight < finalized /\ LastHeight' = LastHeight + 1
    BY <1>last, <2>1
  <2>8. Index!IndexBlock
    BY <2>2, <2>3, <2>6, <2>7 DEF Index!IndexBlock, Visible
  <2> QED
    BY <2>8 DEF Index!Next
<1>7. CASE Collect
  <2>1. LastHeight' = LastHeight
    BY <1>7, CollectLast
  <2> QED
    BY <1>7, <1>stutter, <2>1 DEF Collect, Visible
<1>8. CASE Finalize /\ UNCHANGED fetcher
  <2>1. UNCHANGED <<LastHeight, Visible>>
    BY <1>8, <1>same DEF Finalize, tables, Visible
  <2>2. finalized < MaxHeight
    BY <1>8, <1>last DEF Finalize, Height
  <2>3. Index!Grow
    BY <1>8, <2>1, <2>2 DEF Finalize, Index!Grow, Visible
  <2> QED
    BY <2>3 DEF Index!Next
<1>9. ASSUME NEW a \in Account, Follow(a) PROVE UNCHANGED Index!vars
  BY <1>9, <1>same, <1>stutter DEF Follow, Visible
<1>10. CASE UNCHANGED fetcherVars
  BY <1>10, <1>same, <1>stutter DEF fetcherVars, ledger, tables, chain, Visible
<1> QED
  BY <1>1, <1>2, <1>3, <1>4, <1>5, <1>6, <1>7, <1>8, <1>9, <1>10
  DEF Next, Fetch, Environment

\* Every step of the fetcher is a step of the index or invisible to readers.
THEOREM ImplementsIndexHolds == Spec => ImplementsIndex
<1>1. Init => Index!Init
  BY RefinesInit
<1>2. IndexInv /\ RewardInv /\ [Next]_fetcherVars => [Index!Next]_(Index!vars)
  BY RefinesStep
<1> QED
  BY <1>1, <1>2, InvariantHolds, PTL DEF Spec, ImplementsIndex, Index!Spec

=============================================================================
