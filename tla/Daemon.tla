------------------------------- MODULE Daemon -------------------------------
(***************************************************************************)
(* The jobs that work on accounts and blocks, run by one daemon next to    *)
(* its HTTP interface: block-fetcher, accounts-refresher, reward-repairer. *)
(* Each is a task of its own that keeps its locals between two awaits, so  *)
(* their steps interleave in any order; they meet in the tables.  A crash  *)
(* ends all of them at once.                                               *)
(***************************************************************************)
EXTENDS BlockFetcher, AccountsRefresher, RewardRepairer

daemonVars == <<ledger, fetcher, rowOrder, refresher, repairer>>

DaemonTypeOK == TypeOK /\ RefresherTypeOK /\ RepairerTypeOK

DaemonInit == LedgerInit /\ FetcherInit /\ RefresherInit /\ RepairerInit

FetcherStep ==
  /\ Fetch \/ NoHash \/ FailFetch
  /\ UNCHANGED <<rowOrder, refresher, repairer>>

RefresherStep ==
  /\ Refresh \/ FailRefresh
  /\ UNCHANGED <<fetcher, repairer>>

RepairerStep ==
  /\ Repair \/ FailRepair
  /\ UNCHANGED <<fetcher, rowOrder, refresher>>

\* POST /accounts.
Post(a) ==
  /\ Follow(a)
  /\ AppendRow(a)
  /\ UNCHANGED <<fetcher, refresher, repairer>>

Produce ==
  /\ Finalize
  /\ UNCHANGED <<fetcher, rowOrder, refresher, repairer>>

\* The daemon is killed and systemd starts it again: what is in the tables is
\* there, what the jobs held in memory is not.
Restart ==
  /\ <<fetchPc, refreshPc, repairPc>> # <<"idle", "idle", "idle">>
  /\ faults < MaxFaults
  /\ faults' = faults + 1
  /\ Rest /\ RefresherRest /\ RepairerRest
  /\ UNCHANGED <<chain, tables, since, rowOrder>>

DaemonNext ==
  \/ FetcherStep
  \/ RefresherStep
  \/ RepairerStep
  \/ \E a \in Account : Post(a)
  \/ Produce
  \/ Restart

DaemonSpec == DaemonInit /\ [][DaemonNext]_daemonVars

\* The scheduler starts every job again and again and every call returns.
DaemonFairSpec ==
  /\ DaemonSpec
  /\ WF_daemonVars(Fetch /\ UNCHANGED <<rowOrder, refresher, repairer>>)
  /\ WF_daemonVars(Refresh /\ UNCHANGED <<fetcher, repairer>>)
  /\ WF_daemonVars(Repair /\ UNCHANGED <<fetcher, rowOrder, refresher>>)

-----------------------------------------------------------------------------
(* Properties. *)

\* An account that does not wait for a refresh has had one: a row that an
\* administrator posts again, which resets its balance, is never left so by a
\* refresher that had it in hand.
RefreshedOnce == \A a \in followed \ pending : balanceAt[a] >= FirstHeight

\* An account whose balance is older than a reward it has got from a stored
\* block is waiting for a refresh.  The code does not keep this: the refresher
\* clears marks set after it has read its tip.  RewardAsksForRefresh, in
\* RefreshHistory, is what the marks do promise.
RewardedArePending ==
  \A a \in followed, h \in FirstHeight .. LastHeight :
    a \in payday[h] /\ balanceAt[a] < h => a \in pending

\* The accounts the refresher comes to before a: those with an older row.
Ahead(a) == {b \in followed : RowId(b) < RowId(a)}

\* An account of the chain that waits for a refresh gets it, provided that every
\* account with an older row is on the chain too: the pass ends at one that is
\* not, each time.
EventuallyRefreshed ==
  \A a \in OnChain : (a \in pending /\ Ahead(a) \subseteq OnChain) ~> a \notin pending

\* The amounts that the migration has lost are all found again.
EventuallyRepaired == <>(zeroed = {})

=============================================================================
