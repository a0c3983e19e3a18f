-------------------------- MODULE AccountsRefresher --------------------------
(***************************************************************************)
(* The job accounts-refresher: it lists the accounts that wait for an      *)
(* update, reads the last finalized block once and, account by account,    *)
(* reads the balance at that block and writes the whole row, which also    *)
(* clears the mark.  The list and the block may be old when a row is       *)
(* written.                                                                *)
(*                                                                         *)
(* The rows come in the order of their ids (a scan of the table), so the   *)
(* order in which the accounts were first followed is part of the state.   *)
(***************************************************************************)
EXTENDS Ledger, SequencesExt

\* An address has 32 bytes.
ASSUME AccountAssumption == IsFiniteSet(Account)

VARIABLES
  rowOrder,   \* table accounts: the accounts by increasing id
  refreshPc,  \* what the job does next; "idle" while it sleeps
  waiting,    \* local accounts: those listed and not refreshed yet
  tip         \* local last_block: the block the balances are read at

refresher == <<refreshPc, waiting, tip>>

RefresherTypeOK ==
  /\ rowOrder \in Seq(followed) /\ IsInjective(rowOrder) /\ followed \subseteq ToSet(rowOrder)
  /\ refreshPc \in {"idle", "tip", "accounts"}
  /\ waiting \in Seq(followed) /\ IsInjective(waiting)
  /\ tip \in 0 .. MaxHeight

RefresherInit ==
  /\ rowOrder \in SetToSeqs(followed)
  /\ refreshPc = "idle"
  /\ waiting = <<>>
  /\ tip = 0

RefresherRest ==
  /\ refreshPc' = "idle"
  /\ waiting' = <<>>
  /\ tip' = 0

\* Mutant: a row that exists is inserted again.
AppendRowTwice(a) == rowOrder' = Append(rowOrder, a)

\* AUTOINCREMENT: a new row comes after all others.
AppendRow(a) ==
  rowOrder' = IF a \in followed THEN rowOrder ELSE Append(rowOrder, a)

-----------------------------------------------------------------------------
(* RefreshAccountsJob::execute and do_account. *)

\* The table is scanned by increasing id.
RowId(a) == CHOOSE i \in DOMAIN rowOrder : rowOrder[i] = a
InRowOrder(seq) == \A i, j \in DOMAIN seq : i < j => RowId(seq[i]) < RowId(seq[j])

\* AccountRepository::get_for_update.
ListForUpdate ==
  /\ refreshPc = "idle"
  /\ refreshPc' = "tip"
  /\ waiting' \in {seq \in SetToSeqs(pending) : InRowOrder(seq)}
  /\ UNCHANGED <<ledger, rowOrder, tip>>

FetchTip ==
  /\ refreshPc = "tip"
  /\ refreshPc' = "accounts"
  /\ tip' = finalized
  /\ UNCHANGED <<ledger, rowOrder, waiting>>

\* Mutant: the row is written with its mark set.
RefreshMarked ==
  /\ refreshPc = "accounts"
  /\ waiting # <<>>
  /\ Head(waiting) \in OnChain
  /\ SetAccount(Head(waiting), tip, TRUE)
  /\ waiting' = Tail(waiting)
  /\ UNCHANGED <<chain, blocks, rewards, zeroed, since, faults, rowOrder, refreshPc, tip>>

\* The balance, the stake and the lottery power at the tip never change: only
\* the moment of the write matters.
RefreshAccount ==
  /\ refreshPc = "accounts"
  /\ waiting # <<>>
  /\ Head(waiting) \in OnChain
  /\ SetAccount(Head(waiting), tip, FALSE)
  /\ waiting' = Tail(waiting)
  /\ UNCHANGED <<chain, blocks, rewards, zeroed, since, faults, rowOrder, refreshPc, tip>>

\* The node answers null for an account that is not on the chain, which cannot
\* be decoded: the error ends the pass for the accounts behind it as well.
UnknownAccount ==
  /\ refreshPc = "accounts"
  /\ waiting # <<>>
  /\ Head(waiting) \notin OnChain
  /\ RefresherRest
  /\ UNCHANGED <<ledger, rowOrder>>

EndRefresh ==
  /\ refreshPc = "accounts"
  /\ waiting = <<>>
  /\ RefresherRest
  /\ UNCHANGED <<ledger, rowOrder>>

Refresh == ListForUpdate \/ FetchTip \/ RefreshAccount \/ UnknownAccount \/ EndRefresh

\* Any other call fails.
FailRefresh ==
  /\ refreshPc # "idle"
  /\ faults < MaxFaults
  /\ faults' = faults + 1
  /\ RefresherRest
  /\ UNCHANGED <<chain, tables, since, rowOrder>>

=============================================================================
