--------------------------- MODULE RewardRepairer ---------------------------
(***************************************************************************)
(* The job reward-repairer: for each followed account and each block it    *)
(* has a baker reward of, it reads the block from the node and writes the  *)
(* two rewards again.  It is there for the rows whose amount a migration   *)
(* has reset to '0', and it runs while the block fetcher inserts new ones. *)
(***************************************************************************)
EXTENDS Ledger

VARIABLES
  repairPc,    \* what the job does next; "idle" while it sleeps
  unrepaired,  \* the accounts that remain to be looked at
  repaired,    \* the account at hand, as a set of at most one
  toRepair,    \* the blocks of its baker rewards that remain to be done
  repairAt     \* the block between its baker reward and its fee, or 0

repairer == <<repairPc, unrepaired, repaired, toRepair, repairAt>>

RepairerTypeOK ==
  /\ repairPc \in {"idle", "account", "rewards", "fee"}
  /\ unrepaired \in SUBSET Account
  /\ repaired \in SUBSET Account
  /\ toRepair \in SUBSET Height
  /\ repairAt \in Height \cup {0}

RepairerInit ==
  /\ repairPc = "idle"
  /\ unrepaired = {}
  /\ repaired = {}
  /\ toRepair = {}
  /\ repairAt = 0

RepairerRest ==
  /\ repairPc' = "idle"
  /\ unrepaired' = {}
  /\ repaired' = {}
  /\ toRepair' = {}
  /\ repairAt' = 0

-----------------------------------------------------------------------------
(* RewardRepairer::execute. *)

ListAccounts ==
  /\ repairPc = "idle"
  /\ repairPc' = "account"
  /\ unrepaired' = followed
  /\ UNCHANGED <<ledger, repaired, toRepair, repairAt>>

\* Mutant: every block that rewards the account, known or not.
ListPaydays(a) ==
  /\ repairPc = "account"
  /\ a \in unrepaired
  /\ repairPc' = "rewards"
  /\ unrepaired' = unrepaired \ {a}
  /\ repaired' = {a}
  /\ toRepair' = {h \in Height : a \in payday[h]}
  /\ UNCHANGED <<ledger, repairAt>>

\* AccountRepository::get_rewards of the next account: its fees are skipped.
ListRewards(a) ==
  /\ repairPc = "account"
  /\ a \in unrepaired
  /\ repairPc' = "rewards"
  /\ unrepaired' = unrepaired \ {a}
  /\ repaired' = {a}
  /\ toRepair' = {h \in Height : <<a, h, "baker">> \in rewards}
  /\ UNCHANGED <<ledger, repairAt>>

\* The summary of the block has an event for the account (RewardsSound).
RepairBaker(a, h) ==
  /\ repairPc = "rewards"
  /\ a \in repaired
  /\ h \in toRepair
  /\ a \in payday[h]
  /\ SetReward(a, h, "baker")
  /\ repairAt' = h
  /\ repairPc' = "fee"
  /\ UNCHANGED <<chain, blocks, accounts, since, faults, unrepaired, repaired, toRepair>>

\* Mutant: the baker reward a second time instead of the fee.
RepairBakerTwice(a) ==
  /\ repairPc = "fee"
  /\ a \in repaired
  /\ SetReward(a, repairAt, "baker")
  /\ toRepair' = toRepair \ {repairAt}
  /\ repairAt' = 0
  /\ repairPc' = "rewards"
  /\ UNCHANGED <<chain, blocks, accounts, since, faults, unrepaired, repaired>>

RepairFee(a) ==
  /\ repairPc = "fee"
  /\ a \in repaired
  /\ SetReward(a, repairAt, "fee")
  /\ toRepair' = toRepair \ {repairAt}
  /\ repairAt' = 0
  /\ repairPc' = "rewards"
  /\ UNCHANGED <<chain, blocks, accounts, since, faults, unrepaired, repaired>>

EndRewards ==
  /\ repairPc = "rewards"
  /\ toRepair = {}
  /\ repaired' = {}
  /\ repairPc' = "account"
  /\ UNCHANGED <<ledger, unrepaired, toRepair, repairAt>>

EndRepair ==
  /\ repairPc = "account"
  /\ unrepaired = {}
  /\ RepairerRest
  /\ UNCHANGED ledger

Repair ==
  \/ ListAccounts
  \/ \E a \in Account : ListRewards(a)
  \/ \E a \in Account, h \in Height : RepairBaker(a, h)
  \/ \E a \in Account : RepairFee(a)
  \/ EndRewards
  \/ EndRepair

\* A call to the node or to the database fails.
FailRepair ==
  /\ repairPc # "idle"
  /\ faults < MaxFaults
  /\ faults' = faults + 1
  /\ RepairerRest
  /\ UNCHANGED <<chain, tables, since>>

=============================================================================
