----------------------------- MODULE ChainIndex -----------------------------
(***************************************************************************)
(* What the block fetcher promises to the readers of the database, with    *)
(* its passes, errors and restarts left out: blocks are indexed one height *)
(* at a time, none twice and none skipped, and a block becomes visible     *)
(* together with its rewards, a baker reward and a fee for each account    *)
(* credited.  What is visible stays.  Every finalized block is indexed in  *)
(* the end.                                                                *)
(***************************************************************************)
EXTENDS Naturals

CONSTANTS Account, Kind, FirstHeight, MaxHeight

VARIABLES
  finalized,  \* the height of the last finalized block
  payday,     \* the accounts each finalized block rewards
  last,       \* the height of the last block indexed
  visible     \* the reward rows of the indexed blocks

vars == <<finalized, payday, last, visible>>

Init ==
  /\ finalized = FirstHeight
  /\ payday \in [FirstHeight .. MaxHeight -> SUBSET Account]
  /\ last = FirstHeight
  /\ \E S \in SUBSET payday[FirstHeight] : visible = S \X {FirstHeight} \X Kind

\* The chain grows.
Grow ==
  /\ finalized < MaxHeight
  /\ finalized' = finalized + 1
  /\ \E S \in SUBSET Account : payday' = [payday EXCEPT ![finalized + 1] = S]
  /\ UNCHANGED <<last, visible>>

\* The next block is indexed, with the rewards of the accounts S.
IndexBlock ==
  /\ last < finalized
  /\ last' = last + 1
  /\ \E S \in SUBSET payday[last + 1] :
       visible' = visible \cup S \X {last + 1} \X Kind
  /\ UNCHANGED <<finalized, payday>>

Next == Grow \/ IndexBlock

Spec == Init /\ [][Next]_vars
FairSpec == Spec /\ WF_vars(IndexBlock)

=============================================================================
