--------------------------- MODULE RefreshHistory ---------------------------
(***************************************************************************)
(* The daemon with a history of its refresher: when each row was last      *)
(* written.  A mark says that a row is to be written again and is cleared  *)
(* by the write, so whether one was lost cannot be seen in the tables.     *)
(***************************************************************************)
EXTENDS Daemon

\* History: the last block finalized when the refresher wrote the row, or 0.
VARIABLE writtenAt

historyVars == <<daemonVars, writtenAt>>

HistoryInit == DaemonInit /\ writtenAt = [a \in Account |-> 0]

HistoryNext ==
  /\ DaemonNext
  /\ writtenAt' = IF RefreshAccount
                  THEN [writtenAt EXCEPT ![Head(waiting)] = finalized]
                  ELSE writtenAt

HistorySpec == HistoryInit /\ [][HistoryNext]_historyVars

-----------------------------------------------------------------------------
\* A reward of a stored block asks for a refresh: the account waits for one, or
\* its row has been written since that block was finalized.  A pass that ends
\* between the mark and the block loses no mark, whatever the refresher and the
\* administrator have done to the row, and no mark is cleared without a write.
RewardAsksForRefresh ==
  \A a \in followed, h \in FirstHeight .. LastHeight :
    a \in payday[h] => a \in pending \/ h <= writtenAt[a]

=============================================================================
