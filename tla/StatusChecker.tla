--------------------------- MODULE StatusChecker ---------------------------
(***************************************************************************)
(* The job status-checker and the table it writes: a pass measures the     *)
(* load of the server, asks the node for its status, stores a report of    *)
(* both and deletes all reports but the most recent ones.  Readers get the *)
(* report with the greatest timestamp.                                     *)
(*                                                                         *)
(* Only the order of the timestamps matters, so the table is the sequence  *)
(* of its reports by increasing timestamp and the wall clock is how many   *)
(* of them it is behind: none, unless it has been set back.  What is kept  *)
(* of a report is whether it has a part of the node and whether that part  *)
(* can be read again.                                                      *)
(***************************************************************************)
EXTENDS Integers, SequencesExt

CONSTANTS
  MaxReports,  \* MAX_NUM_REPORT, how many reports the table keeps
  MaxFaults    \* bound: how many calls to the database fail

\* Of the peers, which are none or some.
Latencies == {<<>>, <<20>>, <<20, 60>>}

ASSUME MaxReportsAssumption == MaxReports \in Nat \ {0}
ASSUME MaxFaultsAssumption == MaxFaults \in Nat

VARIABLES
  reports,   \* table statuses, by increasing timestamp
  behind,    \* the clock: how many reports have a later timestamp
  statusPc,  \* what the job does next; "idle" while it sleeps
  node,      \* local new_status: the part of the node
  lag,       \* history: behind, when the last report was stored
  added,     \* history: how many reports were stored since the last collection
  faults     \* how many calls have failed, bounded by MaxFaults

vars == <<reports, behind, statusPc, node, lag, added, faults>>

\* The column node: null, a JSON text with an average latency, or one without.
NodeStatus == {"none", "readable", "unreadable"}
Report == [node : NodeStatus, own : BOOLEAN]  \* own: of the last pass

StatusTypeOK ==
  /\ reports \in Seq(Report)
  /\ \A i, j \in DOMAIN reports : reports[i].own /\ reports[j].own => i = j
  /\ behind \in 0 .. Len(reports)
  /\ statusPc \in {"idle", "info", "uptime", "stats", "report", "collect"}
  /\ node \in NodeStatus
  /\ lag \in Nat
  /\ added \in Nat
  /\ faults \in 0 .. MaxFaults

Init ==
  /\ reports = <<>>
  /\ behind = 0
  /\ statusPc = "idle"
  /\ node = "none"
  /\ lag = 0
  /\ added = 0
  /\ faults = 0

-----------------------------------------------------------------------------
(* The wall clock. *)

SetBack ==
  /\ behind < Len(reports)
  /\ behind' \in behind + 1 .. Len(reports)
  /\ UNCHANGED <<reports, statusPc, node, lag, added, faults>>

CatchUp ==
  /\ behind > 0
  /\ behind' = behind - 1
  /\ UNCHANGED <<reports, statusPc, node, lag, added, faults>>

-----------------------------------------------------------------------------
(* The repository. *)

Later(seq, n) == SubSeq(seq, Len(seq) - n + 1, Len(seq))

\* Mutant: the insertion is tried twice.
InsertTwice(report) == reports \o <<report, report>>

\* The reports when one more is stored at the time of the clock.
Insert(report) ==
  LET past == [r \in Report |-> [r EXCEPT !.own = FALSE]]
      old == [i \in DOMAIN reports |-> past[reports[i]]]
  IN SubSeq(old, 1, Len(old) - behind) \o <<report>> \o Later(old, behind)

\* Mutant: the order of the timestamps is ascending.
KeepOldest(seq, n) == IF Len(seq) > n THEN SubSeq(seq, 1, n) ELSE seq

\* Mutant: one row at a time.
DropOldest(seq, n) == IF Len(seq) > n THEN Tail(seq) ELSE seq

\* The rows that garbage_collect leaves.
Keep(seq, n) == IF Len(seq) > n THEN Later(seq, n) ELSE seq

-----------------------------------------------------------------------------
(* StatusChecker::execute. *)

\* The job sleeps for ten seconds while it measures the load of the CPU.
GetSystemStats ==
  /\ statusPc = "idle"
  /\ statusPc' = "info"
  /\ UNCHANGED <<reports, behind, node, lag, added, faults>>

\* An answer of the node, after which the job goes on to pc.
Answered(pc) ==
  /\ statusPc' = pc
  /\ UNCHANGED <<reports, behind, lag, added, faults>>

\* Mutant: no report without the node.
RequireNode ==
  /\ node' = "none"
  /\ Answered("idle")

\* The node is down or its answer cannot be used: the report goes without it,
\* whatever it answered before.
NoAnswer ==
  /\ node' = "none"
  /\ Answered("report")

GetNodeInfo ==
  /\ statusPc = "info"
  /\ \/ Answered("uptime") /\ UNCHANGED node
     \/ NoAnswer

GetNodeUptime ==
  /\ statusPc = "uptime"
  /\ \/ Answered("stats") /\ UNCHANGED node
     \/ NoAnswer

NaN == -1

\* The average over no peer is 0 / 0, which is not a number.
AverageLatency(latencies) ==
  IF latencies = <<>> THEN NaN ELSE FoldSeq(+, 0, latencies) \div Len(latencies)

\* JSON has no NaN: it is written as null, which is not read as a number again.
Encode(latency) == IF latency = NaN THEN "unreadable" ELSE "readable"

GetNodeStats ==
  /\ statusPc = "stats"
  /\ \/ /\ \E latencies \in Latencies : node' = Encode(AverageLatency(latencies))
        /\ Answered("report")
     \/ NoAnswer

GetNodeStatus == GetNodeInfo \/ GetNodeUptime \/ GetNodeStats

\* The clock is read and the report stored.
StoreReport ==
  /\ statusPc = "report"
  /\ reports' = Insert([node |-> node, own |-> TRUE])
  /\ lag' = behind
  /\ added' = added + 1
  /\ statusPc' = "collect"
  /\ UNCHANGED <<behind, node, faults>>

\* As the oldest reports go first, the clock is behind as many as before, or
\* behind all that are left.
GarbageCollect ==
  /\ statusPc = "collect"
  /\ reports' = Keep(reports, MaxReports)
  /\ behind' = IF behind > Len(reports') THEN Len(reports') ELSE behind
  /\ added' = 0
  /\ statusPc' = "idle"
  /\ UNCHANGED <<node, lag, faults>>

Check == GetSystemStats \/ GetNodeStatus \/ StoreReport \/ GarbageCollect

\* A call to the database fails, or the daemon is killed.
FailCheck ==
  /\ statusPc # "idle"
  /\ faults < MaxFaults
  /\ faults' = faults + 1
  /\ statusPc' = "idle"
  /\ UNCHANGED <<reports, behind, node, lag, added>>

Next == Check \/ FailCheck \/ SetBack \/ CatchUp

Spec == Init /\ [][Next]_vars

\* The scheduler starts the job again and again and the calls to the database
\* return.  No answer of the node is promised, not even a refusal: its channel
\* has no timeout.
FairSpec == Spec /\ WF_vars(GetSystemStats \/ StoreReport \/ GarbageCollect)

-----------------------------------------------------------------------------
(* Properties. *)

\* The table holds MAX_NUM_REPORT reports after a collection and one more for
\* each report stored since: what the passes that failed before their collection
\* have left, the next one removes all at once.
TableBounded == Len(reports) <= MaxReports + added

\* A pass does not collect its own report, unless the clock was behind as many
\* reports as the table keeps.
OwnReportKept ==
  [][GarbageCollect => (\E i \in DOMAIN reports' : reports'[i].own) \/ lag >= MaxReports]_vars

\* The daemon goes on reporting, also when every call to the node is refused,
\* unless one never returns: such a call stops the reports for ever.
ReportsGoOn ==
  []<>(statusPc = "collect") \/ <>[](statusPc \in {"info", "uptime", "stats"})

\* Readers can decode the last report: GET / answers with the status.
LastReportReadable == reports # <<>> => Last(reports).node # "unreadable"

=============================================================================
