------------------------ MODULE StatusChecker_proofs ------------------------
(***************************************************************************)
(* Proofs about the status checker, for any size of its table, any number  *)
(* of failures and a clock that may be set back by any number of reports.  *)
(***************************************************************************)
EXTENDS StatusChecker, SequenceLemmas, TLAPS

-----------------------------------------------------------------------------
(* The inductive invariant. *)

\* Between the insertion and the collection the pass knows where its report is:
\* as far from the end as the clock was behind.
OwnReport ==
  statusPc = "collect" => lag < Len(reports) /\ reports[Len(reports) - lag].own

StatusInv == StatusTypeOK /\ TableBounded /\ OwnReport

-----------------------------------------------------------------------------
(* The table. *)

LEMMA Table ==
  ASSUME StatusTypeOK
  PROVE  /\ Len(reports) \in Nat /\ DOMAIN reports = 1 .. Len(reports)
         /\ behind \in 0 .. Len(reports) /\ behind \in Nat
         /\ \A i \in 1 .. Len(reports) : reports[i] \in Report
<1>1. reports \in Seq(Report) /\ behind \in 0 .. Len(reports)
    BY DEF StatusTypeOK
  <1> QED
    BY <1>1, LenProperties, ElementOfSeq

\* The last n of a sequence.
LEMMA LaterFacts ==
  ASSUME NEW S, NEW s \in Seq(S), NEW n \in 0 .. Len(s)
  PROVE  /\ Later(s, n) \in Seq(S)
         /\ Len(Later(s, n)) = n
         /\ \A i \in 1 .. n : Later(s, n)[i] = s[Len(s) - n + i]
<1>1. Len(s) \in Nat /\ \A i \in 1 .. Len(s) : s[i] \in S
  BY LenProperties, ElementOfSeq
<1> DEFINE m == Len(s) - n + 1
<1>2. m \in Int /\ m \in 1 .. Len(s) + 1 /\ \A i \in m .. Len(s) : s[i] \in S
  BY <1>1
<1>3. /\ SubSeq(s, m, Len(s)) \in Seq(S)
      /\ Len(SubSeq(s, m, Len(s))) = IF m <= Len(s) THEN Len(s) - m + 1 ELSE 0
      /\ \A i \in 1 .. Len(s) - m + 1 : SubSeq(s, m, Len(s))[i] = s[m + i - 1]
  BY <1>1, <1>2, SubSeqProperties
<1>4. Later(s, n) = SubSeq(s, m, Len(s))
  BY DEF Later
<1>5. Len(s) - m + 1 = n /\ \A i \in 1 .. n : m + i - 1 = Len(s) - n + i
  BY <1>1
<1>6. (IF m <= Len(s) THEN Len(s) - m + 1 ELSE 0) = n
  BY <1>1, <1>2
<1> QED
  BY <1>3, <1>4, <1>5, <1>6

\* An element put before the last b of a sequence.
PutBefore(s, e, b) == SubSeq(s, 1, Len(s) - b) \o <<e>> \o Later(s, b)

LEMMA PutBeforeFacts ==
  ASSUME NEW S, NEW s \in Seq(S), NEW e \in S,
         NEW b \in 0 .. Len(s)
  PROVE  /\ PutBefore(s, e, b) \in Seq(S)
         /\ Len(PutBefore(s, e, b)) = Len(s) + 1
         /\ PutBefore(s, e, b)[Len(s) - b + 1] = e
         /\ \A i \in 1 .. Len(s) - b : PutBefore(s, e, b)[i] = s[i]
         /\ \A i \in Len(s) - b + 1 .. Len(s) : PutBefore(s, e, b)[i + 1] = s[i]
<1>0. PICK m \in Nat : m = Len(s) - b
  <2>1. Len(s) - b \in Nat
    BY LenProperties
  <2> QED
    BY <2>1
<1>1. /\ b \in 0 .. Len(s) /\ b \in Nat /\ Len(s) - b = m /\ Len(s) = m + b
      /\ \A i \in 1 .. m : i \in 1 .. Len(s)
  BY <1>0, LenProperties
<1>2. /\ SubSeq(s, 1, m) \in Seq(S) /\ Len(SubSeq(s, 1, m)) = m
      /\ \A i \in 1 .. m : SubSeq(s, 1, m)[i] = s[i]
  <2>1. \A i \in 1 .. m : s[i] \in S
    BY <1>1, ElementOfSeq
  <2> QED
    BY <2>1, SubSeqProperties
<1>3. /\ Later(s, b) \in Seq(S) /\ Len(Later(s, b)) = b
      /\ \A i \in 1 .. b : Later(s, b)[i] = s[m + i]
  <2>1. /\ Later(s, b) \in Seq(S) /\ Len(Later(s, b)) = b
        /\ \A i \in 1 .. b : Later(s, b)[i] = s[Len(s) - b + i]
    BY <1>1, LaterFacts
  <2> QED
    BY <1>1, <2>1
<1>4. PICK s1 \in Seq(S) : s1 = SubSeq(s, 1, m)
  BY <1>2
<1>5. PICK s2 \in Seq(S) : s2 = Later(s, b)
  BY <1>3
<1>6. PICK x \in Seq(S) : x = <<e>> /\ Len(x) = 1 /\ x[1] = e
  <2>1. <<e>> \in Seq(S) /\ Len(<<e>>) = 1 /\ <<e>>[1] = e
    OBVIOUS
  <2> QED
    BY <2>1, Zenon
<1>7. Len(s1) = m /\ Len(s2) = b
  BY <1>2, <1>3, <1>4, <1>5
<1>8. PICK t \in Seq(S) : t = s1 \o x \o s2
  BY ConcatProperties
<1>9. /\ Len(t) = Len(s1) + 1 + Len(s2) /\ t[Len(s1) + 1] = x[1]
      /\ \A i \in 1 .. Len(s1) : t[i] = s1[i]
      /\ \A i \in 1 .. Len(s2) : t[Len(s1) + 1 + i] = s2[i]
  BY <1>6, <1>8, PutBetween
<1>10. /\ Len(t) = m + 1 + b /\ t[m + 1] = e
       /\ \A i \in 1 .. m : t[i] = s1[i]
       /\ \A i \in 1 .. b : t[m + 1 + i] = s2[i]
  BY <1>6, <1>7, <1>9
<1>11. PutBefore(s, e, b) = t
  BY <1>1, <1>4, <1>5, <1>6, <1>8 DEF PutBefore
<1>12. ASSUME NEW i \in m + 1 .. m + b PROVE t[i + 1] = s[i]
  <2>1. PICK j \in 1 .. b : j = i - m
    <3>1. i - m \in 1 .. b
      BY <1>1
    <3> QED
      BY <3>1
  <2>2. m + 1 + j = i + 1 /\ m + j = i
    BY <1>1, <2>1
  <2>3. t[m + 1 + j] = s2[j] /\ s2[j] = s[m + j]
    BY <1>3, <1>5, <1>10
  <2> QED
    BY <2>2, <2>3
<1>13. Len(t) = Len(s) + 1
  BY <1>1, <1>10
<1> QED
  BY <1>1, <1>2, <1>3, <1>4, <1>5, <1>8, <1>10, <1>11, <1>12, <1>13

\* A new report is as far from the end as the clock is behind, and the only one
\* of the pass.
LEMMA InsertFacts ==
  ASSUME StatusTypeOK, NEW report \in Report
  PROVE  /\ Insert(report) \in Seq(Report)
         /\ Len(Insert(report)) = Len(reports) + 1
         /\ Insert(report)[Len(reports) + 1 - behind] = report
         /\ \A i \in 1 .. Len(reports) + 1 :
              i # Len(reports) + 1 - behind => ~Insert(report)[i].own
<1> DEFINE past == [r \in Report |-> [r EXCEPT !.own = FALSE]]
           old == [i \in DOMAIN reports |-> past[reports[i]]]
<1>1. PICK n \in Nat : n = Len(reports) /\ behind \in 0 .. n /\ DOMAIN reports = 1 .. n
  BY Table
<1>2. \A r \in Report : past[r] \in Report /\ ~past[r].own
  BY DEF Report
<1> HIDE DEF past
<1>3. \A i \in 1 .. n : old[i] \in Report /\ ~old[i].own
  BY <1>1, <1>2, Table
<1>4. old \in [1 .. n -> Report]
  BY <1>1, <1>3
<1>5. old \in Seq(Report) /\ Len(old) = n
  BY <1>1, <1>4
<1>6. Insert(report) = PutBefore(old, report, behind)
  BY DEF Insert, past, PutBefore
<1> HIDE DEF old
<1>7. behind \in 0 .. Len(old)
  BY <1>1, <1>5
<1>8. /\ Insert(report) \in Seq(Report) /\ Len(Insert(report)) = Len(old) + 1
      /\ Insert(report)[Len(old) - behind + 1] = report
      /\ \A i \in 1 .. Len(old) - behind : Insert(report)[i] = old[i]
      /\ \A i \in Len(old) - behind + 1 .. Len(old) : Insert(report)[i + 1] = old[i]
  <2>1. old \in Seq(Report)
    BY <1>5
  <2>2. /\ PutBefore(old, report, behind) \in Seq(Report)
        /\ Len(PutBefore(old, report, behind)) = Len(old) + 1
        /\ PutBefore(old, report, behind)[Len(old) - behind + 1] = report
    BY <1>7, <2>1, PutBeforeFacts
  <2>3. \A i \in 1 .. Len(old) - behind : PutBefore(old, report, behind)[i] = old[i]
    BY <1>7, <2>1, PutBeforeFacts
  <2>4. \A i \in Len(old) - behind + 1 .. Len(old) : PutBefore(old, report, behind)[i + 1] = old[i]
    BY <1>7, <2>1, PutBeforeFacts
  <2> QED
    BY <1>6, <2>2, <2>3, <2>4
<1>9. ASSUME NEW i \in 1 .. n + 1, i # n - behind + 1 PROVE ~Insert(report)[i].own
  <2>1. CASE i < n - behind + 1
    <3>1. i \in 1 .. n - behind /\ i \in 1 .. n
      BY <1>1, <2>1
    <3> QED
      BY <1>3, <1>5, <1>8, <3>1
  <2>2. CASE i > n - behind + 1
    <3>1. PICK j \in 1 .. n : j = i - 1 /\ i = j + 1 /\ j \in n - behind + 1 .. n
      <4>1. i - 1 \in 1 .. n /\ i = (i - 1) + 1 /\ i - 1 \in n - behind + 1 .. n
        BY <1>1, <2>2
      <4> QED
        BY <4>1
    <3> QED
      BY <1>3, <1>5, <1>8, <3>1
  <2> QED
    BY <1>1, <1>9, <2>1, <2>2
<1>10. Len(reports) + 1 - behind = n - behind + 1
  BY <1>1
<1> QED
  BY <1>1, <1>5, <1>8, <1>9, <1>10

\* A collection leaves the last reports.
LEMMA KeepFacts ==
  ASSUME StatusTypeOK
  PROVE  LET kept == Keep(reports, MaxReports)
             n == Len(reports)
             d == IF n > MaxReports THEN n - MaxReports ELSE 0
         IN /\ kept \in Seq(Report)
            /\ Len(kept) = n - d /\ Len(kept) <= MaxReports
            /\ d \in 0 .. n
            /\ \A i \in 1 .. n - d : kept[i] = reports[d + i]
<1>1. reports \in Seq(Report) /\ Len(reports) \in Nat /\ MaxReports \in Nat
  BY Table, MaxReportsAssumption DEF StatusTypeOK
<1>2. CASE Len(reports) > MaxReports
  <2>1. MaxReports \in 0 .. Len(reports)
    BY <1>1, <1>2
  <2>2. Keep(reports, MaxReports) = Later(reports, MaxReports)
    BY <1>2 DEF Keep
  <2> QED
    BY <1>1, <1>2, <2>1, <2>2, LaterFacts
<1>3. CASE ~(Len(reports) > MaxReports)
  BY <1>1, <1>3 DEF Keep
<1> QED
  BY <1>2, <1>3

-----------------------------------------------------------------------------
(* The steps. *)

LEMMA StatusInit == ASSUME Init PROVE StatusInv
BY MaxFaultsAssumption, MaxReportsAssumption
DEF Init, StatusInv, StatusTypeOK, TableBounded, OwnReport, NodeStatus

\* The steps that leave the table alone.
LEMMA SameTable ==
  ASSUME StatusInv, UNCHANGED <<reports, lag, added, faults>>, behind' \in 0 .. Len(reports),
         node' \in NodeStatus,
         statusPc' \in {"idle", "info", "uptime", "stats", "report"} \/ UNCHANGED statusPc,
         statusPc = "collect" => statusPc' = "collect"
  PROVE  StatusInv'
BY DEF StatusInv, StatusTypeOK, TableBounded, OwnReport

LEMMA StatusStep == ASSUME StatusInv, [Next]_vars PROVE StatusInv'
<1>t. /\ Len(reports) \in Nat /\ DOMAIN reports = 1 .. Len(reports)
      /\ behind \in 0 .. Len(reports) /\ behind \in Nat
      /\ node \in NodeStatus /\ MaxReports \in Nat \ {0} /\ MaxFaults \in Nat
      /\ faults \in 0 .. MaxFaults /\ lag \in Nat /\ added \in Nat
  BY Table, MaxReportsAssumption, MaxFaultsAssumption DEF StatusInv, StatusTypeOK
<1>1. CASE SetBack \/ CatchUp
  <2>1. behind' \in 0 .. Len(reports)
    BY <1>t, <1>1 DEF SetBack, CatchUp
  <2> QED
    BY <1>t, <1>1, <2>1, SameTable DEF SetBack, CatchUp
<1>2. CASE GetSystemStats
  BY <1>t, <1>2, SameTable DEF GetSystemStats
<1>3. CASE GetNodeStatus
  <2>1. node' \in NodeStatus /\ UNCHANGED <<reports, behind, lag, added, faults>>
        /\ statusPc' \in {"uptime", "stats", "report"} /\ statusPc # "collect"
    BY <1>t, <1>3
    DEF GetNodeStatus, GetNodeInfo, GetNodeUptime, GetNodeStats, NoAnswer, Answered, Encode, NodeStatus
  <2> QED
    BY <1>t, <2>1, SameTable
<1>4. CASE StoreReport
  <2> DEFINE report == [node |-> node, own |-> TRUE]
  <2>1. report \in Report /\ report.own
    BY <1>t DEF Report
  <2>2. /\ reports' = Insert(report) /\ lag' = behind /\ statusPc' = "collect"
        /\ added' = added + 1
        /\ UNCHANGED <<behind, node, faults>> /\ statusPc = "report"
    BY <1>4 DEF StoreReport
  <2> HIDE DEF report
  <2>3. /\ reports' \in Seq(Report) /\ Len(reports') = Len(reports) + 1
        /\ reports'[Len(reports') - lag'].own
        /\ \A i \in 1 .. Len(reports') : reports'[i].own => i = Len(reports) + 1 - behind
    BY <1>t, <2>1, <2>2, InsertFacts DEF StatusInv
  <2>4. DOMAIN reports' = 1 .. Len(reports')
    BY <2>3, LenProperties
  <2>5. StatusTypeOK'
    BY <1>t, <2>2, <2>3, <2>4 DEF StatusTypeOK
  <2>6. TableBounded'
    BY <1>t, <2>2, <2>3 DEF StatusInv, TableBounded
  <2>7. OwnReport'
    BY <1>t, <2>2, <2>3 DEF OwnReport
  <2> QED
    BY <2>5, <2>6, <2>7 DEF StatusInv
<1>5. CASE GarbageCollect
  <2>1. /\ reports' = Keep(reports, MaxReports) /\ statusPc' = "idle"
        /\ behind' = (IF behind > Len(reports') THEN Len(reports') ELSE behind)
        /\ added' = 0 /\ UNCHANGED <<node, lag, faults>>
    BY <1>5 DEF GarbageCollect
  <2>2. PICK d \in 0 .. Len(reports) :
          /\ reports' \in Seq(Report)
          /\ Len(reports') = Len(reports) - d /\ Len(reports') <= MaxReports
          /\ \A i \in 1 .. Len(reports) - d : reports'[i] = reports[d + i]
    BY <2>1, KeepFacts DEF StatusInv
  <2>3. DOMAIN reports' = 1 .. Len(reports')
    BY <2>2, LenProperties
  <2>4. \A i, j \in DOMAIN reports' : reports'[i].own /\ reports'[j].own => i = j
    <3>1. \A i \in DOMAIN reports' : d + i \in DOMAIN reports /\ reports'[i] = reports[d + i]
      BY <1>t, <2>2, <2>3
    <3> QED
      BY <1>t, <2>2, <2>3, <3>1 DEF StatusInv, StatusTypeOK
  <2>5. behind' \in 0 .. Len(reports')
    BY <1>t, <2>1, <2>2
  <2>6. StatusTypeOK'
    BY <1>t, <2>1, <2>2, <2>4, <2>5 DEF StatusTypeOK
  <2>7. TableBounded' /\ OwnReport'
    BY <1>t, <2>1, <2>2 DEF TableBounded, OwnReport
  <2> QED
    BY <2>6, <2>7 DEF StatusInv
<1>6. CASE FailCheck
  BY <1>t, <1>6 DEF FailCheck, StatusInv, StatusTypeOK, TableBounded, OwnReport
<1>7. CASE UNCHANGED vars
  BY <1>t, <1>7, SameTable DEF vars
<1> QED
  BY <1>1, <1>2, <1>3, <1>4, <1>5, <1>6, <1>7 DEF Next, Check

-----------------------------------------------------------------------------
(* The theorems. *)

\* The invariant holds in every run, whatever the clock, the node and the
\* database do.
THEOREM StatusInvariant == Spec => []StatusInv
<1>1. Init => StatusInv
  BY StatusInit
<1>2. StatusInv /\ [Next]_vars => StatusInv'
  BY StatusStep
<1> QED
  BY <1>1, <1>2, PTL DEF Spec

\* The variables keep their types, and one report at most is of the last pass.
THEOREM StatusTypeCorrect == Spec => []StatusTypeOK
<1>1. StatusInv => StatusTypeOK
  BY DEF StatusInv
<1> QED
  BY <1>1, StatusInvariant, PTL

\* After each collection the table holds MAX_NUM_REPORT reports at most, however
\* many passes have failed before theirs.
THEOREM TableStaysSmall == Spec => []TableBounded
<1>1. StatusInv => TableBounded
  BY DEF StatusInv
<1> QED
  BY <1>1, StatusInvariant, PTL

\* The collection after a report spares it, unless the clock was behind as many
\* reports as the table keeps: StatusChecker::execute and garbage_collect.
THEOREM OwnReportSurvives == Spec => OwnReportKept
<1>1. ASSUME StatusInv, GarbageCollect
      PROVE  (\E i \in DOMAIN reports' : reports'[i].own) \/ lag >= MaxReports
  <2> SUFFICES ASSUME lag < MaxReports PROVE \E i \in DOMAIN reports' : reports'[i].own
    BY <1>1, MaxReportsAssumption DEF StatusInv, StatusTypeOK
  <2>1. /\ Len(reports) \in Nat /\ MaxReports \in Nat /\ lag \in Nat
        /\ lag < Len(reports) /\ reports[Len(reports) - lag].own
        /\ reports' = Keep(reports, MaxReports)
    BY <1>1, Table, MaxReportsAssumption DEF GarbageCollect, StatusInv, StatusTypeOK, OwnReport
  <2> DEFINE n == Len(reports)
             d == IF n > MaxReports THEN n - MaxReports ELSE 0
  <2>3. /\ reports' \in Seq(Report) /\ Len(reports') = n - d
        /\ \A i \in 1 .. n - d : reports'[i] = reports[d + i]
    BY <1>1, <2>1, KeepFacts DEF StatusInv
  <2>4. n - lag - d \in 1 .. n - d /\ d + (n - lag - d) = n - lag
    BY <2>1
  <2>5. DOMAIN reports' = 1 .. n - d
    BY <2>3, LenProperties
  <2> QED
    BY <2>1, <2>3, <2>4, <2>5
<1>2. StatusInv /\ [Next]_vars =>
        [GarbageCollect => (\E i \in DOMAIN reports' : reports'[i].own) \/ lag >= MaxReports]_vars
  BY <1>1
<1> QED
  BY <1>2, StatusInvariant, PTL DEF Spec, OwnReportKept

=============================================================================
