----------------------------- MODULE Api_proofs -----------------------------
(***************************************************************************)
(* Proofs about the pool and the HTTP interface, for any set of callers,   *)
(* any clients among them, any handlers they ask for and any number of     *)
(* failures.                                                               *)
(***************************************************************************)
EXTENDS Api, TLAPS

-----------------------------------------------------------------------------
(* The inductive invariant of the pool. *)

Running(c) == call[c].step = "running"

CallOf(q) == [kind |-> q.kind, row |-> q.row]

\* The closure is past its first statement.
Halfway(q) == q.at = 2

\* Under way, a call is one of the calls of the repositories, and a closure past
\* its first statement is in a transaction or has its row in the file.
Shape(q, file) ==
  /\ q \in Progress
  /\ q.step \in {"waiting", "running"} => CallOf(q) \in Call
  /\ Halfway(q) => q.step = "running" /\ q.kind \in {"set", "create"}
  /\ q.staged <=> (Halfway(q) /\ q.kind = "set")
  /\ q.kind = "create" => q.row = "pair"
  /\ Halfway(q) /\ q.kind = "create" => q.row \in file

OneConnection == \A c, d \in Caller : Running(c) /\ Running(d) => c = d

PoolInv == PoolTypeOK /\ OneConnection /\ \A c \in Caller : Shape(call[c], rows)

-----------------------------------------------------------------------------
(* The inductive invariant of the requests. *)

\* The i-th call of the handler has succeeded.
Past(c, i) == i < client[c].at \/ (i = client[c].at /\ call[c].step = "ok")

\* A request waits for the call at its position; it has written what its earlier
\* calls wrote, and what it knew is still there.
RequestShape(c) ==
  LET r == client[c] IN
  /\ r.step = "idle" => call[c].step = "idle"
  /\ r.step = "calling" =>
       /\ call[c].step # "idle"
       /\ r.at \in DOMAIN Calls(c)
       /\ Busy(c) => CallOf(call[c]) = CallOf(Calls(c)[r.at])
       /\ \A i \in DOMAIN Calls(c) :
            Past(c, i) /\ Calls(c)[i].kind \notin {"find", "list"} => Calls(c)[i].row \in rows
       /\ call[c].step = "notFound" => Calls(c)[r.at].row \notin r.knew
  /\ r.knew \subseteq rows

\* The request has inserted the row, and it is the one that will tell so.
Inserted(c, row) ==
  /\ client[c].step = "calling"
  /\ \E i \in DOMAIN Calls(c) :
       /\ Calls(c)[i].kind \in {"insert", "create"} /\ Calls(c)[i].row = row
       /\ Past(c, i) \/ (i = client[c].at /\ Running(c) /\ Halfway(call[c]))

OneInserter ==
  \A c \in Client : \A row \in Unique :
    Inserted(c, row) =>
      /\ row \in rows \ acked
      /\ \A d \in Client : Inserted(d, row) => d = c

ClientTypes ==
  /\ PoolTypeOK
  /\ client \in [Client -> [step : {"idle", "calling"}, handler : Handlers,
                            at : 1 .. 2, knew : SUBSET Row, answer : Statuses]]
  /\ acked \in SUBSET Row

RequestInv ==
  /\ ClientTypes
  /\ AckedStays
  /\ OneInserter
  /\ \A c \in Client : RequestShape(c)

ApiInv == PoolInv /\ RequestInv

-----------------------------------------------------------------------------
(* The closures. *)

LEMMA Closures ==
  /\ Kind = {"find", "list", "insert", "upsert", "set", "create"}
  /\ \A k \in Kind : Len(Statements[k]) = IF k \in {"set", "create"} THEN 2 ELSE 1
  /\ \A k \in {"find", "list", "insert", "upsert"} : Statements[k][1] = k
  /\ Statements["set"][1] = "upsert" /\ Statements["set"][2] = "find"
  /\ Statements["create"][1] = "insert" /\ Statements["create"][2] = "find"
<1>1. Kind = {"find", "list", "insert", "upsert", "set", "create"}
  BY DEF Kind, Statements
<1>2. /\ Statements["find"] = <<"find">> /\ Statements["list"] = <<"list">>
      /\ Statements["insert"] = <<"insert">> /\ Statements["upsert"] = <<"upsert">>
  BY DEF Statements
<1>3. Statements["set"] = <<"upsert", "find">> /\ Statements["create"] = <<"insert", "find">>
  BY DEF Statements
<1>4. \A k \in {"find", "list", "insert", "upsert"} :
        Len(Statements[k]) = 1 /\ Statements[k][1] = k
  BY <1>2
<1>5. \A k \in {"set", "create"} : Len(Statements[k]) = 2
  BY <1>3
<1> QED
  BY <1>1, <1>3, <1>4, <1>5

\* Where a closure is, and what it has written.
LEMMA Position ==
  ASSUME PoolInv, NEW c \in Caller
  PROVE  /\ IsLast(c) <=> (call[c].kind \in {"set", "create"} => Halfway(call[c]))
         /\ Current(c) = "find" <=> (call[c].kind = "find" \/ Halfway(call[c]))
         /\ Current(c) = "insert" <=> (call[c].kind \in {"insert", "create"} /\ ~Halfway(call[c]))
         /\ Current(c) = "upsert" <=> (call[c].kind \in {"upsert", "set"} /\ ~Halfway(call[c]))
<1>1. Shape(call[c], rows)
  BY DEF PoolInv
<1>2. call[c].kind \in Kind /\ call[c].at \in {1, 2}
  BY <1>1 DEF Shape, Progress
<1>3. CASE Halfway(call[c])
  <2>1. call[c].at = 2 /\ call[c].kind \in {"set", "create"}
    BY <1>1, <1>3 DEF Shape, Halfway
  <2>2. Current(c) = "find" /\ IsLast(c)
    BY <2>1, Closures DEF Current, IsLast
  <2> QED
    BY <1>3, <2>1, <2>2
<1>4. CASE ~Halfway(call[c])
  <2>1. call[c].at = 1
    BY <1>2, <1>4 DEF Halfway
  <2>2. IsLast(c) <=> call[c].kind \notin {"set", "create"}
    BY <1>2, <2>1, Closures DEF IsLast
  <2>3. Current(c) = IF call[c].kind = "set" THEN "upsert"
                     ELSE IF call[c].kind = "create" THEN "insert" ELSE call[c].kind
    BY <1>2, <2>1, Closures DEF Current
  <2> QED
    BY <1>2, <1>4, <2>2, <2>3, Closures
<1> QED
  BY <1>3, <1>4

-----------------------------------------------------------------------------
(* The calls. *)

LEMMA EndShape ==
  ASSUME NEW outcome \in {"idle"} \cup Outcome, NEW file
  PROVE  /\ Shape([Idle EXCEPT !.step = outcome], file)
         /\ [Idle EXCEPT !.step = outcome].step = outcome
<1> DEFINE q == [Idle EXCEPT !.step = outcome]
<1>1. Idle \in Progress
  BY Closures DEF Idle, Progress
<1>2. q.step = outcome /\ q.kind = "list" /\ q.at = 1 /\ q.staged = FALSE
  BY DEF Idle
<1>3. q \in Progress
  BY <1>1 DEF Progress
<1>4. outcome \notin {"waiting", "running"}
  BY DEF Outcome
<1> HIDE DEF q
<1>5. Shape(q, file)
  BY <1>2, <1>3, <1>4 DEF Shape, Halfway
<1> QED
  BY <1>2, <1>5 DEF q

\* What a caller may ask for.
Asks(kind, row) == CallOf([kind |-> kind, row |-> row]) \in Call /\ (kind = "create" => row = "pair")

Asking(kind, row) == [Idle EXCEPT !.step = "waiting", !.kind = kind, !.row = row]

LEMMA ExecShape ==
  ASSUME NEW kind, NEW row, Asks(kind, row), NEW file
  PROVE  /\ Shape(Asking(kind, row), file)
         /\ Asking(kind, row).step = "waiting"
         /\ CallOf(Asking(kind, row)) = [kind |-> kind, row |-> row]
<1>1. kind \in Kind /\ row \in Row \cup {"none"}
  BY Closures DEF Asks, CallOf, Call
<1> DEFINE q == Asking(kind, row)
<1>2. Idle \in Progress
  BY Closures DEF Idle, Progress
<1>3. q.step = "waiting" /\ q.kind = kind /\ q.row = row /\ q.at = 1 /\ q.staged = FALSE
  BY DEF Asking, Idle
<1>4. q \in Progress
  BY <1>1, <1>2 DEF Asking, Progress
<1> HIDE DEF q
<1>5. CallOf(q) = [kind |-> kind, row |-> row]
  BY <1>3 DEF CallOf
<1>6. CallOf(q) \in Call /\ (kind = "create" => row = "pair")
  BY <1>5 DEF Asks, CallOf
<1>7. Shape(q, file)
  BY <1>3, <1>4, <1>6 DEF Shape, Halfway
<1> QED
  BY <1>3, <1>5, <1>7 DEF q

\* One call changes, and the file grows.
LEMMA NewCall ==
  ASSUME PoolInv, NEW c \in Caller,
         call' \in [Caller -> Progress],
         \A d \in Caller \ {c} : call'[d] = call[d],
         Shape(call'[c], rows'),
         call'[c].step = "running" => \A d \in Caller \ {c} : ~Running(d),
         rows \subseteq rows', rows' \subseteq Row, faults' \in 0 .. MaxFaults
  PROVE  PoolInv'
<1>1. PoolTypeOK'
  BY DEF PoolTypeOK
<1>2. OneConnection'
  BY DEF PoolInv, OneConnection, Running
<1>3. \A d \in Caller : Shape(call'[d], rows')
  <2>1. \A d \in Caller \ {c} : Shape(call[d], rows')
    BY DEF PoolInv, Shape
  <2> QED
    BY <2>1
<1> QED
  BY <1>1, <1>2, <1>3 DEF PoolInv

\* A call begins or ends.
LEMMA SetCall ==
  ASSUME PoolInv, NEW c \in Caller, NEW q, call' = [call EXCEPT ![c] = q],
         q.step # "running", \A file : Shape(q, file),
         rows \subseteq rows', rows' \subseteq Row, faults' \in 0 .. MaxFaults
  PROVE  PoolInv' /\ call'[c] = q /\ \A d \in Caller \ {c} : call'[d] = call[d]
<1>1. call'[c] = q /\ \A d \in Caller \ {c} : call'[d] = call[d]
  BY DEF PoolInv, PoolTypeOK
<1>2. call' \in [Caller -> Progress]
  BY DEF PoolInv, PoolTypeOK, Shape
<1> QED
  BY <1>1, <1>2, NewCall

LEMMA EndKeeps ==
  ASSUME PoolInv, NEW c \in Caller, NEW outcome \in {"idle"} \cup Outcome,
         call' = [call EXCEPT ![c] = [Idle EXCEPT !.step = outcome]],
         rows \subseteq rows', rows' \subseteq Row, faults' \in 0 .. MaxFaults
  PROVE  /\ PoolInv'
         /\ call'[c].step = outcome
         /\ \A d \in Caller \ {c} : call'[d] = call[d]
<1>1. outcome # "running"
  BY DEF Outcome
<1> QED
  BY <1>1, EndShape, SetCall

LEMMA ExecKeeps ==
  ASSUME PoolInv, NEW c \in Caller, NEW kind, NEW row, Asks(kind, row),
         Exec(c, kind, row), UNCHANGED <<rows, faults>>
  PROVE  /\ PoolInv'
         /\ call'[c].step = "waiting"
         /\ CallOf(call'[c]) = [kind |-> kind, row |-> row]
         /\ \A d \in Caller \ {c} : call'[d] = call[d]
<1>1. call' = [call EXCEPT ![c] = Asking(kind, row)]
  BY DEF Exec, Asking
<1>2. /\ \A file : Shape(Asking(kind, row), file)
      /\ Asking(kind, row).step = "waiting"
      /\ CallOf(Asking(kind, row)) = [kind |-> kind, row |-> row]
  BY ExecShape
<1>3. rows' \subseteq Row /\ faults' \in 0 .. MaxFaults
  BY DEF PoolInv, PoolTypeOK
<1> QED
  BY <1>1, <1>2, <1>3, SetCall

LEMMA TakeKeeps ==
  ASSUME PoolInv, NEW c \in Caller, Take(c), UNCHANGED <<rows, faults>>
  PROVE  PoolInv' /\ call'[c].step = "idle" /\ \A d \in Caller \ {c} : call'[d] = call[d]
<1>1. Idle = [Idle EXCEPT !.step = "idle"]
  BY DEF Idle
<1> QED
  BY <1>1, EndKeeps DEF Take, PoolInv, PoolTypeOK

-----------------------------------------------------------------------------
(* What a step of a closure does. *)

LEMMA CallTypes ==
  ASSUME PoolInv, NEW c \in Caller, Busy(c)
  PROVE  /\ CallOf(call[c]) \in Call
         /\ call[c].kind = "list" \/ call[c].row \in Row
         /\ call[c].kind \in Kind
<1>1. Shape(call[c], rows)
  BY DEF PoolInv
<1> QED
  BY <1>1 DEF Shape, Busy, CallOf, Call, Progress

\* The last statement: the call is served.
LEMMA LastStatement ==
  ASSUME PoolInv, NEW c \in Caller, Proceed(c), IsLast(c)
  PROVE  /\ rows' = IF call[c].kind \in {"find", "list"} THEN rows ELSE rows \cup {call[c].row}
         /\ End(c, "ok")
         /\ UNCHANGED faults
         /\ call[c].kind = "find" => call[c].row \in rows
         /\ call[c].kind = "insert" => call[c].row \notin Unique \cap rows
<1>1. Shape(call[c], rows) /\ call[c].step = "running"
  BY DEF PoolInv, Proceed
<1>2. call[c].kind \in {"find", "list", "insert", "upsert", "set", "create"}
  BY <1>1, Closures DEF Shape, Progress
<1>3. End(c, "ok") /\ Commit(c) /\ UNCHANGED faults
  BY DEF Proceed
<1>4. CASE call[c].kind \in {"find", "list"}
  <2>1. ~Halfway(call[c]) /\ ~call[c].staged
    BY <1>1, <1>4 DEF Shape
  <2>2. Current(c) \notin {"insert", "upsert"}
    BY <1>4, Position
  <2>3. rows' = rows
    BY <1>3, <2>1, <2>2 DEF Commit, Wrote
  <2>4. call[c].kind = "find" => call[c].row \in rows
    BY <2>1, Position DEF Proceed, Seen
  <2> QED
    BY <1>3, <1>4, <2>3, <2>4
<1>5. CASE call[c].kind \in {"insert", "upsert"}
  <2>1. ~Halfway(call[c]) /\ ~call[c].staged
    BY <1>1, <1>5 DEF Shape
  <2>2. Wrote(c)
    BY <1>5, <2>1, Position DEF Wrote
  <2>3. rows' = rows \cup {call[c].row}
    BY <1>3, <2>2 DEF Commit
  <2>4. call[c].kind = "insert" => call[c].row \notin Unique \cap rows
    BY <2>1, Position DEF Proceed, Refused, Seen
  <2> QED
    BY <1>3, <1>5, <2>3, <2>4
<1>6. CASE call[c].kind = "set"
  <2>1. call[c].staged
    BY <1>1, <1>6, Position DEF Shape
  <2> QED
    BY <1>3, <1>6, <2>1 DEF Commit, Wrote
<1>7. CASE call[c].kind = "create"
  <2>1. call[c].row \in rows
    BY <1>1, <1>7, Position DEF Shape
  <2> QED
    BY <1>3, <1>7, <2>1 DEF Commit
<1> QED
  BY <1>2, <1>4, <1>5, <1>6, <1>7

\* The first of two: staged in a transaction, or committed.
LEMMA FirstStatement ==
  ASSUME PoolInv, NEW c \in Caller, Proceed(c), ~IsLast(c)
  PROVE  /\ ~Halfway(call[c]) /\ Halfway(call'[c])
         /\ call[c].kind \in {"set", "create"}
         /\ CallOf(call'[c]) = CallOf(call[c]) /\ call'[c].step = "running"
         /\ call'[c].staged <=> call[c].kind = "set"
         /\ call[c].kind = "set" => rows' = rows
         /\ call[c].kind = "create" => call[c].row \notin rows /\ rows' = rows \cup {call[c].row}
         /\ \A d \in Caller \ {c} : call'[d] = call[d]
         /\ call' \in [Caller -> Progress]
         /\ UNCHANGED faults
<1>1. /\ Shape(call[c], rows) /\ call[c].step = "running"
      /\ call \in [Caller -> Progress]
  BY DEF PoolInv, PoolTypeOK, Proceed
<1>2. /\ ~Halfway(call[c]) /\ ~call[c].staged /\ call[c].at = 1
      /\ call[c].kind \in {"set", "create"}
  BY <1>1, Position DEF Shape, Progress, Halfway
<1>3. CASE call[c].kind = "set"
  <2>1. Wrote(c)
    BY <1>2, <1>3, Position DEF Wrote
  <2>2. /\ call' = [call EXCEPT ![c].at = @ + 1, ![c].staged = Wrote(c)]
        /\ UNCHANGED <<rows, faults>>
    BY <1>3 DEF Proceed, Transactions
  <2>3. call' = [call EXCEPT ![c].at = 2, ![c].staged = TRUE]
    BY <1>1, <1>2, <2>1, <2>2
  <2>4. call' \in [Caller -> Progress]
    <3> DEFINE q == [call[c] EXCEPT !.at = 2]
    <3>1. q \in Progress
      BY <1>1 DEF Progress
    <3>2. [q EXCEPT !.staged = TRUE] \in Progress
      BY <3>1 DEF Progress
    <3>3. call' = [call EXCEPT ![c] = [q EXCEPT !.staged = TRUE]]
      BY <1>1, <2>3
    <3> QED
      BY <1>1, <3>2, <3>3
  <2>5. /\ call'[c].at = 2 /\ call'[c].staged = TRUE /\ call'[c].step = "running"
        /\ call'[c].kind = call[c].kind /\ call'[c].row = call[c].row
        /\ \A d \in Caller \ {c} : call'[d] = call[d]
    BY <1>1, <2>3 DEF Progress
  <2> QED
    BY <1>2, <1>3, <2>2, <2>4, <2>5 DEF Halfway, CallOf
<1>4. CASE call[c].kind = "create"
  <2>1. Wrote(c)
    BY <1>2, <1>4, Position DEF Wrote
  <2>2. call' = [call EXCEPT ![c].at = @ + 1] /\ rows' = rows \cup {call[c].row} /\ UNCHANGED faults
    BY <1>4, <2>1 DEF Proceed, Transactions, Commit
  <2>3. call' \in [Caller -> Progress]
    BY <1>1, <1>2, <2>2 DEF Progress
  <2>4. /\ call'[c].at = 2 /\ call'[c].staged = call[c].staged /\ call'[c].step = "running"
        /\ call'[c].kind = call[c].kind /\ call'[c].row = call[c].row
        /\ \A d \in Caller \ {c} : call'[d] = call[d]
    BY <1>1, <1>2, <2>2 DEF Progress
  <2>5. call[c].row \notin rows
    BY <1>1, <1>2, <1>4, Position DEF Proceed, Refused, Seen, Shape, Unique
  <2> QED
    BY <1>2, <1>4, <2>2, <2>3, <2>4, <2>5 DEF Halfway, CallOf
<1> QED
  BY <1>2, <1>3, <1>4

LEMMA MissFacts ==
  ASSUME PoolInv, NEW c \in Caller, Miss(c)
  PROVE  call[c].kind = "find" /\ ~Halfway(call[c]) /\ call[c].row \notin rows
<1>1. Shape(call[c], rows) /\ call[c].row \notin Seen(c)
  BY DEF PoolInv, Miss
<1>2. ~Halfway(call[c])
  BY <1>1 DEF Shape, Seen
<1> QED
  BY <1>1, <1>2, Position DEF Miss, Seen

LEMMA RefuseFacts ==
  ASSUME PoolInv, NEW c \in Caller, Refuse(c)
  PROVE  ~Halfway(call[c])
BY Position DEF Refuse, Refused

LEMMA AcquireFacts ==
  ASSUME PoolInv, NEW c \in Caller, Acquire(c)
  PROVE  /\ PoolInv'
         /\ call' = [call EXCEPT ![c].step = "running"]
         /\ call'[c].step = "running" /\ CallOf(call'[c]) = CallOf(call[c])
         /\ ~Halfway(call'[c])
         /\ \A d \in Caller \ {c} : call'[d] = call[d]
<1>1. call \in [Caller -> Progress] /\ Shape(call[c], rows)
  BY DEF PoolInv, PoolTypeOK
<1>2. call' = [call EXCEPT ![c].step = "running"] /\ UNCHANGED <<rows, faults>>
  BY DEF Acquire
<1>3. /\ call'[c].step = "running" /\ call'[c].kind = call[c].kind /\ call'[c].row = call[c].row
      /\ call'[c].at = call[c].at /\ call'[c].staged = call[c].staged
      /\ \A d \in Caller \ {c} : call'[d] = call[d]
      /\ call' \in [Caller -> Progress]
  BY <1>1, <1>2 DEF Progress
<1>4. call[c].step = "waiting" /\ \A d \in Caller : ~Running(d)
  BY DEF Acquire, Running
<1>5. CallOf(call'[c]) = CallOf(call[c])
  BY <1>3 DEF CallOf
<1>6. ~Halfway(call[c]) /\ ~Halfway(call'[c])
  BY <1>1, <1>3, <1>4 DEF Shape, Halfway
<1>7. Shape(call'[c], rows')
  BY <1>1, <1>2, <1>3, <1>4, <1>5, <1>6 DEF Shape
<1>8. rows' \subseteq Row /\ faults' \in 0 .. MaxFaults
  BY <1>2 DEF PoolInv, PoolTypeOK
<1>9. PoolInv'
  BY <1>2, <1>3, <1>4, <1>7, <1>8, NewCall
<1> QED
  BY <1>2, <1>3, <1>5, <1>6, <1>9

\* A call fails: the limit, a constraint or another error.
LEMMA FailFacts ==
  ASSUME PoolInv, NEW c \in Caller, TimeOut(c) \/ Refuse(c) \/ Break(c)
  PROVE  /\ PoolInv' /\ Busy(c) /\ call'[c].step = "failed" /\ End(c, "failed")
         /\ UNCHANGED rows
         /\ \A d \in Caller \ {c} : call'[d] = call[d]
<1>1. End(c, "failed") /\ UNCHANGED rows /\ Busy(c)
  BY DEF TimeOut, Refuse, Break, Busy
<1>2. faults' \in 0 .. MaxFaults
  BY MaxFaultsAssumption DEF PoolInv, PoolTypeOK, TimeOut, Refuse, Break
<1>3. rows' \subseteq Row
  BY <1>1 DEF PoolInv, PoolTypeOK
<1> QED
  BY <1>1, <1>2, <1>3, EndKeeps DEF End, Outcome

\* The step of a call keeps the file, or adds the row of the call to it.
LEMMA PoolEffect ==
  ASSUME PoolInv, NEW c \in Caller, PoolStep(c)
  PROVE  /\ PoolInv'
         /\ Busy(c)
         /\ rows \subseteq rows'
         /\ \A d \in Caller \ {c} : call'[d] = call[d]
         /\ \/ call'[c].step = "running" /\ CallOf(call'[c]) = CallOf(call[c])
            \/ call'[c].step \in Outcome
         /\ call'[c].step = "running" /\ Halfway(call'[c]) /\ call[c].kind \in {"insert", "create"}
              => call[c].row \in rows' /\ (call[c].row \in rows => Halfway(call[c]))
         /\ call'[c].step = "ok" /\ call[c].kind \notin {"find", "list"} => call[c].row \in rows'
         /\ call'[c].step = "ok" /\ call[c].kind \in {"insert", "create"}
              => call[c].row \notin Unique \cap rows \/ (Running(c) /\ Halfway(call[c]))
         /\ call'[c].step = "notFound" => call[c].row \notin rows'
<1> USE DEF Outcome
<1>1. CASE Acquire(c)
  BY <1>1, AcquireFacts DEF Acquire, Busy
<1>2. CASE TimeOut(c) \/ Refuse(c) \/ Break(c)
  BY <1>2, FailFacts
<1>3. CASE Miss(c)
  <2>1. End(c, "notFound") /\ UNCHANGED <<rows, faults>> /\ Busy(c)
    BY <1>3 DEF Miss, Busy
  <2>2. rows' \subseteq Row /\ faults' \in 0 .. MaxFaults
    BY <2>1 DEF PoolInv, PoolTypeOK
  <2>3. /\ PoolInv' /\ call'[c].step = "notFound"
        /\ \A d \in Caller \ {c} : call'[d] = call[d]
    BY <2>1, <2>2, EndKeeps DEF End
  <2> QED
    BY <1>3, <2>1, <2>3, MissFacts
<1>4. CASE Proceed(c) /\ IsLast(c)
  <2>1. /\ End(c, "ok") /\ Busy(c) /\ Running(c) /\ UNCHANGED faults
        /\ rows' = IF call[c].kind \in {"find", "list"} THEN rows ELSE rows \cup {call[c].row}
    BY <1>4, LastStatement DEF Proceed, Busy, Running
  <2>2. rows' \subseteq Row /\ faults' \in 0 .. MaxFaults
    BY <2>1, CallTypes DEF PoolInv, PoolTypeOK
  <2>3. rows \subseteq rows'
    BY <2>1
  <2>4. /\ PoolInv' /\ call'[c].step = "ok"
        /\ \A d \in Caller \ {c} : call'[d] = call[d]
    BY <2>1, <2>2, <2>3, EndKeeps DEF End
  <2>5. call[c].kind \in {"insert", "create"}
          => call[c].row \notin Unique \cap rows \/ (Running(c) /\ Halfway(call[c]))
    BY <1>4, <2>1, LastStatement, Position
  <2> QED
    BY <2>1, <2>3, <2>4, <2>5
<1>5. CASE Proceed(c) /\ ~IsLast(c)
  <2>1. Busy(c) /\ Shape(call[c], rows) /\ \A d \in Caller \ {c} : ~Running(d)
    BY <1>5 DEF Proceed, Busy, Running, PoolInv, OneConnection
  <2>2. rows \subseteq rows'
    BY <1>5, FirstStatement
  <2>3. rows' \subseteq Row /\ faults' \in 0 .. MaxFaults
    BY <1>5, <2>1, FirstStatement, CallTypes DEF PoolInv, PoolTypeOK
  <2>4. call'[c].kind = call[c].kind /\ call'[c].row = call[c].row
    BY <1>5, FirstStatement DEF CallOf
  <2>5. CallOf(call'[c]) \in Call
    BY <1>5, <2>1, FirstStatement, CallTypes
  <2>6. Shape(call'[c], rows')
    BY <1>5, <2>1, <2>4, <2>5, FirstStatement DEF Shape
  <2>7. PoolInv'
    BY <1>5, <2>1, <2>2, <2>3, <2>6, FirstStatement, NewCall
  <2> QED
    BY <1>5, <2>1, <2>2, <2>7, FirstStatement
<1> QED
  BY <1>1, <1>2, <1>3, <1>4, <1>5 DEF PoolStep, Closure

-----------------------------------------------------------------------------
(* The handlers. *)

\* The calls of the handlers: only create_pair creates, and only create_user
\* inserts a user.
Tries ==
  {q \in [kind : {"find", "list", "set", "create", "insert"}, row : Row \cup {"none"},
          missing : NotFound \cup {"internal"}] :
     /\ q.kind = "find" => q.row \in Row
     /\ q.kind = "list" => q.row = "none"
     /\ q.kind = "set" => q.row = "account"
     /\ q.kind = "create" => q.row = "pair"
     /\ q.kind = "insert" => q.row = "user"}

LEMMA TryFacts ==
  ASSUME NEW q \in Tries
  PROVE  /\ Asks(q.kind, q.row)
         /\ q.kind # "upsert" /\ q.missing # "ok"
         /\ q.kind \notin {"find", "list"} /\ q.row \in Unique => q.kind \in {"insert", "create"}
         /\ q.kind \in {"insert", "create"} => q.row \in Unique
BY Closures DEF Tries, Asks, CallOf, Call, NotFound, Unique, Row

Reads == {q \in Tries : q.kind \in {"find", "list"}}

\* A handler makes one call or two, and the second one reads.
LEMMA HandlerShape ==
  ASSUME NEW h \in Handlers
  PROVE  /\ h.calls \in Seq(Tries)
         /\ Len(h.calls) \in 1 .. 2
         /\ \A i \in DOMAIN h.calls : i # 1 => h.calls[i] \in Reads
<1>find. /\ Try(LastReport, "internal") \in Reads
         /\ Try(AccountById, "no account") \in Reads
         /\ Try(PairById, "no pair") \in Reads
         /\ Try(PriceOf, "no price") \in Reads
         /\ Try(UserByName, "internal") \in Reads
  BY DEF Reads, Try, Find, LastReport, AccountById, PairById, PriceOf, UserByName, Tries, Row, NotFound
<1>list. /\ Try(SomeAccounts, "internal") \in Reads
         /\ Try(RewardsOf, "internal") \in Reads
         /\ Try(SomePairs, "no pair") \in Reads
         /\ Try(SomeBlocks, "internal") \in Reads
  BY DEF Reads, Try, List, SomeAccounts, RewardsOf, SomePairs, SomeBlocks, Tries, NotFound
<1>write. /\ Try(SetAccountPending, "internal") \in Tries
          /\ Try(InsertPair, "internal") \in Tries
          /\ Try(InsertUser, "internal") \in Tries
  BY DEF Try, SetAccountPending, InsertPair, InsertUser, Tries, Row
<1>one. \A q \in Tries :
          <<q>> \in Seq(Tries) /\ Len(<<q>>) \in 1 .. 2 /\ \A i \in DOMAIN <<q>> : i = 1
  OBVIOUS
<1>two. \A q1 \in Tries, q2 \in Reads :
          /\ <<q1, q2>> \in Seq(Tries) /\ Len(<<q1, q2>>) \in 1 .. 2
          /\ \A i \in DOMAIN <<q1, q2>> : i # 1 => <<q1, q2>>[i] \in Reads
  BY DEF Reads
<1>reads. Reads \subseteq Tries
  BY DEF Reads
<1>1. CASE h = GetStatus
  <2>1. h.calls = <<Try(LastReport, "internal")>>
    BY <1>1 DEF GetStatus, Open
  <2> QED
    BY <2>1, <1>one, <1>reads, <1>find
<1>2. CASE h = GetAccount
  <2>1. h.calls = <<Try(AccountById, "no account")>>
    BY <1>2 DEF GetAccount, Open
  <2> QED
    BY <2>1, <1>one, <1>reads, <1>find
<1>3. CASE h = GetAccounts
  <2>1. h.calls = <<Try(SomeAccounts, "internal")>>
    BY <1>3 DEF GetAccounts, Open
  <2> QED
    BY <2>1, <1>one, <1>reads, <1>list
<1>4. CASE h = GetAccountRewards
  <2>1. h.calls = <<Try(AccountById, "no account"), Try(RewardsOf, "internal")>>
    BY <1>4 DEF GetAccountRewards, Open
  <2> QED
    BY <2>1, <1>two, <1>reads, <1>find, <1>list
<1>5. CASE h = GetPairs
  <2>1. h.calls = <<Try(SomePairs, "no pair")>>
    BY <1>5 DEF GetPairs, Open
  <2> QED
    BY <2>1, <1>one, <1>reads, <1>list
<1>6. CASE h = GetPrice
  <2>1. h.calls = <<Try(PairById, "no pair"), Try(PriceOf, "no price")>>
    BY <1>6 DEF GetPrice, Open
  <2> QED
    BY <2>1, <1>two, <1>reads, <1>find
<1>7. CASE h = GetBlocks
  <2>1. h.calls = <<Try(SomeBlocks, "internal")>>
    BY <1>7 DEF GetBlocks, Open
  <2> QED
    BY <2>1, <1>one, <1>reads, <1>list
<1>8. CASE h = SetAccount
  <2>1. h.calls = <<Try(SetAccountPending, "internal")>>
    BY <1>8 DEF SetAccount, Restricted
  <2> QED
    BY <2>1, <1>one, <1>write
<1>9. CASE h = CreatePair
  <2>1. h.calls = <<Try(InsertPair, "internal")>>
    BY <1>9 DEF CreatePair, Restricted
  <2> QED
    BY <2>1, <1>one, <1>write
<1>10. CASE h = CreateUser
  <2>1. h.calls = <<Try(InsertUser, "internal"), Try(UserByName, "internal")>>
    BY <1>10 DEF CreateUser, Restricted
  <2> QED
    BY <2>1, <1>two, <1>reads, <1>find, <1>write
<1> QED
  BY <1>1, <1>2, <1>3, <1>4, <1>5, <1>6, <1>7, <1>8, <1>9, <1>10 DEF Handlers

-----------------------------------------------------------------------------
(* The requests. *)

LEMMA RequestTypes ==
  ASSUME ClientTypes, NEW c \in Client
  PROVE  /\ c \in Caller
         /\ client[c].handler \in Handlers
         /\ client[c].step \in {"idle", "calling"}
         /\ client[c].at \in 1 .. 2
         /\ Calls(c) \in Seq(Tries) /\ Len(Calls(c)) \in 1 .. 2
         /\ DOMAIN Calls(c) = 1 .. Len(Calls(c))
         /\ \A i \in DOMAIN Calls(c) : Calls(c)[i] \in Tries
<1>1. /\ client[c].handler \in Handlers /\ client[c].step \in {"idle", "calling"}
      /\ client[c].at \in 1 .. 2
  BY DEF ClientTypes
<1>2. Calls(c) \in Seq(Tries) /\ Len(Calls(c)) \in 1 .. 2
  BY <1>1, HandlerShape DEF Calls
<1> QED
  BY <1>1, <1>2, ClientAssumption

\* A request is as before if only the file grows.
LEMMA Untouched ==
  ASSUME NEW d \in Client, RequestShape(d),
         client'[d] = client[d], call'[d] = call[d], rows \subseteq rows'
  PROVE  RequestShape(d)'
BY DEF RequestShape, Past, Busy, Calls

\* Between two requests there is nothing to keep.
LEMMA Unasked ==
  ASSUME NEW d \in Client, client'[d].step = "idle", client'[d].knew = {}, call'[d].step = "idle"
  PROVE  RequestShape(d)' /\ \A row \in Unique : ~Inserted(d, row)'
BY DEF RequestShape, Inserted

\* The unique index lets one request insert a row, which nobody was told of.
LEMMA InserterKeeps ==
  ASSUME AckedStays, OneInserter, NEW c, rows \subseteq rows',
         \A x \in Client : \A row \in Unique :
           Inserted(x, row)' => /\ Inserted(x, row) \/ (x = c /\ row \in rows' \ rows)
                                /\ row \notin acked' \ acked
  PROVE  OneInserter'
<1> SUFFICES ASSUME NEW x \in Client, NEW row \in Unique, Inserted(x, row)'
             PROVE  /\ row \in rows' \ acked'
                    /\ \A d \in Client : Inserted(d, row)' => d = x
  BY DEF OneInserter
<1>1. row \in rows' \ acked'
  BY DEF OneInserter, AckedStays
<1>2. ASSUME NEW d \in Client, Inserted(d, row)' PROVE d = x
  BY <1>2 DEF OneInserter
<1> QED
  BY <1>1, <1>2

\* The steps of a call, of a request or of a job.
LEMMA RunPoolKeeps ==
  ASSUME ApiInv, NEW c \in Caller, RunPool(c)
  PROVE  ApiInv'
<1> USE DEF ApiInv, RequestInv
<1>1. PoolStep(c) /\ UNCHANGED <<client, acked>>
  BY DEF RunPool, api
<1>2. /\ PoolInv' /\ rows \subseteq rows' /\ Busy(c)
      /\ \A d \in Caller \ {c} : call'[d] = call[d]
  BY <1>1, PoolEffect
<1>3. ClientTypes' /\ AckedStays'
  BY <1>1, <1>2 DEF ClientTypes, AckedStays, PoolInv
<1>4. ASSUME NEW d \in Client, d # c
      PROVE  /\ RequestShape(d)'
             /\ \A row \in Unique : Inserted(d, row)' => Inserted(d, row)
  <2>1. call'[d] = call[d] /\ client'[d] = client[d]
    BY <1>1, <1>2, <1>4, ClientAssumption
  <2> QED
    BY <1>2, <2>1, Untouched DEF Inserted, Past, Calls, Running
<1>5. ASSUME c \in Client
      PROVE  /\ RequestShape(c)'
             /\ \A row \in Unique :
                  Inserted(c, row)' => Inserted(c, row) \/ row \in rows' \ rows
  <2>1. RequestShape(c) /\ client'[c] = client[c] /\ Calls(c)' = Calls(c)
    BY <1>1, <1>5 DEF Calls
  <2>2. client[c].step = "calling" /\ client[c].at \in DOMAIN Calls(c)
    BY <1>2, <1>5, <2>1, RequestTypes DEF RequestShape, Busy
  <2>3. CallOf(call[c]) = CallOf(Calls(c)[client[c].at])
    BY <1>2, <2>1, <2>2 DEF RequestShape
  <2>4. call[c].kind = Calls(c)[client[c].at].kind /\ call[c].row = Calls(c)[client[c].at].row
    BY <2>3 DEF CallOf
  <2>5. /\ call'[c].step # "idle"
        /\ Busy(c)' => CallOf(call'[c]) = CallOf(call[c])
    BY <1>1, PoolEffect DEF Busy, Outcome
  <2>6. \A i \in DOMAIN Calls(c) :
          Past(c, i)' /\ Calls(c)[i].kind \notin {"find", "list"} => Calls(c)[i].row \in rows'
    <3> SUFFICES ASSUME NEW i \in DOMAIN Calls(c), Past(c, i)', Calls(c)[i].kind \notin {"find", "list"}
                 PROVE  Calls(c)[i].row \in rows'
      OBVIOUS
    <3>1. CASE i < client[c].at
      BY <1>2, <2>1, <2>2, <3>1 DEF RequestShape, Past
    <3>2. CASE i = client[c].at /\ call'[c].step = "ok"
      BY <1>1, <2>4, <3>2, PoolEffect
    <3> QED
      BY <2>1, <3>1, <3>2 DEF Past
  <2>7. call'[c].step = "notFound" => Calls(c)[client[c].at].row \notin client[c].knew
    BY <1>1, <1>2, <2>1, <2>4, PoolEffect DEF RequestShape
  <2>8. client[c].knew \subseteq rows'
    BY <1>2, <2>1 DEF RequestShape
  <2>9. RequestShape(c)'
    BY <2>1, <2>2, <2>3, <2>5, <2>6, <2>7, <2>8 DEF RequestShape
  <2>10. ASSUME NEW row \in Unique, Inserted(c, row)'
         PROVE  Inserted(c, row) \/ row \in rows' \ rows
    <3>1. PICK i \in DOMAIN Calls(c) :
            /\ Calls(c)[i].kind \in {"insert", "create"} /\ Calls(c)[i].row = row
            /\ \/ Past(c, i)'
               \/ i = client[c].at /\ call'[c].step = "running" /\ Halfway(call'[c])
      BY <2>1, <2>10 DEF Inserted, Running
    <3>2. CASE i < client[c].at
      BY <2>2, <3>1, <3>2 DEF Inserted, Past
    <3>3. CASE i = client[c].at /\ call'[c].step = "ok"
      <4>1. call[c].kind \in {"insert", "create"} /\ call[c].row = row
        BY <2>4, <3>1, <3>3
      <4>2. row \in rows' /\ (row \notin rows \/ (Running(c) /\ Halfway(call[c])))
        BY <1>1, <3>3, <4>1, PoolEffect
      <4> QED
        BY <2>2, <3>1, <3>3, <4>2 DEF Inserted
    <3>4. CASE i = client[c].at /\ call'[c].step = "running" /\ Halfway(call'[c])
      <4>1. call[c].kind \in {"insert", "create"} /\ call[c].row = row
        BY <2>4, <3>1, <3>4
      <4>2. row \in rows' /\ (row \in rows => Halfway(call[c]))
        BY <1>1, <3>4, <4>1, PoolEffect
      <4>3. Halfway(call[c]) => Running(c)
        BY DEF PoolInv, Shape, Running
      <4> QED
        BY <2>2, <3>1, <3>4, <4>2, <4>3 DEF Inserted
    <3> QED
      BY <2>1, <3>1, <3>2, <3>3, <3>4 DEF Past
  <2> QED
    BY <2>9, <2>10
<1>6. \A d \in Client : RequestShape(d)'
  BY <1>4, <1>5
<1>7. OneInserter'
  BY <1>1, <1>2, <1>4, <1>5, InserterKeeps
<1> QED
  BY <1>2, <1>3, <1>6, <1>7

\* What a request is told.
LEMMA AnswerTypes ==
  ASSUME ClientTypes, NEW c \in Client, NEW status \in Statuses, Answer(c, status)
  PROVE  /\ client' \in [Client -> [step : {"idle", "calling"}, handler : Handlers,
                                    at : 1 .. 2, knew : SUBSET Row, answer : Statuses]]
         /\ client'[c].step = "idle" /\ client'[c].knew = {} /\ client'[c].answer = status
         /\ \A d \in Client \ {c} : client'[d] = client[d]
<1>1. GetBlocks \in Handlers
  BY DEF Handlers
<1>2. /\ NoRequest(status) \in [step : {"idle", "calling"}, handler : Handlers,
                               at : 1 .. 2, knew : SUBSET Row, answer : Statuses]
      /\ NoRequest(status).step = "idle" /\ NoRequest(status).knew = {}
      /\ NoRequest(status).answer = status
  BY <1>1 DEF NoRequest
<1> HIDE DEF NoRequest
<1> QED
  BY <1>2 DEF ClientTypes, Answer

LEMMA RejectTypes ==
  ASSUME NEW c \in Client, Reject(c)
  PROVE  \E status \in Refusals : Answer(c, status)
<1>1. PICK t \in Tokens, h \in Routes[c] : Refusal(t, h) # "ok" /\ Answer(c, Refusal(t, h))
  BY DEF Reject
<1>2. Refusal(t, h) \in Refusals \cup {"ok"}
  BY DEF Refusal, Refusals
<1> QED
  BY <1>1, <1>2

LEMMA RejectKeeps ==
  ASSUME ApiInv, NEW c \in Client, Reject(c)
  PROVE  ApiInv'
<1> USE DEF ApiInv, RequestInv
<1>1. PICK status \in Refusals : Answer(c, status)
  BY RejectTypes
<1>2. /\ UNCHANGED <<rows, call, faults, acked>> /\ client[c].step = "idle"
  BY DEF Reject, pool
<1>3. /\ client' \in [Client -> [step : {"idle", "calling"}, handler : Handlers,
                                 at : 1 .. 2, knew : SUBSET Row, answer : Statuses]]
      /\ client'[c].step = "idle" /\ client'[c].knew = {}
      /\ \A d \in Client \ {c} : client'[d] = client[d]
  BY <1>1, AnswerTypes DEF Statuses
<1>4. PoolInv'
  BY <1>2 DEF PoolInv, PoolTypeOK, OneConnection, Running
<1>5. ClientTypes' /\ AckedStays'
  BY <1>2, <1>3, <1>4 DEF PoolInv, ClientTypes, AckedStays
<1>6. RequestShape(c)' /\ \A row \in Unique : ~Inserted(c, row)'
  <2>1. call'[c].step = "idle"
    BY <1>2 DEF RequestShape
  <2> QED
    BY <1>3, <2>1, Unasked
<1>7. ASSUME NEW d \in Client, d # c
      PROVE  RequestShape(d)' /\ \A row \in Unique : Inserted(d, row)' => Inserted(d, row)
  BY <1>2, <1>3, <1>7, Untouched DEF Inserted, Past, Calls, Running
<1>8. OneInserter'
  BY <1>2, <1>6, <1>7, InserterKeeps
<1> QED
  BY <1>4, <1>5, <1>6, <1>7, <1>8

\* A request makes its next call, the first one or another.
LEMMA CallingKeeps ==
  ASSUME ApiInv, NEW c \in Client, NEW r,
         client' = [client EXCEPT ![c] = r],
         r \in [step : {"idle", "calling"}, handler : Handlers,
                at : 1 .. 2, knew : SUBSET Row, answer : Statuses],
         r.step = "calling", r.at \in DOMAIN r.handler.calls, r.knew \subseteq rows,
         \A i \in DOMAIN r.handler.calls :
           i < r.at => /\ r.handler.calls[i].kind \notin {"find", "list"}
                            => r.handler.calls[i].row \in rows
                       /\ r.handler.calls[i].kind \in {"insert", "create"}
                            => Inserted(c, r.handler.calls[i].row),
         Exec(c, r.handler.calls[r.at].kind, r.handler.calls[r.at].row),
         UNCHANGED <<rows, faults, acked>>
  PROVE  ApiInv'
<1> USE DEF ApiInv, RequestInv
<1> DEFINE q == r.handler.calls[r.at]
<1>1. c \in Caller /\ q \in Tries
  <2>1. r.handler \in Handlers
    OBVIOUS
  <2> QED
    BY <2>1, ClientAssumption, HandlerShape
<1>2. /\ PoolInv' /\ call'[c].step = "waiting" /\ CallOf(call'[c]) = CallOf(q)
      /\ \A d \in Caller \ {c} : call'[d] = call[d]
  BY <1>1, TryFacts, ExecKeeps DEF CallOf
<1>3. /\ client'[c] = r /\ \A d \in Client \ {c} : client'[d] = client[d]
      /\ client' \in [Client -> [step : {"idle", "calling"}, handler : Handlers,
                                 at : 1 .. 2, knew : SUBSET Row, answer : Statuses]]
  BY DEF ClientTypes
<1>4. ClientTypes' /\ AckedStays'
  BY <1>2, <1>3 DEF PoolInv, ClientTypes, AckedStays
<1>5. Calls(c)' = r.handler.calls /\ \A i : Past(c, i)' <=> i < r.at
  BY <1>2, <1>3 DEF Calls, Past
<1>6. RequestShape(c)'
  BY <1>2, <1>3, <1>5 DEF RequestShape
<1>7. ASSUME NEW row \in Unique, Inserted(c, row)' PROVE Inserted(c, row)
  <2>1. PICK i \in DOMAIN r.handler.calls :
          /\ r.handler.calls[i].kind \in {"insert", "create"} /\ r.handler.calls[i].row = row
          /\ i < r.at
    BY <1>2, <1>5, <1>7 DEF Inserted, Running
  <2> QED
    BY <2>1
<1>8. ASSUME NEW d \in Client, d # c
      PROVE  RequestShape(d)' /\ \A row \in Unique : Inserted(d, row)' => Inserted(d, row)
  <2>1. call'[d] = call[d] /\ client'[d] = client[d]
    BY <1>2, <1>3, <1>8, ClientAssumption
  <2> QED
    BY <2>1, Untouched DEF Inserted, Past, Calls, Running
<1>9. OneInserter'
  BY <1>7, <1>8, InserterKeeps
<1> QED
  BY <1>2, <1>4, <1>6, <1>8, <1>9

LEMMA AcceptKeeps ==
  ASSUME ApiInv, NEW c \in Client, Accept(c)
  PROVE  ApiInv'
<1>1. PICK h \in Routes[c] :
        /\ client' = [client EXCEPT ![c] = [step |-> "calling", handler |-> h, at |-> 1,
                                            knew |-> rows \cap Named(h), answer |-> "ok"]]
        /\ Exec(c, h.calls[1].kind, h.calls[1].row)
  BY DEF Accept
<1>2. h \in Handlers
  BY RoutesAssumption
<1> DEFINE r == [step |-> "calling", handler |-> h, at |-> 1,
                 knew |-> rows \cap Named(h), answer |-> "ok"]
<1>3. /\ r \in [step : {"idle", "calling"}, handler : Handlers,
                at : 1 .. 2, knew : SUBSET Row, answer : Statuses]
      /\ r.step = "calling" /\ r.handler = h /\ r.at = 1 /\ r.knew \subseteq rows
  BY <1>2 DEF ApiInv, PoolInv, PoolTypeOK, Statuses
<1>4. 1 \in DOMAIN h.calls /\ \A i \in DOMAIN h.calls : ~(i < 1)
  BY <1>2, HandlerShape
<1>5. client' = [client EXCEPT ![c] = r] /\ UNCHANGED <<rows, faults, acked>>
  BY <1>1 DEF Accept
<1> HIDE DEF r
<1> QED
  BY <1>1, <1>3, <1>4, <1>5, CallingKeeps

LEMMA ContinueKeeps ==
  ASSUME ApiInv, NEW c \in Client, Continue(c)
  PROVE  ApiInv'
<1> USE DEF ApiInv, RequestInv
<1>1. /\ client[c].step = "calling" /\ client[c].at \in DOMAIN Calls(c) /\ RequestShape(c)
      /\ call[c].step = "ok"
  BY RequestTypes DEF Continue, RequestShape
<1> DEFINE r == [client[c] EXCEPT !.at = client[c].at + 1]
<1>2. client[c].at + 1 \in DOMAIN Calls(c) /\ client[c].at + 1 \in 1 .. 2 /\ client[c].at \in Nat
  BY <1>1, RequestTypes DEF Continue, Done
<1>3. client' = [client EXCEPT ![c] = r] /\ UNCHANGED <<rows, faults, acked>>
  BY DEF Continue, ClientTypes
<1>4. /\ r \in [step : {"idle", "calling"}, handler : Handlers,
                at : 1 .. 2, knew : SUBSET Row, answer : Statuses]
      /\ r.step = client[c].step /\ r.handler = client[c].handler
      /\ r.at = client[c].at + 1 /\ r.knew = client[c].knew
  BY <1>2 DEF ClientTypes
<1>5. r.handler.calls = Calls(c) /\ r.knew \subseteq rows
  BY <1>1, <1>4 DEF Calls, RequestShape
<1>6. ASSUME NEW i \in DOMAIN Calls(c), i < r.at
      PROVE  /\ Calls(c)[i].kind \notin {"find", "list"} => Calls(c)[i].row \in rows
             /\ Calls(c)[i].kind \in {"insert", "create"} => Inserted(c, Calls(c)[i].row)
  <2>1. Past(c, i)
    BY <1>1, <1>2, <1>4, <1>6, RequestTypes DEF Past
  <2>2. Calls(c)[i].kind \notin {"find", "list"} => Calls(c)[i].row \in rows
    BY <1>1, <2>1 DEF RequestShape
  <2>3. Calls(c)[i].kind \in {"insert", "create"} => Inserted(c, Calls(c)[i].row)
    BY <1>1, <2>1 DEF Inserted
  <2> QED
    BY <2>2, <2>3
<1>7. Exec(c, Calls(c)[r.at].kind, Calls(c)[r.at].row)
  BY <1>4 DEF Continue
<1> HIDE DEF r
<1> QED
  BY <1>1, <1>2, <1>3, <1>4, <1>5, <1>6, <1>7, CallingKeeps

\* A request whose calls have succeeded has written what it was to write.
LEMMA SucceedFacts ==
  ASSUME ApiInv, NEW c \in Client, Succeed(c)
  PROVE  /\ Written(Calls(c)) \subseteq rows
         /\ \A row \in Unique \cap Written(Calls(c)) : Inserted(c, row)
<1> USE DEF ApiInv, RequestInv
<1>1. /\ client[c].step = "calling" /\ RequestShape(c)
      /\ \A i \in DOMAIN Calls(c) : Past(c, i) /\ Calls(c)[i] \in Tries
  BY RequestTypes DEF Succeed, Done, RequestShape, Past
<1>2. ASSUME NEW row \in Written(Calls(c))
      PROVE  \E i \in DOMAIN Calls(c) :
               Calls(c)[i].row = row /\ Calls(c)[i].kind \notin {"find", "list"}
  BY <1>2 DEF Written
<1>3. Written(Calls(c)) \subseteq rows
  BY <1>1, <1>2 DEF RequestShape
<1>4. ASSUME NEW row \in Unique \cap Written(Calls(c)) PROVE Inserted(c, row)
  <2>1. PICK i \in DOMAIN Calls(c) :
          Calls(c)[i].row = row /\ Calls(c)[i].kind \notin {"find", "list"}
    BY <1>2
  <2>2. Calls(c)[i].kind \in {"insert", "create"}
    BY <1>1, <2>1, TryFacts
  <2> QED
    BY <1>1, <2>1, <2>2 DEF Inserted
<1> QED
  BY <1>3, <1>4

LEMMA FailRequestTypes ==
  ASSUME ApiInv, NEW c \in Client, FailRequest(c)
  PROVE  /\ MapError(c) \in NotFound \cup {"internal"}
         /\ MapError(c) \in NotFound => call[c].step = "notFound"
         /\ client[c].step = "calling"
<1> USE DEF ApiInv, RequestInv
<1>1. client[c].step = "calling" /\ client[c].at \in DOMAIN Calls(c)
  BY RequestTypes DEF FailRequest, RequestShape
<1>2. Calls(c)[client[c].at].missing \in NotFound \cup {"internal"}
  BY <1>1, RequestTypes DEF Tries
<1> QED
  BY <1>1, <1>2 DEF MapError, NotFound

\* A request is answered.
LEMMA AnswerKeeps ==
  ASSUME ApiInv, NEW c \in Client, Succeed(c) \/ FailRequest(c)
  PROVE  ApiInv'
<1> USE DEF ApiInv, RequestInv
<1>1. c \in Caller /\ Take(c) /\ UNCHANGED <<rows, faults>>
  BY ClientAssumption DEF Succeed, FailRequest
<1>2. PICK status \in Statuses : Answer(c, status)
  BY FailRequestTypes DEF Succeed, FailRequest, Statuses
<1>3. /\ PoolInv' /\ call'[c].step = "idle"
      /\ \A d \in Caller \ {c} : call'[d] = call[d]
  BY <1>1, TakeKeeps
<1>4. /\ client' \in [Client -> [step : {"idle", "calling"}, handler : Handlers,
                                 at : 1 .. 2, knew : SUBSET Row, answer : Statuses]]
      /\ client'[c].step = "idle" /\ client'[c].knew = {}
      /\ \A d \in Client \ {c} : client'[d] = client[d]
  BY <1>2, AnswerTypes
<1>5. acked' \subseteq rows /\ acked' \subseteq acked \cup Written(Calls(c))
  BY SucceedFacts DEF Succeed, FailRequest, AckedStays
<1>6. ClientTypes' /\ AckedStays'
  BY <1>1, <1>3, <1>4, <1>5 DEF PoolInv, PoolTypeOK, ClientTypes, AckedStays
<1>7. RequestShape(c)' /\ \A row \in Unique : ~Inserted(c, row)'
  BY <1>3, <1>4, Unasked
<1>8. ASSUME NEW d \in Client, d # c
      PROVE  RequestShape(d)' /\ \A row \in Unique : Inserted(d, row)' => Inserted(d, row)
  <2>1. call'[d] = call[d] /\ client'[d] = client[d]
    BY <1>3, <1>4, <1>8, ClientAssumption
  <2> QED
    BY <1>1, <2>1, Untouched DEF Inserted, Past, Calls, Running
<1>9. ASSUME NEW d \in Client, NEW row \in Unique, Inserted(d, row)'
      PROVE  row \notin acked' \ acked
  <2>1. Inserted(d, row) /\ d # c
    BY <1>7, <1>8, <1>9
  <2>2. CASE Succeed(c)
    BY <1>5, <2>1, <2>2, SucceedFacts DEF OneInserter
  <2>3. CASE FailRequest(c)
    BY <2>3 DEF FailRequest
  <2> QED
    BY <2>2, <2>3
<1>10. OneInserter'
  BY <1>1, <1>7, <1>8, <1>9, InserterKeeps
<1> QED
  BY <1>3, <1>6, <1>7, <1>8, <1>10

LEMMA JobCallKeeps ==
  ASSUME ApiInv, NEW j \in Job, JobCall(j)
  PROVE  ApiInv'
<1> USE DEF ApiInv, RequestInv
<1>1. Asks("insert", "report") /\ Asks("upsert", "price")
  BY Closures DEF Asks, CallOf, Call, Row
<1>2. j \in Caller /\ j \notin Client /\ UNCHANGED <<rows, faults, client, acked>>
  BY DEF Job, JobCall, api
<1>3. PoolInv' /\ \A d \in Caller \ {j} : call'[d] = call[d]
  BY <1>1, <1>2, ExecKeeps DEF JobCall
<1>4. ClientTypes' /\ AckedStays'
  BY <1>2, <1>3 DEF PoolInv, ClientTypes, AckedStays
<1>5. ASSUME NEW d \in Client
      PROVE  RequestShape(d)' /\ \A row \in Unique : Inserted(d, row)' => Inserted(d, row)
  <2>1. call'[d] = call[d] /\ client'[d] = client[d]
    BY <1>2, <1>3, ClientAssumption
  <2> QED
    BY <1>2, <2>1, Untouched DEF Inserted, Past, Calls, Running
<1>6. OneInserter'
  BY <1>2, <1>5, InserterKeeps
<1> QED
  BY <1>3, <1>4, <1>5, <1>6

\* Nothing is under way when the daemon starts.
Started ==
  /\ call = [c \in Caller |-> Idle] /\ client = [c \in Client |-> NoRequest("ok")]
  /\ rows \subseteq Row /\ acked \subseteq rows /\ faults \in 0 .. MaxFaults

LEMMA Fresh == Started => ApiInv
<1> SUFFICES ASSUME Started PROVE ApiInv
  OBVIOUS
<1> USE DEF Started
<1>1. Idle = [Idle EXCEPT !.step = "idle"]
  BY DEF Idle
<1>2. Shape(Idle, rows) /\ Idle.step = "idle"
  <2>1. Shape([Idle EXCEPT !.step = "idle"], rows)
    BY EndShape
  <2> QED
    BY <1>1, <2>1 DEF Idle
<1>3. \A c \in Caller : Shape(call[c], rows) /\ call[c].step = "idle"
  BY <1>2
<1>4. PoolInv
  BY <1>3 DEF PoolInv, PoolTypeOK, OneConnection, Running, Shape
<1>5. NoRequest("ok") \in [step : {"idle", "calling"}, handler : Handlers,
                           at : 1 .. 2, knew : SUBSET Row, answer : Statuses]
  BY DEF NoRequest, Handlers, Statuses
<1>6. ClientTypes /\ AckedStays
  BY <1>4, <1>5 DEF PoolInv, ClientTypes, AckedStays
<1>7. \A c \in Client : client[c].step = "idle" /\ client[c].knew = {}
  BY DEF NoRequest
<1>8. (\A c \in Client : RequestShape(c)) /\ OneInserter
  BY <1>3, <1>7, ClientAssumption DEF RequestShape, OneInserter, Inserted
<1> QED
  BY <1>4, <1>6, <1>8 DEF ApiInv, RequestInv

LEMMA KillKeeps ==
  ASSUME ApiInv, Kill
  PROVE  ApiInv'
<1>1. /\ call' = [c \in Caller |-> Idle] /\ client' = [c \in Client |-> NoRequest("ok")]
      /\ UNCHANGED <<rows, acked>>
  BY DEF Kill, Crash
<1>2. faults' \in 0 .. MaxFaults /\ rows' \subseteq Row /\ acked' \subseteq rows'
  BY <1>1, MaxFaultsAssumption
  DEF ApiInv, RequestInv, PoolInv, PoolTypeOK, AckedStays, Kill, Crash
<1>3. Started' => ApiInv'
  BY Fresh, PTL
<1> QED
  BY <1>1, <1>2, <1>3 DEF Started

-----------------------------------------------------------------------------
(* The safety of the interface. *)

LEMMA ApiStep == ASSUME ApiInv, [Next]_vars PROVE ApiInv'
<1>1. CASE UNCHANGED vars
  <2>1. UNCHANGED <<rows, call, faults, client, acked>>
    BY <1>1 DEF vars, pool, api
  <2> QED
    BY <2>1 DEF ApiInv, PoolInv, PoolTypeOK, OneConnection, Running, RequestInv, ClientTypes,
       AckedStays, OneInserter, Inserted, Past, Calls, RequestShape, Busy
<1> QED
  BY <1>1, RunPoolKeeps, RejectKeeps, AcceptKeeps, ContinueKeeps, AnswerKeeps, JobCallKeeps,
     KillKeeps
  DEF Next, Handle

\* The invariant holds in every run: calls that wait, fail or are cut off by a
\* kill included.
THEOREM ApiInvariant == Spec => []ApiInv
<1>1. Init => ApiInv
  BY Fresh, MaxFaultsAssumption DEF Init, PoolInit, Started
<1>2. ApiInv /\ [Next]_vars => ApiInv'
  BY ApiStep
<1> QED
  BY <1>1, <1>2, PTL DEF Spec

\* The variables keep their types.
THEOREM ApiTypeCorrect == Spec => []ApiTypeOK
<1>1. ApiInv => ApiTypeOK
  BY DEF ApiInv, RequestInv, ClientTypes, RequestShape, ApiTypeOK
<1> QED
  BY <1>1, ApiInvariant, PTL

\* What a client was told to be stored is in the file: a handler answers after
\* its last call, and the pool commits before it returns.
THEOREM Durable == Spec => []AckedStays
<1>1. ApiInv => AckedStays
  BY DEF ApiInv, RequestInv
<1> QED
  BY <1>1, ApiInvariant, PTL

\* Who answers a request: its handler, or a kill that ends all of them.
LEMMA WhoAnswers ==
  ASSUME ApiInv, Next, NEW c \in Client, client[c].step = "calling", client'[c].step = "idle"
  PROVE  \/ Succeed(c) /\ client'[c].answer = "ok"
         \/ FailRequest(c) /\ client'[c].answer = MapError(c)
         \/ Kill /\ client'[c].answer = "ok"
<1> USE DEF ApiInv, RequestInv
<1>1. CASE \E d \in Caller : RunPool(d)
  BY <1>1 DEF RunPool, api
<1>2. CASE \E d \in Job : JobCall(d)
  BY <1>2 DEF JobCall, api
<1>3. CASE Kill
  BY <1>3 DEF Kill, NoRequest
<1>4. CASE \E d \in Client : Reject(d)
  <2>1. PICK d \in Client : Reject(d)
    BY <1>4
  <2>2. d # c
    BY <2>1 DEF Reject
  <2>3. client'[c] = client[c]
    BY <2>1, <2>2, RejectTypes, AnswerTypes DEF Statuses
  <2> QED
    BY <2>3
<1>5. CASE \E d \in Client : Accept(d)
  <2>1. PICK d \in Client : Accept(d)
    BY <1>5
  <2>2. d # c
    BY <2>1 DEF Accept
  <2>3. client'[c] = client[c]
    BY <2>1, <2>2 DEF Accept, ClientTypes
  <2> QED
    BY <2>3
<1>6. CASE \E d \in Client : Continue(d)
  <2>1. PICK d \in Client : Continue(d)
    BY <1>6
  <2>2. client'[c].step = client[c].step
    BY <2>1 DEF Continue, ClientTypes
  <2> QED
    BY <2>2
<1>7. CASE \E d \in Client : Succeed(d)
  <2>1. PICK d \in Client : Succeed(d) /\ Answer(d, "ok")
    BY <1>7 DEF Succeed
  <2>2. client'[d].answer = "ok" /\ \A e \in Client \ {d} : client'[e] = client[e]
    BY <2>1, AnswerTypes DEF Statuses
  <2> QED
    BY <2>1, <2>2
<1>8. CASE \E d \in Client : FailRequest(d)
  <2>1. PICK d \in Client : FailRequest(d) /\ Answer(d, MapError(d))
    BY <1>8 DEF FailRequest
  <2>2. MapError(d) \in Statuses
    BY <2>1, FailRequestTypes DEF Statuses
  <2>3. client'[d].answer = MapError(d) /\ \A e \in Client \ {d} : client'[e] = client[e]
    BY <2>1, <2>2, AnswerTypes
  <2> QED
    BY <2>1, <2>3
<1> QED
  BY <1>1, <1>2, <1>3, <1>4, <1>5, <1>6, <1>7, <1>8 DEF Next, Handle

\* A 404 is true: the one error that the repositories tell apart comes from a
\* row that is not there, while nothing deletes what the request knew of.
THEOREM TrueNotFound == Spec => NotFoundIsTrue
<1>1. ASSUME ApiInv, Next, NEW c \in Client, Answers(c, NotFound)
      PROVE  Calls(c)[client[c].at].row \notin client[c].knew
  <2>1. FailRequest(c) /\ MapError(c) \in NotFound
    BY <1>1, WhoAnswers DEF Answers, NotFound
  <2>2. call[c].step = "notFound" /\ client[c].step = "calling" /\ RequestShape(c)
    BY <1>1, <2>1, FailRequestTypes DEF ApiInv, RequestInv
  <2> QED
    BY <2>2 DEF RequestShape
<1>2. ApiInv /\ [Next]_vars =>
        [\A c \in Client :
           Answers(c, NotFound) => Calls(c)[client[c].at].row \notin client[c].knew]_vars
  BY <1>1
<1> QED
  BY <1>2, ApiInvariant, PTL DEF Spec, NotFoundIsTrue

\* The request whose call succeeded has inserted its pair or user, and nobody
\* was told of that row before.
LEMMA NewToAll ==
  ASSUME ApiInv, NEW c \in Client, client[c].step = "calling", call[c].step = "ok"
  PROVE  Written(Calls(c)) \cap {"pair", "user"} \cap acked = {}
<1> USE DEF ApiInv, RequestInv
<1> SUFFICES ASSUME NEW row \in Written(Calls(c)), row \in Unique PROVE row \notin acked
  BY DEF Unique
<1>1. /\ RequestShape(c) /\ client[c].at \in DOMAIN Calls(c)
      /\ client[c].handler \in Handlers
      /\ \A i \in DOMAIN Calls(c) : Calls(c)[i] \in Tries /\ i \in Nat
      /\ client[c].at \in 1 .. 2
  BY RequestTypes DEF RequestShape
<1>2. PICK i \in DOMAIN Calls(c) :
        Calls(c)[i].row = row /\ Calls(c)[i].kind \notin {"find", "list"}
  BY DEF Written
<1>3. i = 1
  BY <1>1, <1>2, HandlerShape DEF Calls, Reads
<1>4. Past(c, i)
  BY <1>1, <1>3 DEF Past
<1>5. Calls(c)[i].kind \in {"insert", "create"}
  BY <1>1, <1>2, TryFacts
<1>6. Inserted(c, row)
  BY <1>2, <1>4, <1>5 DEF Inserted
<1> QED
  BY <1>6 DEF OneInserter

\* Of two who create the same pair or user, one is told so: the unique index
\* refuses the other one, or the one that tries again.
THEOREM ToldOnce == Spec => CreatedOnce
<1>1. ASSUME ApiInv, Next, NEW c \in Client, Answers(c, {"ok"}), call[c].step = "ok"
      PROVE  Written(Calls(c)) \cap {"pair", "user"} \cap acked = {}
  BY <1>1, NewToAll DEF Answers
<1>2. ApiInv /\ [Next]_vars =>
        [\A c \in Client : Answers(c, {"ok"}) /\ call[c].step = "ok"
           => Written(Calls(c)) \cap {"pair", "user"} \cap acked = {}]_vars
  BY <1>1
<1> QED
  BY <1>2, ApiInvariant, PTL DEF Spec, CreatedOnce

-----------------------------------------------------------------------------
(* The pool implements the store. *)

\* What the store sees: the rows of closures that are done, what each caller
\* waits for and what it was told.
Stored == rows \ Unfinished

AskedBy ==
  [c \in Caller |-> IF Busy(c) THEN [kind |-> call[c].kind, row |-> call[c].row] ELSE Idle]

AnswerTo == [c \in Caller |-> IF call[c].step \in Outcome THEN call[c].step ELSE "none"]

\* A call of create_pair past its insertion hides the row.
Hides(c) == Running(c) /\ Halfway(call[c]) /\ call[c].kind = "create"

LEMMA HiddenRows ==
  /\ Unfinished = {call[c].row : c \in {d \in Caller : Hides(d)}}
  /\ Unfinished' = {call'[c].row : c \in {d \in Caller : Hides(d)'}}
BY DEF Unfinished, Hides, Running, Halfway

\* The other callers see nothing of a step.
LEMMA OneCallerMoves ==
  ASSUME NEW c \in Caller, \A d \in Caller \ {c} : call'[d] = call[d]
  PROVE  /\ AskedBy' = [AskedBy EXCEPT ![c] = IF Busy(c)' THEN CallOf(call'[c]) ELSE Idle]
         /\ AskedBy[c] = IF Busy(c) THEN CallOf(call[c]) ELSE Idle
         /\ AskedBy'[c] = IF Busy(c)' THEN CallOf(call'[c]) ELSE Idle
         /\ AnswerTo' = [AnswerTo EXCEPT ![c] =
                           IF call'[c].step \in Outcome THEN call'[c].step ELSE "none"]
<1> DEFINE For(q) == IF q.step \in {"waiting", "running"} THEN CallOf(q) ELSE Idle
           Told(q) == IF q.step \in Outcome THEN q.step ELSE "none"
<1>1. /\ AskedBy = [d \in Caller |-> For(call[d])]
      /\ AnswerTo = [d \in Caller |-> Told(call[d])]
  BY DEF AskedBy, AnswerTo, Busy, CallOf
<1>2. /\ AskedBy' = [d \in Caller |-> For(call'[d])]
      /\ AnswerTo' = [d \in Caller |-> Told(call'[d])]
  BY DEF AskedBy, AnswerTo, Busy, CallOf
<1>3. (Busy(c) <=> call[c].step \in {"waiting", "running"})
      /\ (Busy(c)' <=> call'[c].step \in {"waiting", "running"})
  BY DEF Busy
<1> HIDE DEF For, Told
<1>4. /\ AskedBy' = [AskedBy EXCEPT ![c] = For(call'[c])]
      /\ AskedBy[c] = For(call[c]) /\ AskedBy'[c] = For(call'[c])
      /\ AnswerTo' = [AnswerTo EXCEPT ![c] = Told(call'[c])]
  BY <1>1, <1>2
<1> QED
  BY <1>3, <1>4 DEF For, Told

LEMMA NotIdle == ASSUME NEW q PROVE CallOf(q) # Idle
BY DEF CallOf, Idle

\* The rows are seen as before if no call of create_pair is past its insertion.
LEMMA NoneHidden ==
  ASSUME NEW c \in Caller, \A d \in Caller \ {c} : call'[d] = call[d],
         ~Hides(c), ~Hides(c)', UNCHANGED rows
  PROVE  UNCHANGED Stored
<1>1. \A d \in Caller : (Hides(d)' <=> Hides(d)) /\ (Hides(d) => call'[d].row = call[d].row)
  BY DEF Hides, Running
<1> QED
  BY <1>1, HiddenRows DEF Stored

\* The only closure under way is that of c.
LEMMA OnlyOneHides ==
  ASSUME PoolInv, NEW c \in Caller, Running(c)
  PROVE  Unfinished = IF Hides(c) THEN {call[c].row} ELSE {}
<1>1. \A d \in Caller : Hides(d) => d = c
  BY DEF PoolInv, OneConnection, Hides
<1> QED
  BY <1>1, HiddenRows

\* A call begins.
LEMMA AsksStore ==
  ASSUME PoolInv, NEW c \in Caller, ~Busy(c), call'[c].step = "waiting",
         CallOf(call'[c]) \in Call, \A d \in Caller \ {c} : call'[d] = call[d], UNCHANGED rows
  PROVE  AtomicStore!Ask(c)
<1>1. ~Hides(c) /\ ~Hides(c)'
  BY DEF Hides, Running, Busy
<1>2. UNCHANGED Stored
  BY <1>1, NoneHidden
<1>3. AskedBy[c] = Idle /\ AskedBy'[c] = CallOf(call'[c]) /\ AskedBy' = [AskedBy EXCEPT ![c] = AskedBy'[c]]
  BY OneCallerMoves DEF Busy
<1>4. AnswerTo' = [AnswerTo EXCEPT ![c] = "none"]
  BY OneCallerMoves DEF Outcome
<1> QED
  BY <1>2, <1>3, <1>4
  DEF AtomicStore!Ask, AtomicStore!Pending, Stored, AskedBy, AnswerTo

\* A call ends.
LEMMA AnswersFromStore ==
  ASSUME PoolInv, NEW c \in Caller, Busy(c), NEW outcome \in Outcome,
         call'[c].step = outcome, \A d \in Caller \ {c} : call'[d] = call[d]
  PROVE  /\ AtomicStore!Pending(c) /\ AtomicStore!Answer(c, outcome)
         /\ AskedBy[c] = CallOf(call[c])
         /\ ~Hides(c)'
<1>1. AskedBy[c] = CallOf(call[c]) /\ AskedBy' = [AskedBy EXCEPT ![c] = Idle]
  BY OneCallerMoves DEF Busy, Outcome
<1>2. AnswerTo' = [AnswerTo EXCEPT ![c] = outcome]
  BY OneCallerMoves
<1>3. ~Hides(c)'
  BY DEF Hides, Running, Outcome
<1>4. AtomicStore!Pending(c)
  BY <1>1, NotIdle DEF AtomicStore!Pending, AskedBy
<1>5. AtomicStore!Answer(c, outcome)
  BY <1>1, <1>2 DEF AtomicStore!Answer, AskedBy, AnswerTo
<1> QED
  BY <1>1, <1>3, <1>4, <1>5

LEMMA CallSets ==
  ASSUME NEW q, CallOf(q) \in Call
  PROVE  /\ CallOf(q).row = q.row
         /\ CallOf(q) \in Writing <=> q.kind \in {"insert", "upsert", "set", "create"}
         /\ CallOf(q) \in Finding <=> q.kind = "find"
         /\ CallOf(q) \in Excluding <=> (q.kind \in {"insert", "create"} /\ q.row \in Unique)
         /\ CallOf(q) \in Tearing <=> q.kind = "create"
BY DEF CallOf, Writing, Finding, Excluding, Tearing, Unique

\* A closure under way leaves the rows of the others as they are.
LEMMA StoredAfter ==
  ASSUME PoolInv, NEW c \in Caller, Running(c), ~Hides(c)',
         \A d \in Caller \ {c} : call'[d] = call[d]
  PROVE  /\ Stored' = rows'
         /\ Stored = IF Hides(c) THEN rows \ {call[c].row} ELSE rows
<1>1. \A d \in Caller : ~Hides(d)'
  BY DEF PoolInv, OneConnection, Hides, Running
<1>2. Unfinished' = {}
  BY <1>1, HiddenRows
<1> QED
  BY <1>2, OnlyOneHides DEF Stored

LEMMA ServesStore ==
  ASSUME PoolInv, NEW c \in Caller, Proceed(c), IsLast(c)
  PROVE  AtomicStore!Serve(c)
<1> DEFINE q == call[c]
<1>1. Running(c) /\ Busy(c) /\ CallOf(q) \in Call /\ q.kind \in Kind /\ Shape(q, rows)
  BY CallTypes DEF Proceed, Running, Busy, PoolInv
<1>2. rows' = (IF q.kind \in {"find", "list"} THEN rows ELSE rows \cup {q.row}) /\ End(c, "ok")
  BY LastStatement
<1>3. call'[c].step = "ok" /\ \A d \in Caller \ {c} : call'[d] = call[d]
  BY <1>2, EndShape DEF PoolInv, PoolTypeOK, End, Outcome
<1>4. /\ AtomicStore!Pending(c) /\ AtomicStore!Answer(c, "ok")
      /\ AskedBy[c] = CallOf(q) /\ ~Hides(c)'
  BY <1>1, <1>3, AnswersFromStore DEF Outcome
<1>5. Stored' = rows' /\ Stored = IF Hides(c) THEN rows \ {q.row} ELSE rows
  BY <1>1, <1>3, <1>4, StoredAfter
<1>6. Hides(c) <=> q.kind = "create"
  BY <1>1, Position DEF Hides, Running
<1>7. Hides(c) => q.row \in rows
  BY <1>1 DEF Hides, Shape
<1>8. q.kind \in {"find", "list"} \/ q.kind \in {"insert", "upsert", "set", "create"}
  BY <1>1, Closures
<1>9. IF CallOf(q) \in Writing THEN Stored' = Stored \cup {q.row} ELSE Stored' = Stored
  BY <1>1, <1>2, <1>5, <1>6, <1>7, <1>8, CallSets
<1>10. CallOf(q) \in Finding => q.row \in Stored
  BY <1>1, <1>5, <1>6, LastStatement, CallSets
<1>11. CallOf(q) \in Excluding => q.row \notin Stored
  BY <1>1, <1>5, <1>6, LastStatement, CallSets
<1>12. CallOf(q).row = q.row
  BY DEF CallOf
<1> QED
  BY <1>4, <1>9, <1>10, <1>11, <1>12
  DEF AtomicStore!Serve, AtomicStore!Leave, Stored, AskedBy

LEMMA MissesStore ==
  ASSUME PoolInv, NEW c \in Caller, Miss(c)
  PROVE  AtomicStore!Miss(c)
<1> DEFINE q == call[c]
<1>1. Running(c) /\ Busy(c) /\ CallOf(q) \in Call /\ End(c, "notFound") /\ UNCHANGED rows
  BY CallTypes DEF Miss, Running, Busy
<1>2. call'[c].step = "notFound" /\ \A d \in Caller \ {c} : call'[d] = call[d]
  BY <1>1, EndShape DEF PoolInv, PoolTypeOK, End, Outcome
<1>3. /\ AtomicStore!Pending(c) /\ AtomicStore!Answer(c, "notFound")
      /\ AskedBy[c] = CallOf(q) /\ ~Hides(c)'
  BY <1>1, <1>2, AnswersFromStore DEF Outcome
<1>4. q.kind = "find" /\ q.row \notin rows
  BY MissFacts
<1>5. Stored' = Stored /\ q.row \notin Stored /\ CallOf(q) \in Finding /\ CallOf(q).row = q.row
  BY <1>1, <1>2, <1>3, <1>4, StoredAfter, CallSets DEF Hides
<1> QED
  BY <1>3, <1>5 DEF AtomicStore!Miss, Stored, AskedBy

\* What fails leaves no row, but for an interrupted create_pair.
LEMMA FailsStore ==
  ASSUME PoolInv, NEW c \in Caller, TimeOut(c) \/ Refuse(c) \/ Break(c)
  PROVE  AtomicStore!Fail(c)
<1> DEFINE q == call[c]
<1>1. /\ Busy(c) /\ call'[c].step = "failed" /\ \A d \in Caller \ {c} : call'[d] = call[d]
      /\ UNCHANGED rows /\ CallOf(q) \in Call
  BY FailFacts, CallTypes
<1>2. /\ AtomicStore!Pending(c) /\ AtomicStore!Answer(c, "failed")
      /\ AskedBy[c] = CallOf(q) /\ ~Hides(c)'
  BY <1>1, AnswersFromStore DEF Outcome
<1>3. CASE ~Hides(c)
  <2>1. UNCHANGED Stored
    BY <1>1, <1>2, <1>3, NoneHidden
  <2> QED
    BY <1>2, <2>1 DEF AtomicStore!Fail, Stored
<1>4. CASE Hides(c)
  <2>1. Running(c) /\ q.row \in rows
    BY <1>4 DEF Hides, PoolInv, Shape
  <2>2. Stored' = rows /\ Stored = rows \ {q.row}
    BY <1>1, <1>2, <1>4, <2>1, StoredAfter
  <2>3. Stored' = Stored \cup {CallOf(q).row}
    BY <2>1, <2>2 DEF CallOf
  <2>4. CallOf(q) \in Tearing
    BY <1>1, <1>4, CallSets DEF Hides
  <2> QED
    BY <1>2, <2>3, <2>4 DEF AtomicStore!Fail, AtomicStore!Leave, Stored, AskedBy
<1> QED
  BY <1>3, <1>4

\* The connection is acquired, or the first of two statements is done: nothing
\* that the store sees.
LEMMA StoreWaits ==
  ASSUME PoolInv, NEW c \in Caller, Busy(c), Busy(c)', CallOf(call'[c]) = CallOf(call[c]),
         \A d \in Caller \ {c} : call'[d] = call[d], UNCHANGED Stored
  PROVE  UNCHANGED AtomicStore!vars
<1>1. AskedBy' = [AskedBy EXCEPT ![c] = AskedBy[c]]
  BY OneCallerMoves
<1>2. AskedBy' = AskedBy
  BY <1>1 DEF AskedBy
<1>3. AnswerTo' = [AnswerTo EXCEPT ![c] = "none"] /\ AnswerTo[c] = "none"
  BY OneCallerMoves DEF AnswerTo, Busy, Outcome
<1>4. AnswerTo' = AnswerTo
  BY <1>3 DEF AnswerTo
<1> QED
  BY <1>2, <1>4 DEF AtomicStore!vars, Stored, AskedBy, AnswerTo

LEMMA AcquireWaits ==
  ASSUME PoolInv, NEW c \in Caller, Acquire(c)
  PROVE  UNCHANGED AtomicStore!vars
<1>1. /\ call'[c].step = "running" /\ CallOf(call'[c]) = CallOf(call[c]) /\ ~Halfway(call'[c])
      /\ \A d \in Caller \ {c} : call'[d] = call[d]
  BY AcquireFacts
<1>2. Busy(c) /\ Busy(c)' /\ ~Hides(c) /\ ~Hides(c)' /\ UNCHANGED rows
  BY <1>1 DEF Acquire, Busy, Hides, Running
<1>3. UNCHANGED Stored
  BY <1>1, <1>2, NoneHidden
<1> QED
  BY <1>1, <1>2, <1>3, StoreWaits

LEMMA FirstWaits ==
  ASSUME PoolInv, PoolInv', NEW c \in Caller, Proceed(c), ~IsLast(c)
  PROVE  UNCHANGED AtomicStore!vars
<1>1. /\ Running(c) /\ Busy(c) /\ ~Hides(c)
      /\ call'[c].step = "running" /\ CallOf(call'[c]) = CallOf(call[c]) /\ Halfway(call'[c])
      /\ \A d \in Caller \ {c} : call'[d] = call[d]
      /\ call'[c].kind = call[c].kind /\ call'[c].row = call[c].row
  BY FirstStatement DEF Proceed, Running, Busy, Hides, CallOf
<1>2. Busy(c)' /\ Running(c)'
  BY <1>1 DEF Busy, Running
<1>3. CASE call[c].kind = "set"
  <2>1. ~Hides(c)' /\ UNCHANGED rows
    BY <1>1, <1>3, FirstStatement DEF Hides
  <2>2. UNCHANGED Stored
    BY <1>1, <2>1, NoneHidden
  <2> QED
    BY <1>1, <1>2, <2>2, StoreWaits
<1>4. CASE call[c].kind = "create"
  <2>1. call[c].row \notin rows /\ rows' = rows \cup {call[c].row}
    BY <1>4, FirstStatement
  <2>2. \A d \in Caller : Hides(d)' <=> d = c
    BY <1>1, <1>2, <1>4 DEF PoolInv, OneConnection, Hides
  <2>3. Unfinished' = {call[c].row} /\ Unfinished = {}
    BY <1>1, <2>2, HiddenRows, OnlyOneHides
  <2>4. UNCHANGED Stored
    BY <2>1, <2>3 DEF Stored
  <2> QED
    BY <1>1, <1>2, <2>4, StoreWaits
<1> QED
  BY <1>3, <1>4, FirstStatement

LEMMA RefinesPoolStep ==
  ASSUME PoolInv, NEW c \in Caller, PoolStep(c)
  PROVE  [AtomicStore!Next]_(AtomicStore!vars)
<1>1. CASE Acquire(c)
  BY <1>1, AcquireWaits
<1>2. CASE TimeOut(c) \/ Refuse(c) \/ Break(c)
  BY <1>2, FailsStore DEF AtomicStore!Next
<1>3. CASE Miss(c)
  BY <1>3, MissesStore DEF AtomicStore!Next
<1>4. CASE Proceed(c) /\ IsLast(c)
  BY <1>4, ServesStore DEF AtomicStore!Next
<1>5. CASE Proceed(c) /\ ~IsLast(c)
  BY <1>5, PoolEffect, FirstWaits
<1> QED
  BY <1>1, <1>2, <1>3, <1>4, <1>5 DEF PoolStep, Closure

LEMMA RefinesExec ==
  ASSUME PoolInv, NEW c \in Caller, NEW kind, NEW row, Asks(kind, row),
         Exec(c, kind, row), UNCHANGED <<rows, faults>>
  PROVE  AtomicStore!Ask(c)
<1>1. /\ call'[c].step = "waiting" /\ CallOf(call'[c]) = [kind |-> kind, row |-> row]
      /\ \A d \in Caller \ {c} : call'[d] = call[d]
  BY ExecKeeps
<1>2. CallOf(call'[c]) \in Call
  BY <1>1 DEF Asks, CallOf
<1>3. ~Busy(c)
  BY DEF Exec
<1> QED
  BY <1>1, <1>2, <1>3, AsksStore

LEMMA RefinesTake ==
  ASSUME PoolInv, NEW c \in Caller, Take(c), UNCHANGED <<rows, faults>>
  PROVE  AtomicStore!Take(c)
<1>1. call'[c].step = "idle" /\ ~Busy(c) /\ \A d \in Caller \ {c} : call'[d] = call[d]
  BY TakeKeeps DEF Take, Busy, Outcome
<1>2. ~Hides(c) /\ ~Hides(c)' /\ ~Busy(c)'
  BY <1>1 DEF Hides, Running, Busy
<1>3. UNCHANGED Stored
  BY <1>1, <1>2, NoneHidden
<1>4. AskedBy[c] = Idle /\ AskedBy' = [AskedBy EXCEPT ![c] = Idle]
  BY <1>1, <1>2, OneCallerMoves
<1>5. AnswerTo' = [AnswerTo EXCEPT ![c] = "none"]
  BY <1>1, OneCallerMoves DEF Outcome
<1> QED
  BY <1>3, <1>4, <1>5
  DEF AtomicStore!Take, AtomicStore!Pending, AtomicStore!Answer, Stored, AskedBy, AnswerTo

\* A crash leaves what was committed, the row of an interrupted create_pair too.
LEMMA RefinesCrash ==
  ASSUME PoolInv, Crash
  PROVE  AtomicStore!Restart
<1>1. call' = [c \in Caller |-> Idle] /\ UNCHANGED rows
  BY DEF Crash
<1>2. \A c \in Caller : call'[c].step = "idle"
  BY <1>1 DEF Idle
<1>3. AskedBy' = [c \in Caller |-> Idle] /\ AnswerTo' = [c \in Caller |-> "none"]
  BY <1>2 DEF AskedBy, AnswerTo, Busy, Outcome
<1>4. Unfinished' = {}
  BY <1>2, HiddenRows DEF Hides, Running
<1>5. CASE \A c \in Caller : ~Hides(c)
  <2>1. UNCHANGED Stored
    BY <1>1, <1>4, <1>5, HiddenRows DEF Stored
  <2> QED
    BY <1>3, <2>1 DEF AtomicStore!Restart, Stored, AskedBy, AnswerTo
<1>6. CASE \E c \in Caller : Hides(c)
  <2>1. PICK c \in Caller : Hides(c)
    BY <1>6
  <2>2. Running(c) /\ Busy(c) /\ call[c].kind = "create" /\ call[c].row \in rows
    BY <2>1 DEF Hides, Running, Busy, PoolInv, Shape
  <2>3. Stored' = rows /\ Stored = rows \ {call[c].row}
    BY <1>1, <1>4, <2>1, <2>2, OnlyOneHides DEF Stored
  <2>4. AskedBy[c] = CallOf(call[c]) /\ CallOf(call[c]) \in Tearing /\ CallOf(call[c]).row = call[c].row
    BY <2>2, CallTypes, CallSets DEF AskedBy, CallOf
  <2>5. AskedBy[c] # Idle
    BY <2>4, NotIdle
  <2>6. Stored' = Stored \cup {AskedBy[c].row}
    BY <2>2, <2>3, <2>4
  <2> QED
    BY <1>3, <2>4, <2>5, <2>6
    DEF AtomicStore!Restart, AtomicStore!Pending, AtomicStore!Leave, Stored, AskedBy, AnswerTo
<1> QED
  BY <1>5, <1>6

LEMMA RefinesInit == ASSUME Init PROVE AtomicStore!Init
<1>1. \A c \in Caller : call[c].step = "idle"
  BY DEF Init, PoolInit, Idle
<1>2. AskedBy = [c \in Caller |-> Idle] /\ AnswerTo = [c \in Caller |-> "none"]
  BY <1>1 DEF AskedBy, AnswerTo, Busy, Outcome
<1>3. Stored = {}
  BY DEF Init, PoolInit, Stored
<1> QED
  BY <1>2, <1>3 DEF AtomicStore!Init, Stored, AskedBy, AnswerTo

LEMMA RefinesNext ==
  ASSUME ApiInv, [Next]_vars
  PROVE  [AtomicStore!Next]_(AtomicStore!vars)
<1> USE DEF ApiInv, RequestInv
<1>same. ASSUME UNCHANGED <<rows, call>> PROVE UNCHANGED AtomicStore!vars
  BY <1>same DEF AtomicStore!vars, Unfinished, Busy
<1>1. CASE \E c \in Caller : RunPool(c)
  BY <1>1, RefinesPoolStep DEF RunPool
<1>2. ASSUME NEW c \in Client, Reject(c) PROVE UNCHANGED AtomicStore!vars
  BY <1>2, <1>same DEF Reject, pool
<1>3. ASSUME NEW c \in Client, Accept(c) PROVE AtomicStore!Next
  <2>1. PICK h \in Routes[c] : Exec(c, h.calls[1].kind, h.calls[1].row)
    BY <1>3 DEF Accept
  <2>2. h.calls[1] \in Tries
    BY RoutesAssumption, HandlerShape
  <2>3. c \in Caller /\ Asks(h.calls[1].kind, h.calls[1].row) /\ UNCHANGED <<rows, faults>>
    BY <1>3, <2>2, TryFacts, ClientAssumption DEF Accept
  <2> QED
    BY <2>1, <2>3, RefinesExec DEF AtomicStore!Next
<1>4. ASSUME NEW c \in Client, Continue(c) PROVE AtomicStore!Next
  <2> DEFINE q == Calls(c)[client[c].at + 1]
  <2>1. Exec(c, q.kind, q.row) /\ UNCHANGED <<rows, faults>>
    BY <1>4 DEF Continue
  <2>2. client[c].at \in DOMAIN Calls(c) /\ client[c].at # Len(Calls(c))
    BY <1>4, RequestTypes DEF Continue, Done, RequestShape
  <2>3. q \in Tries /\ c \in Caller
    BY <2>2, RequestTypes
  <2> QED
    BY <2>1, <2>3, TryFacts, RefinesExec DEF AtomicStore!Next
<1>5. ASSUME NEW c \in Client, Succeed(c) \/ FailRequest(c) PROVE AtomicStore!Next
  BY <1>5, RefinesTake, ClientAssumption DEF Succeed, FailRequest, AtomicStore!Next
<1>6. ASSUME NEW j \in Job, JobCall(j) PROVE AtomicStore!Next
  <2>1. Asks("insert", "report") /\ Asks("upsert", "price")
    BY Closures DEF Asks, CallOf, Call, Row
  <2> QED
    BY <1>6, <2>1, RefinesExec DEF JobCall, Job, AtomicStore!Next
<1>7. CASE Kill
  BY <1>7, RefinesCrash DEF Kill, AtomicStore!Next
<1>8. CASE UNCHANGED vars
  BY <1>8, <1>same DEF vars, pool
<1> QED
  BY <1>1, <1>2, <1>3, <1>4, <1>5, <1>6, <1>7, <1>8 DEF Next, Handle

\* Repository calls are atomic for whoever makes them, also while they wait for
\* one another, fail or are cut off: AsyncPool::exec and its closures.
THEOREM PoolIsAtomic == Spec => ImplementsStore
<1>1. Init => AtomicStore!Init
  BY RefinesInit
<1>2. ApiInv /\ [Next]_vars => [AtomicStore!Next]_(AtomicStore!vars)
  BY RefinesNext
<1> QED
  BY <1>1, <1>2, ApiInvariant, PTL DEF Spec, ImplementsStore, AtomicStore!Spec

=============================================================================
