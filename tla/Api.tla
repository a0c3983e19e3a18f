-------------------------------- MODULE Api --------------------------------
(***************************************************************************)
(* The HTTP interface on top of the pool: the claims of a request are      *)
(* checked, then its handler makes one or two repository calls, and what   *)
(* they return becomes the status of the response.  The jobs call the same *)
(* repositories and share the connection.                                  *)
(*                                                                         *)
(* The bodies are left out: a response is its status and, for a 404, which *)
(* resource it names.  authorize and refresh_token, which ask for no       *)
(* claims, are in Sessions.                                                *)
(***************************************************************************)
EXTENDS Pool

CONSTANTS
  Client,  \* bound: the requests handled at the same time
  Routes   \* bound: the handlers that each client asks for

ASSUME ClientAssumption == Client \subseteq Caller

VARIABLES
  client,  \* the requests, with the position of their handlers
  acked    \* history: the rows that a client was told to be stored

api == <<client, acked>>
vars == <<pool, api>>

Job == Caller \ Client

-----------------------------------------------------------------------------
(* What the repositories are asked for. *)

Find(row) == [kind |-> "find", row |-> row]
List == [kind |-> "list", row |-> "none"]

LastReport == Find("report")
AccountById == Find("account")
SetAccountPending == [kind |-> "set", row |-> "account"]
SomeAccounts == List
RewardsOf == List
PairById == Find("pair")
SomePairs == List
InsertPair == [kind |-> "create", row |-> "pair"]
PriceOf == Find("price")
SomeBlocks == List
InsertUser == [kind |-> "insert", row |-> "user"]
UserByName == Find("user")

-----------------------------------------------------------------------------
(* The handlers: whether they ask for the role of an administrator, the    *)
(* calls they make and what the client is told when the repository finds   *)
(* nothing; all other errors are "internal", a 500.                        *)

Try(repo, missing) == [kind |-> repo.kind, row |-> repo.row, missing |-> missing]
Open(calls) == [admin |-> FALSE, calls |-> calls]
Restricted(calls) == [admin |-> TRUE, calls |-> calls]

GetStatus == Open(<<Try(LastReport, "internal")>>)
GetAccount == Open(<<Try(AccountById, "no account")>>)
GetAccounts == Open(<<Try(SomeAccounts, "internal")>>)
GetAccountRewards == Open(<<Try(AccountById, "no account"), Try(RewardsOf, "internal")>>)
GetPairs == Open(<<Try(SomePairs, "no pair")>>)
GetPrice == Open(<<Try(PairById, "no pair"), Try(PriceOf, "no price")>>)
GetBlocks == Open(<<Try(SomeBlocks, "internal")>>)
SetAccount == Restricted(<<Try(SetAccountPending, "internal")>>)
CreatePair == Restricted(<<Try(InsertPair, "internal")>>)
CreateUser == Restricted(<<Try(InsertUser, "internal"), Try(UserByName, "internal")>>)

Handlers == {GetStatus, GetAccount, GetAccounts, GetAccountRewards, GetPairs,
             GetPrice, GetBlocks, SetAccount, CreatePair, CreateUser}

ASSUME RoutesAssumption == \A c \in Client : Routes[c] \subseteq Handlers

NotFound == {"no account", "no pair", "no price"}
Refusals == {"unauthorized", "forbidden"}
Statuses == {"ok", "internal"} \cup NotFound \cup Refusals

-----------------------------------------------------------------------------
(* The claims. *)

\* What the daemon issues: outside of the tests, the builder sets no roles.
Issued == "user"

\* A bearer token: none, one that is forged or expired, or one signed with the
\* key of the daemon, by the daemon or by an administrator.
Tokens == {"none", "invalid", Issued, "admin"}

HasRole(token) == token = "admin"

Refusal(token, handler) ==
  CASE token \in {"none", "invalid"} -> "unauthorized"
    [] handler.admin /\ ~HasRole(token) -> "forbidden"
    [] OTHER -> "ok"

-----------------------------------------------------------------------------
\* Between two requests, with the answer to the last one.
NoRequest(answer) ==
  [step |-> "idle", handler |-> GetBlocks, at |-> 1, knew |-> {}, answer |-> answer]

ApiTypeOK ==
  /\ PoolTypeOK
  /\ client \in [Client -> [step : {"idle", "calling"}, handler : Handlers,
                            at : 1 .. 2, knew : SUBSET Row, answer : Statuses]]
  /\ acked \in SUBSET Row
  /\ \A c \in Client : client[c].step = "idle" => call[c].step = "idle"

Init ==
  /\ PoolInit
  /\ client = [c \in Client |-> NoRequest("ok")]
  /\ acked = {}

Answer(c, answer) == client' = [client EXCEPT ![c] = NoRequest(answer)]

-----------------------------------------------------------------------------
(* The handling of one request. *)

\* A request without the claims it needs is answered without any call.
Reject(c) ==
  /\ client[c].step = "idle"
  /\ \E status \in {Refusal(t, h) : t \in Tokens, h \in Routes[c]} \ {"ok"} :
       Answer(c, status)
  /\ UNCHANGED <<pool, acked>>

\* The resources whose absence the handler may report.  A request is remembered
\* with those that were stored when it came.
Named(handler) ==
  {handler.calls[i].row : i \in {k \in DOMAIN handler.calls : handler.calls[k].missing \in NotFound}}

\* Mutant: the handler does not wait for its call.
AcceptAndForget(c) ==
  /\ client[c].step = "idle"
  /\ \E h \in Routes[c] : Exec(c, h.calls[1].kind, h.calls[1].row)
  /\ Answer(c, "ok")
  /\ UNCHANGED <<rows, faults, acked>>

Accept(c) ==
  /\ client[c].step = "idle"
  /\ \E h \in Routes[c] :
       /\ \E t \in Tokens : Refusal(t, h) = "ok"
       /\ client' = [client EXCEPT ![c] =
            [step |-> "calling", handler |-> h, at |-> 1, knew |-> rows \cap Named(h), answer |-> "ok"]]
       /\ Exec(c, h.calls[1].kind, h.calls[1].row)
  /\ UNCHANGED <<rows, faults, acked>>

Calls(c) == client[c].handler.calls
Done(c) == client[c].at = Len(Calls(c))

\* A call succeeded and the handler makes the next one.
Continue(c) ==
  /\ call[c].step = "ok"
  /\ ~Done(c)
  /\ LET next == Calls(c)[client[c].at + 1]
     IN Exec(c, next.kind, next.row)
  /\ client' = [client EXCEPT ![c].at = @ + 1]
  /\ UNCHANGED <<rows, faults, acked>>

\* The rows that the caller knows to be stored when its calls have succeeded.
Written(calls) ==
  {calls[i].row : i \in {k \in DOMAIN calls : calls[k].kind \notin {"find", "list"}}}

Succeed(c) ==
  /\ call[c].step = "ok"
  /\ Done(c)
  /\ Take(c)
  /\ Answer(c, "ok")
  /\ acked' = acked \cup Written(Calls(c))
  /\ UNCHANGED <<rows, faults>>

\* Mutant: get_price does not look at the error of its second call.
PriceMissing(c) ==
  IF call[c].step = "notFound" \/ Calls(c)[client[c].at].row = "price"
  THEN Calls(c)[client[c].at].missing
  ELSE "internal"

\* map_account_error, map_pair_error, map_internal_error and the like.
MapError(c) ==
  IF call[c].step = "notFound" THEN Calls(c)[client[c].at].missing ELSE "internal"

\* Mutant: the result of a call is not looked at.
IgnoreFailure(c) ==
  /\ call[c].step \in {"notFound", "failed"}
  /\ Take(c)
  /\ Answer(c, "ok")
  /\ acked' = acked \cup Written(Calls(c))
  /\ UNCHANGED <<rows, faults>>

FailRequest(c) ==
  /\ call[c].step \in {"notFound", "failed"}
  /\ Take(c)
  /\ Answer(c, MapError(c))
  /\ UNCHANGED <<rows, faults, acked>>

Handle(c) == Continue(c) \/ Succeed(c) \/ FailRequest(c)

-----------------------------------------------------------------------------
(* The jobs, for which the reports and the prices stand.  The pair of a    *)
(* price has been read before, and no pair is ever deleted.                *)

\* A failure is logged, and the job goes on with its next execution.
JobCall(j) ==
  /\ \/ Exec(j, "insert", "report")
     \/ "pair" \in rows /\ Exec(j, "upsert", "price")
  /\ UNCHANGED <<rows, faults, api>>

-----------------------------------------------------------------------------
\* The clients lose their connections when the process ends.
Kill ==
  /\ Crash
  /\ client' = [c \in Client |-> NoRequest("ok")]
  /\ UNCHANGED acked

RunPool(c) == PoolStep(c) /\ UNCHANGED api

Next ==
  \/ \E c \in Caller : RunPool(c)
  \/ \E c \in Client : Reject(c) \/ Accept(c) \/ Handle(c)
  \/ \E j \in Job : JobCall(j)
  \/ Kill

Spec == Init /\ [][Next]_vars

\* What the task of a call or a request does by itself.
GoOn(c) == RunPool(c) \/ (c \in Client /\ Handle(c))

\* A closure runs to its end, a wait ends with the connection or with its limit,
\* and a task that has an outcome is polled.  Nothing is assumed of the clients,
\* of the jobs or of the order in which the pool serves those that wait.
FairSpec == Spec /\ \A c \in Caller : WF_vars(GoOn(c))

-----------------------------------------------------------------------------
(* Properties. *)

\* What a client was told to be stored is in the file, also after the
\* daemon was killed and whatever failed since.
AckedStays == acked \subseteq rows

\* The answers that end a request in this step.
Answers(c, answers) ==
  client[c].step = "calling" /\ client'[c].step = "idle" /\ client'[c].answer \in answers

\* A 404 is true: the resource it names, be it an account, a pair or the price
\* that a job writes, was not stored when the request came.  A pool that is
\* exhausted or a statement that fails, in the first call of the handler or in
\* the second, never looks like a resource that does not exist.
NotFoundIsTrue ==
  [][\A c \in Client :
       Answers(c, NotFound) => Calls(c)[client[c].at].row \notin client[c].knew]_vars

\* Two administrators who create the same pair or the same user at the same
\* time, or one who tries again, are not both told that they created it.
CreatedOnce ==
  [][\A c \in Client :
       Answers(c, {"ok"}) /\ call[c].step = "ok" => Written(Calls(c)) \cap {"pair", "user"} \cap acked = {}]_vars

\* Whatever the other requests and the jobs do with the only connection, each
\* request that makes calls is answered, or the daemon was killed.
Answered == \A c \in Client : client[c].step = "calling" ~> client[c].step # "calling"

=============================================================================
