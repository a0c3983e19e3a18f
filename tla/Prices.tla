------------------------------- MODULE Prices -------------------------------
(***************************************************************************)
(* The pairs an administrator creates and the job price-refresher, which   *)
(* lists them, asks Bitfinex for their tickers with one request and stores *)
(* the prices one by one.  The exchange is external: it leaves out of its  *)
(* answer the symbols it does not list.                                    *)
(*                                                                         *)
(* A pair is identified with its symbol, and a price with the symbol its   *)
(* ticker is of: the numbers are left out.                                 *)
(***************************************************************************)
EXTENDS Naturals, SequencesExt

CONSTANTS
  Pair,      \* the pairs an administrator may create
  Listed,    \* those the exchange lists
  MaxFaults  \* bound: how many passes fail or are killed

ASSUME ListedAssumption == Listed \subseteq Pair
ASSUME MaxFaultsAssumption == MaxFaults \in Nat

VARIABLES
  pairs,    \* table pairs
  prices,   \* table prices: rows <<pair, symbol>>, one for each pair
  pricePc,  \* what the job does next; "idle" while it sleeps
  asked,    \* local pairs
  quoted,   \* local prices, those not stored yet
  faults    \* how many passes have failed, bounded by MaxFaults

vars == <<pairs, prices, pricePc, asked, quoted, faults>>

PricesTypeOK ==
  /\ pairs \in SUBSET Pair
  /\ prices \in SUBSET (pairs \X Listed)
  /\ \A p, q \in prices : p[1] = q[1] => p = q
  /\ pricePc \in {"idle", "ask", "store"}
  /\ asked \in Seq(pairs) /\ IsInjective(asked)
  /\ quoted \in Seq(pairs \X Listed)
  /\ faults \in 0 .. MaxFaults

Init ==
  /\ pairs = {}
  /\ prices = {}
  /\ pricePc = "idle"
  /\ asked = <<>>
  /\ quoted = <<>>
  /\ faults = 0

PricesRest == pricePc' = "idle" /\ asked' = <<>> /\ quoted' = <<>>

-----------------------------------------------------------------------------
\* POST /pairs by an administrator.  A pair that exists is refused, by the
\* unique index on its two names.
CreatePair(p) ==
  /\ p \notin pairs
  /\ pairs' = pairs \cup {p}
  /\ UNCHANGED <<prices, pricePc, asked, quoted, faults>>

-----------------------------------------------------------------------------
(* PriceRefresher::execute. *)

\* Mutant: a join gives each pair twice.
GetJoined ==
  /\ pricePc = "idle"
  /\ pricePc' = "ask"
  /\ \E s \in SetToSeqs(pairs) : asked' = s \o s
  /\ UNCHANGED <<pairs, prices, quoted, faults>>

\* PriceRepository::get_pairs, which asks for no order.
GetPairs ==
  /\ pricePc = "idle"
  /\ pricePc' = "ask"
  /\ asked' \in SetToSeqs(pairs)
  /\ UNCHANGED <<pairs, prices, quoted, faults>>

\* The tickers that Bitfinex answers with, each by its symbol: the n-th is of
\* the n-th symbol asked for that it lists.
Tickers(symbols) ==
  LET known == {i \in DOMAIN symbols : symbols[i] \in Listed}
      rank(i) == Cardinality({j \in known : j <= i})
  IN [n \in 1 .. Cardinality(known) |-> symbols[CHOOSE i \in known : rank(i) = n]]

\* Mutant: the first ticker is taken for a header.
ZipTail(s, t) ==
  [i \in 1 .. (IF Len(s) < Len(t) THEN Len(s) ELSE Len(t) - 1) |-> <<s[i], t[i + 1]>>]

\* Mutant: the last pair is left out.
ZipFront(s, t) ==
  [i \in 1 .. (IF Len(s) <= Len(t) THEN Len(s) - 1 ELSE Len(t)) |-> <<s[i], t[i]>>]

\* Iterator::zip stops with the shorter of the two.
ZipPairs(s, t) ==
  [i \in 1 .. (IF Len(s) < Len(t) THEN Len(s) ELSE Len(t)) |-> <<s[i], t[i]>>]

\* PriceClient::get_prices: the n-th ticker is taken for the n-th pair's.
GetPrices ==
  /\ pricePc = "ask"
  /\ pricePc' = "store"
  /\ quoted' = ZipPairs(asked, Tickers(asked))
  /\ asked' = <<>>
  /\ UNCHANGED <<pairs, prices, faults>>

\* PriceRepository::set_price: the row of the pair is replaced.
SetPrice ==
  /\ pricePc = "store"
  /\ quoted # <<>>
  /\ prices' = {p \in prices : p[1] # Head(quoted)[1]} \cup {Head(quoted)}
  /\ quoted' = Tail(quoted)
  /\ UNCHANGED <<pairs, pricePc, asked, faults>>

EndPrices ==
  /\ pricePc = "store"
  /\ quoted = <<>>
  /\ PricesRest
  /\ UNCHANGED <<pairs, prices, faults>>

RefreshPrices == GetPairs \/ GetPrices \/ SetPrice \/ EndPrices

\* A call to the exchange or to the database fails, or the daemon is killed.
FailPrices ==
  /\ pricePc # "idle"
  /\ faults < MaxFaults
  /\ faults' = faults + 1
  /\ PricesRest
  /\ UNCHANGED <<pairs, prices>>

Next == RefreshPrices \/ FailPrices \/ \E p \in Pair : CreatePair(p)

Spec == Init /\ [][Next]_vars

\* The scheduler starts the job again and again and every call returns.
FairSpec == Spec /\ WF_vars(RefreshPrices)

-----------------------------------------------------------------------------
(* Properties. *)

\* A price is the one of its pair, whichever pairs are created during a pass
\* and in whatever order the table gives them.
PriceOfItsPair == \A p \in prices : p[1] = p[2]

\* A pair that the exchange lists gets a price.
EventuallyPriced ==
  \A p \in Listed : p \in pairs ~> \E q \in prices : q[1] = p

=============================================================================
