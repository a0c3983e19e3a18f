---------------------------- MODULE Prices_proofs ----------------------------
(***************************************************************************)
(* Proofs about the prices, for any pairs created in any order and any     *)
(* order in which the table gives them.                                    *)
(***************************************************************************)
EXTENDS Prices, SequenceLemmas

-----------------------------------------------------------------------------
(* The inductive invariant. *)

\* As long as the exchange lists all that has been created, each price on its
\* way to the table is the one of its pair, like those that are there.
QuotedRight ==
  pairs \subseteq Listed =>
    PriceOfItsPair /\ \A i \in 1 .. Len(quoted) : quoted[i][1] = quoted[i][2]

PricesInv == PricesTypeOK /\ IsFiniteSet(pairs) /\ QuotedRight

-----------------------------------------------------------------------------
(* The answer of the exchange. *)

\* The elements of a finite set of positions are the first, the second, ...,
\* the last of them.
LEMMA Ranks ==
  ASSUME NEW n \in Nat, NEW K \in SUBSET (1 .. n)
  PROVE  /\ IsFiniteSet(K) /\ Cardinality(K) \in Nat
         /\ \A m \in 1 .. Cardinality(K) : \E i \in K : Cardinality({j \in K : j <= i}) = m
<1> DEFINE upTo(i) == {j \in K : j <= i}
           c == Cardinality(K)
           f == [i \in K |-> Cardinality(upTo(i))]
<1>1. IsFiniteSet(K) /\ c \in Nat
  <2>1. IsFiniteSet(1 .. n)
    BY FS_Interval
  <2>2. IsFiniteSet(K)
    BY <2>1, FS_Subset
  <2> QED
    BY <2>2, FS_CardinalityType
<1>2. ASSUME NEW i \in K PROVE Cardinality(upTo(i)) \in 1 .. c
  <2>1. upTo(i) \in SUBSET K /\ i \in upTo(i)
    OBVIOUS
  <2>2. IsFiniteSet(upTo(i)) /\ Cardinality(upTo(i)) \in Nat /\ Cardinality(upTo(i)) <= c
    BY <1>1, <2>1, FS_Subset, FS_CardinalityType
  <2>3. Cardinality(upTo(i)) # 0
    BY <2>1, <2>2, FS_EmptySet
  <2> QED
    BY <1>1, <2>2, <2>3
<1>3. ASSUME NEW i \in K, NEW j \in K, i < j
      PROVE  Cardinality(upTo(i)) # Cardinality(upTo(j))
  <2>1. i \in Int /\ j \in Int /\ \A k \in K : k \in Int
    OBVIOUS
  <2>2. upTo(i) \in SUBSET upTo(j) /\ j \in upTo(j) /\ j \notin upTo(i)
    <3>1. (\A k \in K : k <= i => k <= j) /\ j <= j /\ ~(j <= i)
      BY <1>3, <2>1
    <3> QED
      BY <3>1, Zenon
  <2>3. IsFiniteSet(upTo(j))
    <3>1. upTo(j) \in SUBSET K
      OBVIOUS
    <3> QED
      BY <1>1, <3>1, FS_Subset
  <2> QED
    BY <2>2, <2>3, FS_Subset
<1>4. f \in Injection(K, 1 .. c)
  <2>1. f \in [K -> 1 .. c]
    BY <1>2
  <2>2. ASSUME NEW i \in K, NEW j \in K, f[i] = f[j] PROVE i = j
    <3>1. ~(i < j) /\ ~(j < i)
      BY <1>3, <2>2
    <3> QED
      BY <3>1
  <2> QED
    BY <2>1, <2>2 DEF Injection, IsInjective
<1>5. IsFiniteSet(1 .. c) /\ Cardinality(1 .. c) = c
  BY <1>1, FS_Interval
<1>6. f \in Surjection(K, 1 .. c)
  BY <1>4, <1>5, FS_Injection
<1> QED
  BY <1>1, <1>6 DEF Surjection

\* Every ticker is of a listed symbol.
LEMMA TickersAreListed ==
  ASSUME NEW S, NEW s \in Seq(S)
  PROVE  Tickers(s) \in Seq(Listed)
<1> DEFINE known == {i \in DOMAIN s : s[i] \in Listed}
           rank(i) == Cardinality({j \in known : j <= i})
           nth(n) == CHOOSE i \in known : rank(i) = n
<1>1. Len(s) \in Nat /\ DOMAIN s = 1 .. Len(s)
  BY LenProperties
<1>2. known \in SUBSET (1 .. Len(s))
  BY <1>1
<1>3. /\ Cardinality(known) \in Nat
      /\ \A n \in 1 .. Cardinality(known) : \E i \in known : rank(i) = n
  BY <1>1, <1>2, Ranks
<1>4. \A n \in 1 .. Cardinality(known) : nth(n) \in known
  BY <1>3
<1>5. \A n \in 1 .. Cardinality(known) : s[nth(n)] \in Listed
  BY <1>4
<1>6. Tickers(s) = [n \in 1 .. Cardinality(known) |-> s[nth(n)]]
  BY DEF Tickers
<1>7. PICK c \in Nat : c = Cardinality(known)
  BY <1>3
<1> HIDE DEF nth, known
<1>8. [n \in 1 .. c |-> s[nth(n)]] \in Seq(Listed)
  BY <1>5, <1>7
<1> QED
  BY <1>6, <1>7, <1>8

\* When all that is asked for is listed, the tickers are those asked for.
LEMMA TickersAreAsked ==
  ASSUME NEW s \in Seq(Listed)
  PROVE  Tickers(s) = s
<1> DEFINE n == Len(s)
           known == {i \in DOMAIN s : s[i] \in Listed}
           rank(i) == Cardinality({j \in known : j <= i})
<1>1. n \in Nat /\ DOMAIN s = 1 .. n /\ \A i \in 1 .. n : s[i] \in Listed
  BY LenProperties, ElementOfSeq
<1>2. known = 1 .. n
  BY <1>1
<1>3. Cardinality(known) = n
  <2>1. Cardinality(1 .. n) = n
    <3> HIDE DEF n
    <3> QED
      BY <1>1, FS_Interval
  <2> QED
    BY <1>2, <2>1
<1>4. ASSUME NEW i \in 1 .. n PROVE rank(i) = i
  <2>1. {j \in known : j <= i} = 1 .. i
    BY <1>1, <1>2
  <2>2. Cardinality(1 .. i) = i
    BY <1>1, FS_Interval
  <2> QED
    BY <2>1, <2>2
<1>5. \A m \in 1 .. n : (CHOOSE i \in known : rank(i) = m) = m
  BY <1>2, <1>4
<1>6. Tickers(s) = [m \in 1 .. Cardinality(known) |-> s[CHOOSE i \in known : rank(i) = m]]
  BY DEF Tickers
<1>7. Tickers(s) = [m \in 1 .. n |-> s[m]]
  <2> HIDE DEF known, rank
  <2> QED
    BY <1>3, <1>5, <1>6
<1> QED
  BY <1>1, <1>7

\* Each pair of a zip is made of the two elements at its position.
LEMMA ZipElement ==
  ASSUME NEW S, NEW T, NEW s \in Seq(S), NEW t \in Seq(T),
         NEW i \in 1 .. Len(ZipPairs(s, t))
  PROVE  i \in 1 .. Len(s) /\ i \in 1 .. Len(t) /\ ZipPairs(s, t)[i] = <<s[i], t[i]>>
<1> DEFINE n == IF Len(s) < Len(t) THEN Len(s) ELSE Len(t)
<1>1. n \in Nat /\ \A k \in 1 .. n : k \in 1 .. Len(s) /\ k \in 1 .. Len(t)
  BY LenProperties
<1>2. ZipPairs(s, t) = [k \in 1 .. n |-> <<s[k], t[k]>>]
  BY DEF ZipPairs
<1> HIDE DEF n
<1>3. Len(ZipPairs(s, t)) = n
  BY <1>1, <1>2
<1> QED
  BY <1>1, <1>2, <1>3

LEMMA ZipType ==
  ASSUME NEW S, NEW T, NEW s \in Seq(S), NEW t \in Seq(T)
  PROVE  ZipPairs(s, t) \in Seq(S \X T)
<1> DEFINE n == IF Len(s) < Len(t) THEN Len(s) ELSE Len(t)
<1>1. n \in Nat /\ \A i \in 1 .. n : i \in 1 .. Len(s) /\ i \in 1 .. Len(t)
  BY LenProperties
<1>2. \A i \in 1 .. n : s[i] \in S /\ t[i] \in T
  BY <1>1, ElementOfSeq
<1>3. ZipPairs(s, t) = [i \in 1 .. n |-> <<s[i], t[i]>>]
  BY DEF ZipPairs
<1> HIDE DEF n
<1>4. \A i \in 1 .. n : <<s[i], t[i]>> \in S \X T
  BY <1>2
<1> QED
  BY <1>1, <1>3, <1>4

-----------------------------------------------------------------------------
(* The steps. *)

LEMMA PricesInit == ASSUME Init PROVE PricesInv
<1>1. IsFiniteSet(pairs)
  BY FS_EmptySet DEF Init
<1>2. /\ asked \in Seq(pairs) /\ IsInjective(asked) /\ quoted \in Seq(pairs \X Listed)
      /\ Len(quoted) = 0
  BY DEF Init, IsInjective
<1>3. PricesTypeOK
  BY <1>2, MaxFaultsAssumption DEF Init, PricesTypeOK
<1>4. QuotedRight
  BY <1>2 DEF Init, QuotedRight, PriceOfItsPair
<1> QED
  BY <1>1, <1>3, <1>4 DEF PricesInv

\* The pass is over, in whatever way.
LEMMA PassOver ==
  ASSUME PricesInv, PricesRest, UNCHANGED <<pairs, prices>>, faults' \in 0 .. MaxFaults
  PROVE  PricesInv'
<1>1. /\ asked' \in Seq(pairs') /\ IsInjective(asked') /\ quoted' \in Seq(pairs' \X Listed)
      /\ Len(quoted') = 0
  BY DEF PricesRest, IsInjective
<1>2. PricesTypeOK'
  BY <1>1 DEF PricesRest, PricesInv, PricesTypeOK
<1>3. QuotedRight'
  BY <1>1 DEF PricesInv, QuotedRight, PriceOfItsPair
<1> QED
  BY <1>2, <1>3 DEF PricesInv

LEMMA GetPairsKeeps == ASSUME PricesInv, GetPairs PROVE PricesInv'
<1>1. asked' \in Seq(pairs) /\ IsInjective(asked')
  BY Enumeration DEF PricesInv, GetPairs
<1> QED
  BY <1>1 DEF GetPairs, PricesInv, PricesTypeOK, QuotedRight, PriceOfItsPair

LEMMA GetPricesKeeps == ASSUME PricesInv, GetPrices PROVE PricesInv'
<1>1. asked \in Seq(pairs) /\ quoted' = ZipPairs(asked, Tickers(asked)) /\ asked' = <<>>
      /\ UNCHANGED <<pairs, prices, faults>> /\ pricePc' = "store"
  BY DEF GetPrices, PricesInv, PricesTypeOK
<1>2. Tickers(asked) \in Seq(Listed)
  BY <1>1, TickersAreListed
<1>3. quoted' \in Seq(pairs \X Listed)
  BY <1>1, <1>2, ZipType
<1>4. <<>> \in Seq(pairs) /\ IsInjective(<<>>)
  BY DEF IsInjective
<1>5. PricesTypeOK'
  BY <1>1, <1>3, <1>4 DEF PricesInv, PricesTypeOK
<1>6. ASSUME pairs \subseteq Listed PROVE \A i \in 1 .. Len(quoted') : quoted'[i][1] = quoted'[i][2]
  <2>1. asked \in Seq(Listed)
    BY <1>1, <1>6, SeqMonotonic
  <2>2. Tickers(asked) = asked
    BY <2>1, TickersAreAsked
  <2>3. \A i \in 1 .. Len(quoted') : quoted'[i] = <<asked[i], asked[i]>>
    <3>1. quoted' = ZipPairs(asked, asked)
      BY <1>1, <2>2
    <3>2. \A i \in 1 .. Len(ZipPairs(asked, asked)) : ZipPairs(asked, asked)[i] = <<asked[i], asked[i]>>
      BY <2>1, ZipElement
    <3> QED
      BY <3>1, <3>2
  <2> QED
    BY <2>3
<1>7. QuotedRight'
  BY <1>1, <1>6 DEF PricesInv, QuotedRight, PriceOfItsPair
<1> QED
  BY <1>1, <1>5, <1>7 DEF PricesInv

LEMMA SetPriceKeeps == ASSUME PricesInv, SetPrice PROVE PricesInv'
<1> DEFINE row == Head(quoted)
<1>1. /\ quoted \in Seq(pairs \X Listed) /\ quoted # <<>> /\ quoted' = Tail(quoted)
      /\ prices' = {p \in prices : p[1] # row[1]} \cup {row}
      /\ UNCHANGED <<pairs, pricePc, asked, faults>>
  BY DEF SetPrice, PricesInv, PricesTypeOK
<1>2. /\ row \in pairs \X Listed /\ quoted' \in Seq(pairs \X Listed)
      /\ Len(quoted') = Len(quoted) - 1 /\ Len(quoted) \in Nat
      /\ \A i \in 1 .. Len(quoted') : quoted'[i] = quoted[i + 1]
  BY <1>1, HeadTailProperties, LenProperties
<1>3. row = quoted[1] /\ 1 \in 1 .. Len(quoted)
  BY <1>1, EmptySeq
<1> HIDE DEF row
<1>4. /\ prices' \in SUBSET (pairs \X Listed)
      /\ \A p, q \in prices' : p[1] = q[1] => p = q
  BY <1>1, <1>2 DEF PricesInv, PricesTypeOK
<1>5. PricesTypeOK'
  BY <1>1, <1>2, <1>4 DEF PricesInv, PricesTypeOK
<1>6. QuotedRight'
  BY <1>1, <1>2, <1>3 DEF PricesInv, QuotedRight, PriceOfItsPair
<1> QED
  BY <1>1, <1>5, <1>6 DEF PricesInv

LEMMA CreatePairKeeps ==
  ASSUME PricesInv, NEW p \in Pair, CreatePair(p) PROVE PricesInv'
<1>1. pairs' = pairs \cup {p} /\ UNCHANGED <<prices, pricePc, asked, quoted, faults>>
  BY DEF CreatePair
<1>2. asked \in Seq(pairs') /\ quoted \in Seq(pairs' \X Listed)
  <2>1. pairs \X Listed \subseteq pairs' \X Listed
    BY <1>1
  <2>2. asked \in Seq(pairs) /\ quoted \in Seq(pairs \X Listed)
    BY DEF PricesInv, PricesTypeOK
  <2> QED
    BY <1>1, <2>1, <2>2, SeqMonotonic
<1>3. IsFiniteSet(pairs')
  BY <1>1, FS_AddElement DEF PricesInv
<1>4. PricesTypeOK'
  BY <1>1, <1>2 DEF PricesInv, PricesTypeOK
<1>5. QuotedRight'
  BY <1>1 DEF PricesInv, QuotedRight, PriceOfItsPair
<1> QED
  BY <1>3, <1>4, <1>5 DEF PricesInv

LEMMA PricesStep == ASSUME PricesInv, [Next]_vars PROVE PricesInv'
<1>1. faults \in 0 .. MaxFaults
  BY DEF PricesInv, PricesTypeOK
<1>2. CASE EndPrices
  BY <1>1, <1>2, PassOver DEF EndPrices
<1>3. CASE FailPrices
  BY <1>1, <1>3, PassOver, MaxFaultsAssumption DEF FailPrices
<1>4. CASE UNCHANGED vars
  BY <1>4 DEF vars, PricesInv, PricesTypeOK, QuotedRight, PriceOfItsPair
<1> QED
  BY <1>2, <1>3, <1>4, GetPairsKeeps, GetPricesKeeps, SetPriceKeeps, CreatePairKeeps
  DEF Next, RefreshPrices

-----------------------------------------------------------------------------
(* The theorems. *)

\* The invariant holds in every run.
THEOREM PricesInvariant == Spec => []PricesInv
<1>1. Init => PricesInv
  BY PricesInit
<1>2. PricesInv /\ [Next]_vars => PricesInv'
  BY PricesStep
<1> QED
  BY <1>1, <1>2, PTL DEF Spec

\* The tables keep their types: a pair has at most one price, which stands in
\* for a ticker that the exchange has, and no price is there without its pair.
THEOREM PricesTypeCorrect == Spec => []PricesTypeOK
<1>1. PricesInv => PricesTypeOK
  BY DEF PricesInv
<1> QED
  BY <1>1, PricesInvariant, PTL

\* A price is the one of its pair as long as every pair that has been created is
\* listed, whichever are created during a pass; one that is not listed is enough
\* to shift the tickers, as the run price_shifted shows.
THEOREM PricesMatch == Spec => [](pairs \subseteq Listed => PriceOfItsPair)
<1>1. PricesInv => (pairs \subseteq Listed => PriceOfItsPair)
  BY DEF PricesInv, QuotedRight
<1> QED
  BY <1>1, PricesInvariant, PTL

=============================================================================
