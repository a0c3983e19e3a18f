--------------------------- MODULE SequenceLemmas ---------------------------
(***************************************************************************)
(* Facts about sequences that the proofs of several components need: the   *)
(* rows of a table in some order, a list without repetition, and sequences *)
(* that are put together.                                                  *)
(***************************************************************************)
EXTENDS SequencesExt, FiniteSetTheorems, SequenceTheorems, TLAPS

-----------------------------------------------------------------------------
(* Lists without repetition. *)

\* An enumeration of a finite set has each element once.
LEMMA Enumeration ==
  ASSUME NEW S, IsFiniteSet(S), NEW s \in SetToSeqs(S)
  PROVE  s \in Seq(S) /\ IsInjective(s) /\ S \subseteq ToSet(s)
<1> DEFINE D == 1 .. Cardinality(S)
<1>1. s \in [D -> S] /\ \A i, j \in D : i # j => s[i] # s[j]
  BY DEF SetToSeqs
<1>2. Cardinality(S) \in Nat
  BY FS_CardinalityType
<1>3. s \in Seq(S) /\ IsInjective(s)
  BY <1>1, <1>2 DEF IsInjective
<1>4. IsFiniteSet(D) /\ Cardinality(D) = Cardinality(S)
  BY <1>2, FS_Interval
<1>5. s \in Injection(D, S)
  BY <1>1, <1>3 DEF Injection
<1>6. s \in Surjection(D, S)
  BY <1>4, <1>5, FS_Injection
<1>7. S \subseteq ToSet(s)
  BY <1>1, <1>6 DEF Surjection, ToSet
<1> QED
  BY <1>3, <1>7

\* A new row at the end of the table.
LEMMA NewRow ==
  ASSUME NEW S, NEW s \in Seq(S), IsInjective(s), S \subseteq ToSet(s), NEW a, a \notin S
  PROVE  LET t == Append(s, a)
         IN t \in Seq(S \cup {a}) /\ IsInjective(t) /\ S \cup {a} \subseteq ToSet(t)
<1> DEFINE t == Append(s, a)
           n == Len(s)
<1>1. n \in Nat /\ DOMAIN s = 1 .. n /\ \A i \in 1 .. n : s[i] \in S
  BY LenProperties, ElementOfSeq
<1>2. s \in Seq(S \cup {a})
  BY SeqMonotonic
<1>3. /\ t \in Seq(S \cup {a}) /\ Len(t) = n + 1
      /\ \A i \in 1 .. n : t[i] = s[i]
      /\ t[n + 1] = a
  BY <1>2, AppendProperties
<1>4. DOMAIN t = 1 .. n + 1
  BY <1>3, LenProperties
<1> HIDE DEF t, n
<1>5. \A i \in 1 .. n + 1 : i \in 1 .. n \/ i = n + 1
  BY <1>1
<1>6. IsInjective(t)
  BY <1>1, <1>3, <1>4, <1>5 DEF IsInjective
<1>7. S \cup {a} \subseteq ToSet(t)
  BY <1>1, <1>3, <1>4, <1>5 DEF ToSet
<1> QED
  BY <1>3, <1>6, <1>7 DEF t

\* The rest of a list without repetition.
LEMMA RestOfList ==
  ASSUME NEW S, NEW s \in Seq(S), IsInjective(s), s # <<>>
  PROVE  Head(s) \in S /\ Tail(s) \in Seq(S) /\ IsInjective(Tail(s))
<1> DEFINE t == Tail(s)
<1>1. /\ Head(s) \in S /\ t \in Seq(S) /\ Len(t) = Len(s) - 1
      /\ \A i \in 1 .. Len(t) : t[i] = s[i + 1]
  BY HeadTailProperties
<1>2. Len(s) \in Nat /\ DOMAIN s = 1 .. Len(s) /\ DOMAIN t = 1 .. Len(t)
  BY <1>1, LenProperties
<1> HIDE DEF t
<1>3. IsInjective(t)
  BY <1>1, <1>2 DEF IsInjective
<1> QED
  BY <1>1, <1>3 DEF t

-----------------------------------------------------------------------------
(* Sequences put together. *)

\* The elements of two sequences that are joined.
LEMMA Joined ==
  ASSUME NEW S, NEW s1 \in Seq(S), NEW s2 \in Seq(S)
  PROVE  /\ s1 \o s2 \in Seq(S)
         /\ Len(s1 \o s2) = Len(s1) + Len(s2)
         /\ \A i \in 1 .. Len(s1) : (s1 \o s2)[i] = s1[i]
         /\ \A i \in 1 .. Len(s2) : (s1 \o s2)[Len(s1) + i] = s2[i]
<1>1. Len(s1) \in Nat /\ Len(s2) \in Nat
  BY LenProperties
<1>2. s1 \o s2 \in Seq(S) /\ Len(s1 \o s2) = Len(s1) + Len(s2)
  BY ConcatProperties
<1>3. ASSUME NEW i \in 1 .. Len(s1) PROVE (s1 \o s2)[i] = s1[i]
  <2>1. i \in 1 .. Len(s1) + Len(s2) /\ i <= Len(s1)
    BY <1>1
  <2> QED
    BY <2>1, ConcatProperties
<1>4. ASSUME NEW i \in 1 .. Len(s2) PROVE (s1 \o s2)[Len(s1) + i] = s2[i]
  <2>1. /\ Len(s1) + i \in 1 .. Len(s1) + Len(s2)
        /\ ~(Len(s1) + i <= Len(s1)) /\ Len(s1) + i - Len(s1) = i
    BY <1>1
  <2> QED
    BY <2>1, ConcatProperties
<1> QED
  BY <1>2, <1>3, <1>4

\* A sequence of one element put between two sequences.
LEMMA PutBetween ==
  ASSUME NEW S, NEW s1 \in Seq(S), NEW x \in Seq(S), NEW s2 \in Seq(S), Len(x) = 1
  PROVE  /\ s1 \o x \o s2 \in Seq(S)
         /\ Len(s1 \o x \o s2) = Len(s1) + 1 + Len(s2)
         /\ (s1 \o x \o s2)[Len(s1) + 1] = x[1]
         /\ \A i \in 1 .. Len(s1) : (s1 \o x \o s2)[i] = s1[i]
         /\ \A i \in 1 .. Len(s2) : (s1 \o x \o s2)[Len(s1) + 1 + i] = s2[i]
<1>1. Len(s1) \in Nat /\ Len(s2) \in Nat
  BY LenProperties
<1>2. PICK t \in Seq(S) : t = s1 \o x
  BY ConcatProperties
<1>3. /\ Len(t) = Len(s1) + 1
      /\ \A i \in 1 .. Len(s1) : t[i] = s1[i]
      /\ \A i \in 1 .. 1 : t[Len(s1) + i] = x[i]
  BY <1>2, Joined
<1>4. t[Len(s1) + 1] = x[1]
  BY <1>3
<1>5. /\ t \o s2 \in Seq(S) /\ Len(t \o s2) = Len(t) + Len(s2)
      /\ \A i \in 1 .. Len(t) : (t \o s2)[i] = t[i]
      /\ \A i \in 1 .. Len(s2) : (t \o s2)[Len(t) + i] = s2[i]
  BY Joined
<1>6. Len(s1) + 1 \in 1 .. Len(t) /\ \A i \in 1 .. Len(s1) : i \in 1 .. Len(t)
  BY <1>1, <1>3
<1>7. /\ Len(t \o s2) = Len(s1) + 1 + Len(s2)
      /\ (t \o s2)[Len(s1) + 1] = x[1]
      /\ \A i \in 1 .. Len(s1) : (t \o s2)[i] = s1[i]
      /\ \A i \in 1 .. Len(s2) : (t \o s2)[Len(s1) + 1 + i] = s2[i]
  BY <1>3, <1>4, <1>5, <1>6
<1> QED
  BY <1>2, <1>5, <1>7

=============================================================================
