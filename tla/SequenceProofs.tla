--------------------------- MODULE SequenceProofs ---------------------------
(***************************************************************************)
(* What the proofs share about sequences: how the queues of a model grow   *)
(* and shrink, induction over the natural numbers with a set for the       *)
(* predicate, and what Selected returns.                                   *)
(***************************************************************************)
EXTENDS Selection, SequencesExt, FiniteSets, FiniteSetTheorems, SequenceTheorems,
        WellFoundedInduction, TLAPS

LEMMA PrefixFacts ==
  ASSUME NEW S, NEW q \in Seq(S), NEW p \in Prefixes(q)
  PROVE  /\ p \in Seq(S) /\ Len(p) \in Nat /\ Len(q) \in Nat /\ Len(p) <= Len(q)
         /\ \A i \in 1 .. Len(p) : i \in 1 .. Len(q) /\ p[i] = q[i]
<1>1. PICK n \in 0 .. Len(q) : p = SubSeq(q, 1, n)
  BY DEF Prefixes
<1>2. Len(p) = n
  BY <1>1
<1> QED BY <1>1, <1>2

LEMMA PrefixSelf ==
  ASSUME NEW S, NEW q \in Seq(S)
  PROVE  q \in Prefixes(q)
<1>1. q = SubSeq(q, 1, Len(q)) /\ Len(q) \in 0 .. Len(q)
  OBVIOUS
<1> QED BY <1>1 DEF Prefixes

LEMMA TailFacts ==
  ASSUME NEW S, NEW q \in Seq(S), q # <<>>
  PROVE  /\ Tail(q) \in Seq(S) /\ Len(q) \in Nat \ {0} /\ Len(Tail(q)) = Len(q) - 1
         /\ Head(q) = q[1] /\ q[1] \in S
         /\ \A i \in 1 .. Len(Tail(q)) : i + 1 \in 1 .. Len(q) /\ Tail(q)[i] = q[i + 1]
<1>1. Len(q) \in Nat \ {0}
  OBVIOUS
<1> QED BY <1>1

LEMMA AppendFacts ==
  ASSUME NEW S, NEW q \in Seq(S), NEW e \in S
  PROVE  /\ Append(q, e) \in Seq(S) /\ Len(q) \in Nat /\ Len(Append(q, e)) = Len(q) + 1
         /\ Append(q, e)[Len(q) + 1] = e
         /\ \A i \in 1 .. Len(q) : Append(q, e)[i] = q[i]
OBVIOUS

LEMMA ConcatFacts ==
  ASSUME NEW S, NEW q \in Seq(S), NEW r \in Seq(S)
  PROVE  /\ q \o r \in Seq(S) /\ Len(q) \in Nat /\ Len(r) \in Nat
         /\ Len(q \o r) = Len(q) + Len(r)
         /\ \A i \in 1 .. Len(q) : (q \o r)[i] = q[i]
         /\ \A i \in 1 .. Len(r) : (q \o r)[Len(q) + i] = r[i]
         /\ \A i \in 1 .. Len(q \o r) :
              \/ i \in 1 .. Len(q) /\ (q \o r)[i] = q[i]
              \/ i - Len(q) \in 1 .. Len(r) /\ (q \o r)[i] = r[i - Len(q)]
OBVIOUS

LEMMA ToSetFacts ==
  ASSUME NEW S, NEW q \in Seq(S), NEW x
  PROVE  x \in ToSet(q) <=> \E i \in 1 .. Len(q) : q[i] = x
BY DEF ToSet

\* The set of the elements of a queue.
LEMMA ToSetTail ==
  ASSUME NEW S, NEW q \in Seq(S), q # <<>>
  PROVE  ToSet(q) = {Head(q)} \cup ToSet(Tail(q))
<1>1. /\ Len(q) \in Nat \ {0} /\ Len(Tail(q)) = Len(q) - 1 /\ Head(q) = q[1]
      /\ \A i \in 1 .. Len(Tail(q)) : i + 1 \in 1 .. Len(q) /\ Tail(q)[i] = q[i + 1]
  BY TailFacts
<1>2. ASSUME NEW x \in ToSet(q) PROVE x \in {Head(q)} \cup ToSet(Tail(q))
  <2>1. PICK i \in 1 .. Len(q) : q[i] = x
    BY <1>2 DEF ToSet
  <2>2. CASE i = 1
    <3>1. x = Head(q)
      BY <1>1, <2>1, <2>2
    <3> QED BY <3>1
  <2>3. CASE i # 1
    <3>1. i - 1 \in 1 .. Len(Tail(q)) /\ (i - 1) + 1 = i
      BY <1>1, <2>3
    <3>2. Tail(q)[i - 1] = x
      BY <1>1, <2>1, <3>1
    <3>3. Tail(q) \in Seq(S)
      BY TailFacts
    <3> QED BY <3>1, <3>2, <3>3, ToSetFacts
  <2> QED BY <2>2, <2>3
<1>3. ASSUME NEW x \in ToSet(Tail(q)) PROVE x \in ToSet(q)
  <2>1. PICK i \in 1 .. Len(Tail(q)) : Tail(q)[i] = x
    BY <1>3 DEF ToSet
  <2>2. i + 1 \in 1 .. Len(q) /\ q[i + 1] = x
    BY <1>1, <2>1
  <2> QED BY <2>2 DEF ToSet
<1>4. Head(q) \in ToSet(q)
  BY <1>1 DEF ToSet
<1> QED BY <1>2, <1>3, <1>4

LEMMA ToSetConcat ==
  ASSUME NEW S, NEW q \in Seq(S), NEW r \in Seq(S)
  PROVE  ToSet(q \o r) = ToSet(q) \cup ToSet(r)
<1>1. PICK c : c = q \o r
  OBVIOUS
<1>2. /\ Len(q) \in Nat /\ Len(r) \in Nat /\ Len(c) = Len(q) + Len(r)
      /\ \A i \in 1 .. Len(q) : c[i] = q[i]
      /\ \A i \in 1 .. Len(r) : c[Len(q) + i] = r[i]
      /\ \A i \in 1 .. Len(c) : \/ i \in 1 .. Len(q) /\ c[i] = q[i]
                                \/ i - Len(q) \in 1 .. Len(r) /\ c[i] = r[i - Len(q)]
  BY <1>1, ConcatFacts
<1>3. ASSUME NEW x \in ToSet(c) PROVE x \in ToSet(q) \cup ToSet(r)
  <2>1. PICK i \in 1 .. Len(c) : c[i] = x
    BY <1>3 DEF ToSet
  <2>2. CASE i \in 1 .. Len(q) /\ c[i] = q[i]
    BY <2>1, <2>2 DEF ToSet
  <2>3. CASE i - Len(q) \in 1 .. Len(r) /\ c[i] = r[i - Len(q)]
    BY <2>1, <2>3 DEF ToSet
  <2> QED BY <1>2, <2>2, <2>3
<1>4. ASSUME NEW x \in ToSet(q) PROVE x \in ToSet(c)
  <2>1. PICK i \in 1 .. Len(q) : q[i] = x
    BY <1>4 DEF ToSet
  <2>2. i \in 1 .. Len(c) /\ c[i] = x
    BY <1>2, <2>1
  <2> QED BY <2>2 DEF ToSet
<1>5. ASSUME NEW x \in ToSet(r) PROVE x \in ToSet(c)
  <2>1. PICK i \in 1 .. Len(r) : r[i] = x
    BY <1>5 DEF ToSet
  <2>2. Len(q) + i \in 1 .. Len(c) /\ c[Len(q) + i] = x
    BY <1>2, <2>1
  <2> QED BY <2>2 DEF ToSet
<1> QED BY <1>1, <1>3, <1>4, <1>5

LEMMA ToSetAppend ==
  ASSUME NEW S, NEW q \in Seq(S), NEW e \in S
  PROVE  ToSet(Append(q, e)) = ToSet(q) \cup {e}
<1>1. PICK c : c = Append(q, e)
  OBVIOUS
<1>2. /\ Len(q) \in Nat /\ Len(c) = Len(q) + 1 /\ c[Len(q) + 1] = e
      /\ \A i \in 1 .. Len(q) : c[i] = q[i]
  BY <1>1, AppendFacts
<1>3. \A i \in 1 .. Len(c) : i = Len(q) + 1 \/ i \in 1 .. Len(q)
  BY <1>2
<1>4. \A i \in 1 .. Len(q) : i \in 1 .. Len(c)
  BY <1>2
<1>5. Len(q) + 1 \in 1 .. Len(c)
  BY <1>2
<1>6. ToSet(c) \subseteq ToSet(q) \cup {e}
  BY <1>2, <1>3 DEF ToSet
<1>7. ToSet(q) \cup {e} \subseteq ToSet(c)
  BY <1>2, <1>4, <1>5 DEF ToSet
<1> QED BY <1>1, <1>6, <1>7

LEMMA ToSetPrefix ==
  ASSUME NEW S, NEW q \in Seq(S), NEW p \in Prefixes(q)
  PROVE  ToSet(p) \subseteq ToSet(q)
BY PrefixFacts DEF ToSet

LEMMA ToSetOf ==
  ASSUME NEW S, NEW q \in Seq(S)
  PROVE  ToSet(q) \subseteq S /\ (q = <<>> => ToSet(q) = {}) /\ (q # <<>> => Head(q) \in ToSet(q))
<1>1. ToSet(q) \subseteq S /\ (q = <<>> => ToSet(q) = {})
  BY DEF ToSet
<1>2. CASE q # <<>>
  BY <1>1, <1>2, ToSetTail
<1> QED BY <1>1, <1>2

-----------------------------------------------------------------------------
\* A set of natural numbers has a least element: intervals are finite, and inclusion is
\* well-founded on finite sets.
LEMMA LeastElement ==
  ASSUME NEW B \in SUBSET Nat, B # {}
  PROVE  \E m \in B : \A k \in B : m <= k
<1> DEFINE T == { 0 .. n : n \in B }
           R == StrictSubsetOrdering(Nat)
<1>1. T \subseteq FiniteSubsetsOf(Nat)
  <2>1. SUFFICES ASSUME NEW n \in B PROVE 0 .. n \in FiniteSubsetsOf(Nat)
    OBVIOUS
  <2>2. IsFiniteSet(0 .. n)
    BY FS_Interval
  <2>3. 0 .. n \subseteq Nat
    OBVIOUS
  <2> QED BY <2>2, <2>3 DEF FiniteSubsetsOf
<1>2. T # {}
  OBVIOUS
<1>3. IsWellFoundedOn(R, FiniteSubsetsOf(Nat))
  BY FS_StrictSubsetOrderingWellFounded
<1>4. \E x \in T : \A y \in T : ~ (<<y, x>> \in R)
  <2> HIDE DEF T, R
  <2> QED BY <1>1, <1>2, <1>3, WFMin
<1>5. PICK m \in B : \A k \in B : ~ (<<0 .. k, 0 .. m>> \in R)
  BY <1>4
<1>6. ASSUME NEW k \in B, k < m PROVE FALSE
  <2>1. 0 .. k \subseteq 0 .. m /\ 0 .. k # 0 .. m
    <3>1. m \in 0 .. m /\ m \notin 0 .. k
      BY <1>6
    <3> QED BY <1>6, <3>1
  <2>2. <<0 .. k, 0 .. m>> \in R
    BY <2>1 DEF StrictSubsetOrdering
  <2> QED BY <2>2, <1>5
<1> QED BY <1>6

\* Induction, for the set of numbers that have the property.
LEMMA SetInduction ==
  ASSUME NEW P \in SUBSET Nat, 0 \in P, \A n \in P : n + 1 \in P
  PROVE  P = Nat
<1>1. SUFFICES ASSUME Nat \ P # {} PROVE FALSE
  OBVIOUS
<1>2. PICK m \in Nat \ P : \A k \in Nat \ P : m <= k
  BY <1>1, LeastElement
<1>3. m - 1 \in Nat /\ m - 1 \notin P
  BY <1>2
<1> QED BY <1>2, <1>3

-----------------------------------------------------------------------------
\* One step of what Selected's recursion computes from the function up.
Extended(q, set, up, i) ==
  IF i = 0 THEN <<>> ELSE IF q[i] \in set THEN Append(up[i - 1], q[i]) ELSE up[i - 1]

\* The recursion of Selected defines a function.
LEMMA SelectionExists ==
  ASSUME NEW q, NEW set
  PROVE  \A n \in Nat : \E up : up = [i \in 0 .. n |-> Extended(q, set, up, i)]
<1> DEFINE P == { n \in Nat : \E up : up = [i \in 0 .. n |-> Extended(q, set, up, i)] }
<1>1. 0 \in P
  <2> DEFINE up == [i \in 0 .. 0 |-> <<>>]
  <2>1. up = [i \in 0 .. 0 |-> Extended(q, set, up, i)]
    BY DEF Extended
  <2> QED BY <2>1
<1>2. ASSUME NEW n \in P PROVE n + 1 \in P
  <2>1. PICK up : up = [i \in 0 .. n |-> Extended(q, set, up, i)]
    BY <1>2
  <2> DEFINE more == [i \in 0 .. n + 1 |-> IF i = n + 1 THEN Extended(q, set, up, i) ELSE up[i]]
  <2>2. \A i \in 0 .. n + 1 : more[i] = Extended(q, set, more, i)
    <3>1. TAKE i \in 0 .. n + 1
    <3>2. i # 0 => more[i - 1] = up[i - 1]
      OBVIOUS
    <3>3. Extended(q, set, more, i) = Extended(q, set, up, i)
      BY <3>2 DEF Extended
    <3>4. i # n + 1 => up[i] = Extended(q, set, up, i)
      <4>1. i # n + 1 => i \in 0 .. n
        OBVIOUS
      <4> HIDE DEF Extended
      <4> QED BY <4>1, <2>1
    <3> QED BY <3>3, <3>4
  <2>3. more = [i \in 0 .. n + 1 |-> Extended(q, set, more, i)]
    BY <2>2
  <2>4. \E f : f = [i \in 0 .. n + 1 |-> Extended(q, set, f, i)]
    <3> HIDE DEF more
    <3> WITNESS more
    <3> QED BY <2>3
  <2>5. n + 1 \in Nat
    BY <1>2
  <2> QED BY <2>4, <2>5
<1>3. P = Nat
  <2> HIDE DEF P
  <2>1. P \in SUBSET Nat
    BY DEF P
  <2> QED BY <1>1, <1>2, <2>1, SetInduction
<1> QED BY <1>3

\* Selected returns the last value of a function that satisfies its recursion.
LEMMA SelectedUnfolds ==
  ASSUME NEW S, NEW q \in Seq(S), NEW set
  PROVE  \E up : /\ up = [i \in 0 .. Len(q) |-> Extended(q, set, up, i)]
                 /\ Selected(q, set) = up[Len(q)]
<1> DEFINE up == CHOOSE f : f = [i \in 0 .. Len(q) |-> Extended(q, set, f, i)]
<1>1. Len(q) \in Nat
  OBVIOUS
<1>2. up = [i \in 0 .. Len(q) |-> Extended(q, set, up, i)]
  BY <1>1, SelectionExists
<1>3. Selected(q, set) = up[Len(q)]
  BY DEF Selected, Extended
<1> QED BY <1>2, <1>3

\* at tells where in q the elements of r, those of set, come from.
SelectsBy(q, set, r, at) ==
  /\ at \in [1 .. Len(r) -> 1 .. Len(q)]
  /\ \A i, j \in 1 .. Len(r) : i < j => at[i] < at[j]
  /\ \A i \in 1 .. Len(r) : r[i] = q[at[i]] /\ q[at[i]] \in set
  /\ \A n \in 1 .. Len(q) : q[n] \in set => \E i \in 1 .. Len(r) : at[i] = n

\* The same of the first n elements of q.
SelectsUpTo(q, set, r, at, n) ==
  /\ at \in [1 .. Len(r) -> 1 .. n]
  /\ \A i, j \in 1 .. Len(r) : i < j => at[i] < at[j]
  /\ \A i \in 1 .. Len(r) : r[i] = q[at[i]] /\ q[at[i]] \in set
  /\ \A k \in 1 .. n : q[k] \in set => \E i \in 1 .. Len(r) : at[i] = k

\* One more element of q.
LEMMA SelectsNext ==
  ASSUME NEW S, NEW q \in Seq(S), NEW set, NEW r \in Seq(S), NEW at, NEW n \in 0 .. Len(q) - 1,
         SelectsUpTo(q, set, r, at, n)
  PROVE  \E more : SelectsUpTo(q, set, IF q[n + 1] \in set THEN Append(r, q[n + 1]) ELSE r,
                              more, n + 1)
<1>1. CASE q[n + 1] \in set
  <2> DEFINE s == Append(r, q[n + 1])
             more == [i \in 1 .. Len(s) |-> IF i = Len(s) THEN n + 1 ELSE at[i]]
  <2>0. q[n + 1] \in S
    OBVIOUS
  <2>1. s \in Seq(S) /\ Len(s) = Len(r) + 1 /\ Len(r) \in Nat
    BY <2>0
  <2>2. s[Len(s)] = q[n + 1] /\ \A i \in 1 .. Len(r) : s[i] = r[i]
    BY <2>0
  <2>3. more \in [1 .. Len(s) -> 1 .. n + 1]
    <3> HIDE DEF s
    <3> QED BY <2>1 DEF SelectsUpTo
  <2>4. more[Len(s)] = n + 1 /\ \A i \in 1 .. Len(r) : more[i] = at[i] /\ at[i] \in 1 .. n
    <3> HIDE DEF s
    <3> QED BY <2>1 DEF SelectsUpTo
  <2>5. SelectsUpTo(q, set, s, more, n + 1)
    <3> HIDE DEF s, more
    <3>1. ASSUME NEW i \in 1 .. Len(s), NEW j \in 1 .. Len(s), i < j PROVE more[i] < more[j]
      <4>1. i \in 1 .. Len(r) /\ more[i] \in 1 .. n /\ more[i] = at[i]
        BY <3>1, <2>1, <2>4
      <4>2. CASE j = Len(s)
        BY <4>1, <4>2, <2>4
      <4>3. CASE j # Len(s)
        <5>1. j \in 1 .. Len(r) /\ more[j] = at[j]
          BY <4>3, <2>1, <2>4
        <5> QED BY <5>1, <4>1, <3>1 DEF SelectsUpTo
      <4> QED BY <4>2, <4>3
    <3>2. \A i \in 1 .. Len(s) : s[i] = q[more[i]] /\ q[more[i]] \in set
      BY <2>1, <2>2, <2>4, <1>1 DEF SelectsUpTo
    <3>3. \A k \in 1 .. n + 1 : q[k] \in set => \E i \in 1 .. Len(s) : more[i] = k
      <4>1. ASSUME NEW k \in 1 .. n + 1, q[k] \in set PROVE \E i \in 1 .. Len(s) : more[i] = k
        <5>1. CASE k = n + 1
          BY <5>1, <2>1, <2>4
        <5>2. CASE k \in 1 .. n
          <6>1. PICK i \in 1 .. Len(r) : at[i] = k
            BY <4>1, <5>2 DEF SelectsUpTo
          <6> QED BY <6>1, <2>1, <2>4
        <5> QED BY <5>1, <5>2
      <4> QED BY <4>1
    <3> QED BY <2>3, <3>1, <3>2, <3>3 DEF SelectsUpTo
  <2> QED BY <2>5, <1>1
<1>2. CASE q[n + 1] \notin set
  <2>1. at \in [1 .. Len(r) -> 1 .. n + 1]
    BY DEF SelectsUpTo
  <2>2. \A k \in 1 .. n + 1 : q[k] \in set => k \in 1 .. n
    BY <1>2
  <2>3. SelectsUpTo(q, set, r, at, n + 1)
    BY <2>1, <2>2 DEF SelectsUpTo
  <2> QED BY <2>3, <1>2
<1> QED BY <1>1, <1>2

\* Selected returns the elements of the sequence that are in the set, each as often as it
\* is there and in the same order.
LEMMA SelectedProperties ==
  ASSUME NEW S, NEW q \in Seq(S), NEW set
  PROVE  /\ Selected(q, set) \in Seq(S)
         /\ \E at : SelectsBy(q, set, Selected(q, set), at)
<1>1. PICK up : /\ up = [i \in 0 .. Len(q) |-> Extended(q, set, up, i)]
                /\ Selected(q, set) = up[Len(q)]
  BY SelectedUnfolds
<1>2. \A i \in 0 .. Len(q) : up[i] = Extended(q, set, up, i)
  BY <1>1
<1> DEFINE Good(n) == up[n] \in Seq(S) /\ \E at : SelectsUpTo(q, set, up[n], at, n)
           P == { n \in Nat : n <= Len(q) => Good(n) }
<1>3. 0 \in P
  <2>1. up[0] = <<>>
    BY <1>2 DEF Extended
  <2>2. SelectsUpTo(q, set, <<>>, [i \in 1 .. 0 |-> 0], 0)
    BY DEF SelectsUpTo
  <2>3. up[0] \in Seq(S) /\ \E at : SelectsUpTo(q, set, up[0], at, 0)
    BY <2>1, <2>2
  <2> QED BY <2>3
<1>4. ASSUME NEW n \in P PROVE n + 1 \in P
  <2>0. n \in Nat
    BY <1>4
  <2>1. SUFFICES ASSUME n + 1 <= Len(q) PROVE Good(n + 1)
    BY <2>0
  <2>2. Good(n) /\ n \in 0 .. Len(q) - 1
    BY <2>0, <2>1, <1>4
  <2>3. up[n + 1] = IF q[n + 1] \in set THEN Append(up[n], q[n + 1]) ELSE up[n]
    <3>1. n + 1 \in 0 .. Len(q) /\ n + 1 # 0 /\ (n + 1) - 1 = n
      BY <2>2
    <3>2. up[n + 1] = Extended(q, set, up, n + 1)
      BY <3>1, <1>2
    <3> QED BY <3>1, <3>2 DEF Extended
  <2>4. \E more : SelectsUpTo(q, set, up[n + 1], more, n + 1)
    <3>1. PICK at : SelectsUpTo(q, set, up[n], at, n)
      BY <2>2
    <3> HIDE DEF P
    <3> QED BY <3>1, <2>2, <2>3, SelectsNext
  <2>5. up[n + 1] \in Seq(S)
    <3>1. q[n + 1] \in S
      BY <2>2
    <3> QED BY <3>1, <2>2, <2>3
  <2> QED BY <2>4, <2>5
<1>5. P = Nat
  <2> HIDE DEF P
  <2>1. P \in SUBSET Nat
    BY DEF P
  <2> QED BY <1>3, <1>4, <2>1, SetInduction
<1>6. Good(Len(q))
  <2>1. Len(q) \in Nat
    OBVIOUS
  <2> QED BY <2>1, <1>5
<1>7. PICK at : SelectsUpTo(q, set, up[Len(q)], at, Len(q))
  BY <1>6
<1>8. SelectsBy(q, set, Selected(q, set), at)
  BY <1>1, <1>7 DEF SelectsUpTo, SelectsBy
<1> QED BY <1>1, <1>6, <1>8

\* What is selected from a longer sequence.
LEMMA SelectedAppend ==
  ASSUME NEW S, NEW q \in Seq(S), NEW e \in S, NEW set
  PROVE  Selected(Append(q, e), set) =
           IF e \in set THEN Append(Selected(q, set), e) ELSE Selected(q, set)
<1> DEFINE r == Append(q, e)
<1>1. /\ r \in Seq(S) /\ Len(r) = Len(q) + 1 /\ Len(q) \in Nat
      /\ r[Len(r)] = e /\ \A i \in 1 .. Len(q) : r[i] = q[i]
  OBVIOUS
<1> HIDE DEF r
<1>2. PICK up : /\ up = [i \in 0 .. Len(q) |-> Extended(q, set, up, i)]
                /\ Selected(q, set) = up[Len(q)]
  BY SelectedUnfolds
<1>3. PICK ur : /\ ur = [i \in 0 .. Len(r) |-> Extended(r, set, ur, i)]
                /\ Selected(r, set) = ur[Len(r)]
  BY <1>1, SelectedUnfolds
<1>4. \A i \in 0 .. Len(q) : up[i] = Extended(q, set, up, i)
  BY <1>2
<1>5. \A i \in 0 .. Len(r) : ur[i] = Extended(r, set, ur, i)
  BY <1>3
<1> DEFINE P == { n \in Nat : n <= Len(q) => up[n] = ur[n] }
<1>6. 0 \in P
  BY <1>1, <1>4, <1>5 DEF Extended
<1>7. ASSUME NEW n \in P PROVE n + 1 \in P
  <2>0. n \in Nat
    BY <1>7
  <2>1. SUFFICES ASSUME n + 1 <= Len(q) PROVE up[n + 1] = ur[n + 1]
    BY <2>0
  <2>2. up[n] = ur[n] /\ n + 1 \in 1 .. Len(q) /\ (n + 1) - 1 = n
    BY <2>0, <2>1, <1>7
  <2>3. up[n + 1] = Extended(q, set, up, n + 1) /\ ur[n + 1] = Extended(r, set, ur, n + 1)
    BY <2>2, <1>1, <1>4, <1>5
  <2>4. r[n + 1] = q[n + 1]
    BY <2>2, <1>1
  <2> HIDE DEF P
  <2> QED BY <2>2, <2>3, <2>4 DEF Extended
<1>8. P = Nat
  <2> HIDE DEF P
  <2>1. P \in SUBSET Nat
    BY DEF P
  <2> QED BY <1>6, <1>7, <2>1, SetInduction
<1>9. up[Len(q)] = ur[Len(q)]
  BY <1>1, <1>8
<1>10. ur[Len(r)] = Extended(r, set, ur, Len(r)) /\ Len(r) - 1 = Len(q) /\ Len(r) # 0
  BY <1>1, <1>5
<1>11. Selected(r, set) = IF e \in set THEN Append(Selected(q, set), e) ELSE Selected(q, set)
  BY <1>1, <1>2, <1>3, <1>9, <1>10 DEF Extended
<1> QED BY <1>11 DEF r

\* What is selected from the empty sequence.
LEMMA SelectedEmpty ==
  ASSUME NEW set
  PROVE  Selected(<<>>, set) = <<>>
<1>1. <<>> \in Seq({}) /\ Len(<<>>) = 0
  OBVIOUS
<1>2. PICK up : /\ up = [i \in 0 .. Len(<<>>) |-> Extended(<<>>, set, up, i)]
                /\ Selected(<<>>, set) = up[Len(<<>>)]
  BY <1>1, SelectedUnfolds
<1>3. up[0] = Extended(<<>>, set, up, 0)
  BY <1>1, <1>2
<1> QED BY <1>1, <1>2, <1>3 DEF Extended

LEMMA ConcatAppend ==
  ASSUME NEW S, NEW q \in Seq(S), NEW r \in Seq(S), NEW e \in S
  PROVE  q \o r \in Seq(S) /\ q \o Append(r, e) = Append(q \o r, e)
<1>1. PICK c : c = q \o r
  OBVIOUS
<1>2. PICK more : more = Append(r, e)
  OBVIOUS
<1>3. /\ c \in Seq(S) /\ Len(c) = Len(q) + Len(r) /\ Len(q) \in Nat /\ Len(r) \in Nat
      /\ \A i \in 1 .. Len(q) : c[i] = q[i]
      /\ \A i \in 1 .. Len(r) : c[Len(q) + i] = r[i]
  BY <1>1, ConcatFacts
<1>4. /\ more \in Seq(S) /\ Len(more) = Len(r) + 1 /\ more[Len(r) + 1] = e
      /\ \A i \in 1 .. Len(r) : more[i] = r[i]
  BY <1>2, AppendFacts
<1>5. PICK left : left = q \o more
  OBVIOUS
<1>6. /\ q \o more \in Seq(S) /\ Len(q \o more) = Len(q) + Len(more)
      /\ \A i \in 1 .. Len(q \o more) :
           \/ i \in 1 .. Len(q) /\ (q \o more)[i] = q[i]
           \/ i - Len(q) \in 1 .. Len(more) /\ (q \o more)[i] = more[i - Len(q)]
  BY <1>4, ConcatFacts
<1>7. PICK right : right = Append(c, e)
  OBVIOUS
<1>8. /\ left \in Seq(S) /\ Len(left) = Len(q) + Len(more)
      /\ \A i \in 1 .. Len(left) : \/ i \in 1 .. Len(q) /\ left[i] = q[i]
                                   \/ i - Len(q) \in 1 .. Len(more) /\ left[i] = more[i - Len(q)]
  BY <1>5, <1>6
<1>9. /\ right \in Seq(S) /\ Len(right) = Len(c) + 1 /\ right[Len(c) + 1] = e
      /\ \A i \in 1 .. Len(c) : right[i] = c[i]
  BY <1>3, <1>7, AppendFacts
<1>10. ASSUME NEW i \in 1 .. Len(left) PROVE left[i] = right[i]
  <2>1. CASE i \in 1 .. Len(q) /\ left[i] = q[i]
    <3>1. i \in 1 .. Len(c) /\ c[i] = q[i]
      BY <1>3, <2>1
    <3> QED BY <1>9, <2>1, <3>1
  <2>2. CASE i - Len(q) \in 1 .. Len(more) /\ left[i] = more[i - Len(q)]
    <3>1. PICK j \in 1 .. Len(more) : j = i - Len(q) /\ left[i] = more[j] /\ i = Len(q) + j
      BY <1>3, <1>4, <1>8, <2>2
    <3>2. CASE j = Len(r) + 1
      <4>1. i = Len(c) + 1
        BY <1>3, <3>1, <3>2
      <4> QED BY <1>4, <1>9, <3>1, <3>2, <4>1
    <3>3. CASE j # Len(r) + 1
      <4>0. j \in 1 .. Len(r) /\ i \in 1 .. Len(c)
        BY <1>3, <1>4, <3>1, <3>3
      <4>1. c[i] = r[j]
        BY <1>3, <3>1, <4>0
      <4> QED BY <1>4, <1>9, <3>1, <4>0, <4>1
    <3> QED BY <3>2, <3>3
  <2> QED BY <1>8, <2>1, <2>2
<1>11. left = right
  <2>1. Len(left) = Len(right)
    BY <1>3, <1>4, <1>8, <1>9
  <2> QED BY <1>8, <1>9, <1>10, <2>1, SeqEqual
<1> QED BY <1>1, <1>2, <1>3, <1>5, <1>7, <1>11

\* All of what is appended is selected if all of it is in the set.
LEMMA SelectedConcat ==
  ASSUME NEW S, NEW q \in Seq(S), NEW set, NEW r \in Seq(S), \A i \in 1 .. Len(r) : r[i] \in set
  PROVE  Selected(q \o r, set) = Selected(q, set) \o r
<1> DEFINE Good(n) == \A x \in Seq(S) :
                        Len(x) = n /\ (\A i \in 1 .. Len(x) : x[i] \in set)
                          => Selected(q \o x, set) = Selected(q, set) \o x
           P == { n \in Nat : Good(n) }
<1>0. PICK p \in Seq(S) : p = Selected(q, set)
  BY SelectedProperties
<1>1. 0 \in P
  <2> SUFFICES ASSUME NEW x \in Seq(S), Len(x) = 0
               PROVE  Selected(q \o x, set) = Selected(q, set) \o x
    OBVIOUS
  <2>1. x = <<>>
    BY EmptySeq
  <2>2. q \o x = q /\ p \o x = p
    BY <1>0, <2>1, ConcatEmptySeq
  <2> QED BY <1>0, <2>2
<1>2. ASSUME NEW n \in P PROVE n + 1 \in P
  <2>0. n \in Nat /\ Good(n)
    BY <1>2
  <2> SUFFICES ASSUME NEW x \in Seq(S), Len(x) = n + 1, \A i \in 1 .. Len(x) : x[i] \in set
               PROVE  Selected(q \o x, set) = Selected(q, set) \o x
    <3> SUFFICES Good(n + 1)
      <4> HIDE DEF Good
      <4> QED BY <2>0
    <3> QED OBVIOUS
  <2> HIDE DEF P
  <2>1. PICK y, e : y = SubSeq(x, 1, n) /\ e = x[n + 1]
    OBVIOUS
  <2>2. n \in Nat /\ e \in S /\ e \in set
    BY <2>0, <2>1
  <2>3. y \in Seq(S) /\ Len(y) = n /\ \A i \in 1 .. Len(y) : y[i] = x[i]
    BY <2>1, <2>2
  <2>4. x = Append(y, e)
    <3>1. Append(y, e) \in Seq(S) /\ Len(Append(y, e)) = n + 1
          /\ \A i \in 1 .. n + 1 : Append(y, e)[i] = x[i]
      BY <2>1, <2>2, <2>3
    <3> QED BY <3>1, SeqEqual
  <2>5. Selected(q \o y, set) = p \o y
    <3>1. \A i \in 1 .. Len(y) : y[i] \in set
      BY <2>2, <2>3
    <3> QED BY <1>0, <2>0, <2>3, <3>1
  <2>6. /\ q \o y \in Seq(S)
        /\ q \o Append(y, e) = Append(q \o y, e) /\ p \o Append(y, e) = Append(p \o y, e)
    BY <1>0, <2>2, <2>3, ConcatAppend
  <2>7. Selected(Append(q \o y, e), set) = Append(Selected(q \o y, set), e)
    <3>1. PICK c \in Seq(S) : c = q \o y
      BY <2>6
    <3>2. Selected(Append(c, e), set) = Append(Selected(c, set), e)
      BY <2>2, SelectedAppend
    <3> QED BY <3>1, <3>2
  <2>8. Selected(q \o x, set) = Append(p \o y, e)
    BY <2>4, <2>5, <2>6, <2>7, Zenon
  <2> QED BY <1>0, <2>4, <2>6, <2>8, Zenon
<1> HIDE DEF P
<1>3. P = Nat
  <2>1. P \in SUBSET Nat
    BY DEF P
  <2> QED BY <1>1, <1>2, <2>1, SetInduction
<1>4. Len(r) \in P
  BY <1>3
<1> QED BY <1>4 DEF P
=============================================================================
