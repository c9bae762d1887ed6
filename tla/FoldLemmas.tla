------------------------------ MODULE FoldLemmas ------------------------------
(***************************************************************************)
(* Induction and folds for the proofs of the other modules.  The folds of  *)
(* the community modules are recursive functions on the subsets of a       *)
(* finite set, so a proof about one needs that such a function exists, and *)
(* then goes through the prefixes of a sequence or the subsets of a set.   *)
(* Induction is stated for sets and functions, which every prover can      *)
(* instantiate: the set of the cases that hold, the function of a step.    *)
(***************************************************************************)
EXTENDS Integers, FiniteSetsExt, Selection, FiniteSetTheorems, SequenceTheorems,
        WellFoundedInduction, TLAPS

-----------------------------------------------------------------------------

\* The first n positions are finitely many.
LEMMA FirstN ==
    ASSUME NEW n \in Nat
    PROVE  IsFiniteSet(1 .. n) /\ Cardinality(1 .. n) = n
  <1>1. 1 \in Int /\ n \in Int /\ (IF 1 > n THEN 0 ELSE n - 1 + 1) = n
    OBVIOUS
  <1>2. /\ IsFiniteSet(1 .. n)
        /\ Cardinality(1 .. n) = IF 1 > n THEN 0 ELSE n - 1 + 1
    BY <1>1, FS_Interval, Zenon
  <1>. QED  BY <1>1, <1>2

\* A set of natural numbers that is not empty has a first.
LEMMA FirstPosition ==
    ASSUME NEW T, T \subseteq Nat, T # {}
    PROVE  \E i \in T : \A j \in T : i <= j
  <1>. DEFINE Less == {ss \in Nat \X Nat : ss[1] < ss[2]}
  <1>1. IsWellFoundedOn(Less, Nat)
    BY NatLessThanWellFounded, Zenon DEF OpToRel
  <1>2. PICK i \in T : \A j \in T : ~ (<<j, i>> \in Less)
    <2>. HIDE DEF Less
    <2>. QED  BY <1>1, WFMin
  <1>3. ASSUME NEW j \in T
        PROVE  i <= j
    <2>1. i \in Nat /\ j \in Nat
      BY <1>2
    <2>2. ~ (j < i)
      <3>1. (<<j, i>> \in Less) <=> j < i
        BY <2>1
      <3>. QED  BY <1>2, <3>1, Zenon
    <2>. QED  BY <2>1, <2>2
  <1>. QED  BY <1>3

\* Induction up to n, over the set of the numbers something holds of.
LEMMA UpTo ==
    ASSUME NEW n \in Nat, NEW T, 0 \in T,
           \A k \in 1 .. n : k - 1 \in T => k \in T
    PROVE  \A k \in 0 .. n : k \in T
  <1>. DEFINE Bad == (0 .. n) \ T
  <1>1. SUFFICES ASSUME Bad # {} PROVE FALSE
    OBVIOUS
  <1>2. PICK i \in Bad : \A j \in Bad : i <= j
    <2>1. Bad \subseteq Nat
      OBVIOUS
    <2>. HIDE DEF Bad
    <2>. QED  BY <1>1, <2>1, FirstPosition
  <1>3. i \in 1 .. n /\ i - 1 \in 0 .. n
    BY <1>2
  <1>4. i - 1 \in T
    BY <1>2, <1>3
  <1>. QED  BY <1>2, <1>3, <1>4

\* Induction over the subsets of a finite set, smaller ones first.
LEMMA SmallestSubset ==
    ASSUME NEW D, IsFiniteSet(D), NEW T, T \subseteq SUBSET D, T # {}
    PROVE  \E s \in T : \A r \in T : Cardinality(s) <= Cardinality(r)
  <1>. DEFINE Sizes == {Cardinality(s) : s \in T}
  <1>1. \A s \in T : Cardinality(s) \in Nat
    BY FS_Subset, FS_CardinalityType
  <1>2. PICK i \in Sizes : \A j \in Sizes : i <= j
    <2>1. Sizes \subseteq Nat /\ Sizes # {}
      BY <1>1
    <2>. HIDE DEF Sizes
    <2>. QED  BY <2>1, FirstPosition
  <1>. QED  BY <1>2

-----------------------------------------------------------------------------

\* ch picks an element of every subset of D that is not empty.
Picks(ch, D) == \A s \in SUBSET D : s # {} => ch[s] \in s

\* it is the recursion over the subsets of D that takes the element ch picks.
Recurses(it, D, b, step, ch) ==
    \A s \in SUBSET D : it[s] = IF s = {} THEN b ELSE step[<<ch[s], it[s \ {ch[s]}]>>]

\* A recursion that takes one element at a time from the subsets of a finite set
\* defines a function.
LEMMA FoldExists ==
    ASSUME NEW D, IsFiniteSet(D), NEW V, NEW b \in V,
           NEW step \in [D \X V -> V],
           NEW ch, Picks(ch, D)
    PROVE  \E it \in [SUBSET D -> V] : Recurses(it, D, b, step, ch)
  <1>. DEFINE Next(it, s) == step[<<ch[s], it[s \ {ch[s]}]>>]
              Rec(it, s) == it[s] = IF s = {} THEN b ELSE Next(it, s)
              T == {n \in Nat : \E it \in [SUBSET D -> V] :
                        \A s \in SUBSET D : Cardinality(s) <= n => Rec(it, s)}
  <1>1. \A s \in SUBSET D : Cardinality(s) \in Nat /\ IsFiniteSet(s)
    BY FS_Subset, FS_CardinalityType
  <1>2. \A s \in SUBSET D : s # {} =>
            /\ ch[s] \in D
            /\ s \ {ch[s]} \in SUBSET D
            /\ Cardinality(s \ {ch[s]}) = Cardinality(s) - 1
    BY <1>1, FS_RemoveElement DEF Picks
  <1>3. \A s \in SUBSET D : Cardinality(s) = 0 <=> s = {}
    BY <1>1, FS_EmptySet
  <1>4. 0 \in T
    <2>. DEFINE it == [s \in SUBSET D |-> b]
    <2>1. it \in [SUBSET D -> V]
      OBVIOUS
    <2>2. ASSUME NEW s \in SUBSET D, Cardinality(s) <= 0
          PROVE  Rec(it, s)
      <3>1. s = {}
        BY <1>1, <1>3, <2>2
      <3>. QED  BY <3>1
    <2>. HIDE DEF it, Rec
    <2>. QED  BY <2>1, <2>2
  <1>5. ASSUME NEW n \in Nat, n \in T
        PROVE  n + 1 \in T
    <2>1. PICK old \in [SUBSET D -> V] : \A s \in SUBSET D : Cardinality(s) <= n => Rec(old, s)
      BY <1>5
    <2>. DEFINE it == [s \in SUBSET D |->
                          IF Cardinality(s) <= n \/ s = {} THEN old[s] ELSE Next(old, s)]
    <2>2. it \in [SUBSET D -> V]
      <3>1. ASSUME NEW s \in SUBSET D, s # {}
            PROVE  Next(old, s) \in V
        <4>1. ch[s] \in D /\ old[s \ {ch[s]}] \in V
          BY <1>2, <3>1
        <4>2. <<ch[s], old[s \ {ch[s]}]>> \in D \X V
          BY <4>1
        <4>. QED  BY <4>2
      <3>. HIDE DEF Next
      <3>. QED  BY <3>1
    <2>3. ASSUME NEW s \in SUBSET D, Cardinality(s) <= n + 1
          PROVE  Rec(it, s)
      <3>1. CASE s = {}
        <4>1. Cardinality(s) <= n
          BY <1>3, <3>1
        <4>2. Rec(old, s)
          BY <2>1, <4>1
        <4>3. old[s] = b
          BY <3>1, <4>2
        <4>4. it[s] = old[s]
          BY <3>1
        <4>. HIDE DEF it, Next
        <4>. QED  BY <3>1, <4>3, <4>4
      <3>2. CASE s # {}
        <4>1. s \ {ch[s]} \in SUBSET D /\ Cardinality(s \ {ch[s]}) <= n
          BY <1>1, <1>2, <2>3, <3>2
        <4>2. it[s \ {ch[s]}] = old[s \ {ch[s]}]
          BY <4>1
        <4>3. it[s] = Next(old, s)
          <5>1. CASE Cardinality(s) <= n
            <6>1. Rec(old, s)
              BY <2>1, <5>1
            <6>2. old[s] = Next(old, s)
              BY <3>2, <6>1
            <6>3. it[s] = old[s]
              BY <5>1
            <6>. HIDE DEF it, Next
            <6>. QED  BY <6>2, <6>3
          <5>2. CASE ~(Cardinality(s) <= n)
            <6>. HIDE DEF Next
            <6>. QED  BY <3>2, <5>2
          <5>. QED  BY <5>1, <5>2
        <4>4. Next(it, s) = Next(old, s)
          <5>. HIDE DEF it
          <5>. QED  BY <4>2
        <4>. HIDE DEF it, Next
        <4>. QED  BY <3>2, <4>3, <4>4
      <3>. QED  BY <3>1, <3>2
    <2>4. n + 1 \in Nat
      OBVIOUS
    <2>. HIDE DEF it, Rec
    <2>. QED  BY <2>2, <2>3, <2>4
  <1>6. Cardinality(D) \in Nat /\ \A s \in SUBSET D : Cardinality(s) <= Cardinality(D)
    BY FS_Subset, FS_CardinalityType
  <1>7. Cardinality(D) \in T
    <2>. HIDE DEF T
    <2>1. ASSUME NEW k \in 1 .. Cardinality(D), k - 1 \in T
          PROVE  k \in T
      <3>1. k - 1 \in Nat /\ (k - 1) + 1 = k
        BY <1>6
      <3>. QED  BY <1>5, <2>1, <3>1
    <2>2. \A k \in 0 .. Cardinality(D) : k \in T
      BY <1>4, <1>6, <2>1, UpTo
    <2>. QED  BY <1>6, <2>2
  <1>8. PICK it \in [SUBSET D -> V] : \A s \in SUBSET D : Cardinality(s) <= Cardinality(D) => Rec(it, s)
    BY <1>7
  <1>9. \A s \in SUBSET D : Rec(it, s)
    <2>. HIDE DEF Rec
    <2>. QED  BY <1>6, <1>8
  <1>. QED  BY <1>9 DEF Recurses

\* What holds of the empty set, and of a subset when it holds without the element
\* ch picks, holds of every subset.
LEMMA SubsetInduction ==
    ASSUME NEW D, IsFiniteSet(D), NEW ch, Picks(ch, D), NEW T,
           {} \in T,
           \A s \in SUBSET D : s # {} /\ s \ {ch[s]} \in T => s \in T
    PROVE  \A s \in SUBSET D : s \in T
  <1>. DEFINE Bad == (SUBSET D) \ T
  <1>1. SUFFICES ASSUME Bad # {} PROVE FALSE
    OBVIOUS
  <1>2. PICK s \in Bad : \A r \in Bad : Cardinality(s) <= Cardinality(r)
    <2>1. Bad \subseteq SUBSET D
      OBVIOUS
    <2>. HIDE DEF Bad
    <2>. QED  BY <1>1, <2>1, SmallestSubset
  <1>3. s \in SUBSET D /\ s \notin T /\ s # {}
    OBVIOUS
  <1>4. IsFiniteSet(s) /\ ch[s] \in s /\ s \ {ch[s]} \in SUBSET D
    BY <1>3, FS_Subset DEF Picks
  <1>5. /\ Cardinality(s \ {ch[s]}) = Cardinality(s) - 1
        /\ Cardinality(s) \in Nat
    BY <1>4, FS_RemoveElement, FS_CardinalityType
  <1>6. ~(Cardinality(s) <= Cardinality(s \ {ch[s]}))
    BY <1>5
  <1>7. s \ {ch[s]} \notin Bad
    <2>. HIDE DEF Bad
    <2>. QED  BY <1>2, <1>6
  <1>. QED  BY <1>3, <1>4, <1>7

-----------------------------------------------------------------------------

\* The greatest element of a prefix of the numbers, and what is left without it.
LEMMA LastOfPrefix ==
    ASSUME NEW k \in Nat \ {0}
    PROVE  Max(1 .. k) = k /\ (1 .. k) \ {Max(1 .. k)} = 1 .. (k - 1)
  <1>1. k \in 1 .. k /\ \A y \in 1 .. k : k >= y
    OBVIOUS
  <1>2. \A x \in 1 .. k : (\A y \in 1 .. k : x >= y) => x = k
    <2>. SUFFICES ASSUME NEW x \in 1 .. k, \A y \in 1 .. k : x >= y
                  PROVE  x = k
      OBVIOUS
    <2>1. x >= k /\ x <= k
      BY <1>1
    <2>. QED  BY <2>1
  <1>3. Max(1 .. k) = k
    BY <1>1, <1>2 DEF Max
  <1>. QED  BY <1>3

\* The greatest element of a subset of the numbers up to n.
LEMMA MaxInside ==
    ASSUME NEW n \in Nat, NEW s \in SUBSET (1 .. n), s # {}
    PROVE  Max(s) \in s /\ \A x \in s : x <= Max(s)
  <1>. DEFINE T == {j \in 0 .. n : n - j \in s}
  <1>1. T \subseteq Nat
    OBVIOUS
  <1>2. T # {}
    <2>1. PICK x \in s : TRUE
      OBVIOUS
    <2>2. n - x \in 0 .. n /\ n - (n - x) = x
      OBVIOUS
    <2>3. n - x \in T
      BY <2>2
    <2>. QED  BY <2>3
  <1>3. PICK i \in T : \A j \in T : i <= j
    <2>. HIDE DEF T
    <2>. QED  BY <1>1, <1>2, FirstPosition
  <1>. DEFINE m == n - i
  <1>4. m \in s
    BY <1>3
  <1>5. ASSUME NEW x \in s
        PROVE  m >= x
    <2>1. n - x \in 0 .. n /\ n - (n - x) = x /\ x \in Int /\ i \in Int
      BY <1>3
    <2>2. n - x \in T
      BY <2>1
    <2>3. i <= n - x
      BY <1>3, <2>2
    <2>. QED  BY <2>1, <2>3
  <1>. HIDE DEF m
  <1>6. \E x \in s : \A y \in s : x >= y
    BY <1>4, <1>5
  <1>7. Max(s) \in s /\ \A y \in s : Max(s) >= y
    BY <1>6 DEF Max
  <1>. QED  BY <1>7

\* it is the recursion over the subsets of 1 .. n that takes their greatest element,
\* as FoldLeft does.
FoldsLeft(it, n, b, step) ==
    \A s \in SUBSET (1 .. n) : it[s] = IF s = {} THEN b ELSE step[<<Max(s), it[s \ {Max(s)}]>>]

\* Such a recursion defines a function.
LEMMA LeftFoldExists ==
    ASSUME NEW n \in Nat, NEW V, NEW b \in V,
           NEW step \in [(1 .. n) \X V -> V]
    PROVE  \E it \in [SUBSET (1 .. n) -> V] : FoldsLeft(it, n, b, step)
  <1>. DEFINE ch == [s \in SUBSET (1 .. n) |-> Max(s)]
  <1>1. IsFiniteSet(1 .. n)
    BY FirstN
  <1>2. \A s \in SUBSET (1 .. n) : ch[s] = Max(s)
    OBVIOUS
  <1>. HIDE DEF ch
  <1>3. Picks(ch, 1 .. n)
    BY <1>2, MaxInside DEF Picks
  <1>4. PICK it \in [SUBSET (1 .. n) -> V] : Recurses(it, 1 .. n, b, step, ch)
    BY <1>1, <1>3, FoldExists
  <1>5. ASSUME NEW s \in SUBSET (1 .. n)
        PROVE  it[s] = IF s = {} THEN b ELSE step[<<Max(s), it[s \ {Max(s)}]>>]
    <2>1. it[s] = IF s = {} THEN b ELSE step[<<ch[s], it[s \ {ch[s]}]>>]
      BY <1>4 DEF Recurses
    <2>. QED  BY <1>2, <2>1
  <1>. QED  BY <1>5 DEF FoldsLeft

\* it folds the positions up to n from the left, as long as it stays within V.
FoldsWithin(it, n, V, b, step) ==
    /\ it[{}] = b
    /\ \A r \in SUBSET (1 .. n) :
          r # {} /\ it[r \ {Max(r)}] \in V => it[r] = step[<<Max(r), it[r \ {Max(r)}]>>]

\* f holds what such a fold has come to before and after each position.
Passes(f, n, V, b, step, last) ==
    /\ f \in [0 .. n -> V]
    /\ f[0] = b /\ f[n] = last
    /\ \A k \in 1 .. n : f[k] = step[<<k, f[k - 1]>>]

\* A fold from the left goes through the positions in their order.
LEMMA FoldPrefixes ==
    ASSUME NEW n \in Nat, NEW V, NEW b \in V, NEW step \in [(1 .. n) \X V -> V],
           NEW it, FoldsWithin(it, n, V, b, step)
    PROVE  \E f : Passes(f, n, V, b, step, it[1 .. n])
  <1>1. it[1 .. 0] = b
    <2>1. 1 .. 0 = {}
      OBVIOUS
    <2>. QED  BY <2>1 DEF FoldsWithin
  <1>2. ASSUME NEW k \in 1 .. n, it[1 .. (k - 1)] \in V
        PROVE  it[1 .. k] = step[<<k, it[1 .. (k - 1)]>>]
    <2>1. k \in Nat \ {0} /\ (1 .. k) \in SUBSET (1 .. n) /\ 1 .. k # {}
      <3>1. k \in 1 .. k /\ \A j \in 1 .. k : j \in 1 .. n
        OBVIOUS
      <3>. QED  BY <3>1
    <2>2. Max(1 .. k) = k /\ (1 .. k) \ {Max(1 .. k)} = 1 .. (k - 1)
      BY <2>1, LastOfPrefix
    <2>3. it[(1 .. k) \ {Max(1 .. k)}] \in V =>
            it[1 .. k] = step[<<Max(1 .. k), it[(1 .. k) \ {Max(1 .. k)}]>>]
      BY <2>1 DEF FoldsWithin
    <2>. QED  BY <1>2, <2>2, <2>3
  <1>. DEFINE T == {k \in 0 .. n : it[1 .. k] \in V}
  <1>3. \A k \in 0 .. n : k \in T
    <2>1. 0 \in T
      BY <1>1
    <2>2. ASSUME NEW k \in 1 .. n, k - 1 \in T
          PROVE  k \in T
      <3>1. it[1 .. k] = step[<<k, it[1 .. (k - 1)]>>] /\ it[1 .. (k - 1)] \in V
        BY <1>2, <2>2
      <3>2. step[<<k, it[1 .. (k - 1)]>>] \in V
        BY <3>1
      <3>. QED  BY <3>1, <3>2
    <2>. HIDE DEF T
    <2>. QED  BY <2>1, <2>2, UpTo
  <1>. DEFINE f == [k \in 0 .. n |-> it[1 .. k]]
  <1>4. f \in [0 .. n -> V] /\ \A k \in 0 .. n : f[k] = it[1 .. k]
    BY <1>3
  <1>. HIDE DEF f, T
  <1>5. ASSUME NEW k \in 1 .. n
        PROVE  f[k] = step[<<k, f[k - 1]>>]
    <2>1. k \in 0 .. n /\ k - 1 \in 0 .. n
      OBVIOUS
    <2>. QED  BY <1>2, <1>4, <2>1
  <1>6. Passes(f, n, V, b, step, it[1 .. n])
    BY <1>1, <1>4, <1>5 DEF Passes
  <1>. QED  BY <1>6

-----------------------------------------------------------------------------

\* f is the recursive function on 0 .. n whose first value is b and whose others are
\* each a step from the one before.
Iterates(f, n, b, step) == f[0] = b /\ \A k \in 1 .. n : f[k] = step[<<k, f[k - 1]>>]

\* There is such a function.
LEMMA RecursionExists ==
    ASSUME NEW n \in Nat, NEW V, NEW b \in V, NEW step \in [(1 .. n) \X V -> V]
    PROVE  \E f \in [0 .. n -> V] : Iterates(f, n, b, step)
  <1>1. PICK it \in [SUBSET (1 .. n) -> V] : FoldsLeft(it, n, b, step)
    BY LeftFoldExists
  <1>2. FoldsWithin(it, n, V, b, step)
    <2>1. {} \in SUBSET (1 .. n)
      OBVIOUS
    <2>. QED  BY <1>1, <2>1 DEF FoldsLeft, FoldsWithin
  <1>3. PICK f : Passes(f, n, V, b, step, it[1 .. n])
    BY <1>2, FoldPrefixes
  <1>. QED  BY <1>3 DEF Passes, Iterates

-----------------------------------------------------------------------------
(* The elements of a sequence, and the parts of a finite set.                *)

\* A sequence has finitely many elements.
LEMMA ElementsFinite ==
    ASSUME NEW S, NEW seq \in Seq(S)
    PROVE  IsFiniteSet(ToSet(seq)) /\ ToSet(seq) \subseteq S
  <1>1. Len(seq) \in Nat /\ DOMAIN seq = 1 .. Len(seq) /\ seq \in [1 .. Len(seq) -> S]
    BY LenProperties
  <1>2. seq \in Surjection(1 .. Len(seq), ToSet(seq))
    BY <1>1 DEF Surjection, ToSet
  <1>3. IsFiniteSet(1 .. Len(seq))
    BY <1>1, FirstN
  <1>4. IsFiniteSet(ToSet(seq))
    BY <1>2, <1>3, FS_Surjection
  <1>. QED  BY <1>1, <1>4 DEF ToSet

\* A finite set in a sequence, each element once.
LEMMA SetToSeqProperties ==
    ASSUME NEW S, IsFiniteSet(S)
    PROVE  /\ SetToSeq(S) \in Seq(S)
           /\ Len(SetToSeq(S)) = Cardinality(S)
           /\ ToSet(SetToSeq(S)) = S
  <1>. DEFINE n == Cardinality(S)
  <1>1. n \in Nat /\ ExistsBijection(1 .. n, S)
    BY FS_CardinalityType
  <1>2. PICK g : g \in Bijection(1 .. n, S)
    BY <1>1 DEF ExistsBijection
  <1>3. g \in [1 .. n -> S] /\ IsInjective(g)
    BY <1>2 DEF Bijection, Injection
  <1>. DEFINE f == SetToSeq(S)
  <1>4. f \in [1 .. n -> S] /\ IsInjective(f)
    BY <1>3 DEF SetToSeq
  <1>. HIDE DEF f
  <1>5. f \in Injection(1 .. n, S)
    BY <1>4 DEF Injection
  <1>6. Cardinality(1 .. n) = n
    BY <1>1, FirstN
  <1>7. f \in Surjection(1 .. n, S)
    BY <1>5, <1>6, FS_Injection
  <1>. HIDE DEF n
  <1>8. f \in Seq(S) /\ Len(f) = n /\ DOMAIN f = 1 .. n
    BY <1>1, <1>4
  <1>9. ToSet(f) = S
    BY <1>7, <1>8 DEF Surjection, ToSet
  <1>. QED  BY <1>8, <1>9 DEF f, n

\* The elements of two sequences put together.
LEMMA ToSetConcat ==
    ASSUME NEW S, NEW s \in Seq(S), NEW t \in Seq(S)
    PROVE  ToSet(s \o t) = ToSet(s) \cup ToSet(t)
  <1>1. /\ Len(s) \in Nat /\ Len(t) \in Nat
        /\ DOMAIN s = 1 .. Len(s) /\ DOMAIN t = 1 .. Len(t)
    BY LenProperties
  <1>2. /\ s \o t \in Seq(S) /\ Len(s \o t) = Len(s) + Len(t)
        /\ \A i \in 1 .. Len(s) + Len(t) : (s \o t)[i] = IF i <= Len(s) THEN s[i] ELSE t[i - Len(s)]
    BY ConcatProperties
  <1>3. DOMAIN (s \o t) = 1 .. Len(s) + Len(t)
    BY <1>2, LenProperties
  <1>4. ASSUME NEW x \in ToSet(s \o t)
        PROVE  x \in ToSet(s) \cup ToSet(t)
    <2>1. PICK i \in 1 .. Len(s) + Len(t) : x = (s \o t)[i]
      BY <1>3 DEF ToSet
    <2>2. i <= Len(s) => i \in 1 .. Len(s)
      BY <1>1
    <2>3. ~ (i <= Len(s)) => i - Len(s) \in 1 .. Len(t)
      BY <1>1
    <2>. QED  BY <1>1, <1>2, <2>1, <2>2, <2>3 DEF ToSet
  <1>5. ASSUME NEW i \in 1 .. Len(s)
        PROVE  s[i] \in ToSet(s \o t)
    <2>1. i \in 1 .. Len(s) + Len(t) /\ i <= Len(s)
      BY <1>1
    <2>. QED  BY <1>2, <1>3, <2>1 DEF ToSet
  <1>6. ASSUME NEW i \in 1 .. Len(t)
        PROVE  t[i] \in ToSet(s \o t)
    <2>1. i + Len(s) \in 1 .. Len(s) + Len(t) /\ ~ (i + Len(s) <= Len(s)) /\ (i + Len(s)) - Len(s) = i
      BY <1>1
    <2>2. (s \o t)[i + Len(s)] = t[i]
      BY <1>2, <2>1
    <2>. QED  BY <1>3, <2>1, <2>2 DEF ToSet
  <1>. QED  BY <1>1, <1>4, <1>5, <1>6 DEF ToSet

\* The elements of a sequence are its first and those of the rest.
LEMMA ToSetHeadTail ==
    ASSUME NEW S, NEW s \in Seq(S), s # << >>
    PROVE  ToSet(s) = {Head(s)} \cup ToSet(Tail(s))
  <1>1. /\ Len(s) \in Nat \ {0} /\ DOMAIN s = 1 .. Len(s)
    BY LenProperties, EmptySeq
  <1>2. /\ Tail(s) \in Seq(S) /\ Len(Tail(s)) = Len(s) - 1
        /\ \A i \in 1 .. Len(Tail(s)) : Tail(s)[i] = s[i + 1]
    BY HeadTailProperties
  <1>3. DOMAIN Tail(s) = 1 .. Len(s) - 1
    BY <1>2, LenProperties
  <1>4. Head(s) = s[1] /\ 1 \in 1 .. Len(s)
    BY <1>1
  <1>5. ASSUME NEW i \in 1 .. Len(s)
        PROVE  s[i] \in {Head(s)} \cup ToSet(Tail(s))
    <2>1. CASE i = 1
      BY <1>4, <2>1
    <2>2. CASE i # 1
      <3>1. i - 1 \in 1 .. Len(s) - 1 /\ (i - 1) + 1 = i
        BY <1>1, <2>2
      <3>. QED  BY <1>2, <1>3, <3>1 DEF ToSet
    <2>. QED  BY <2>1, <2>2
  <1>6. ASSUME NEW i \in 1 .. Len(s) - 1
        PROVE  Tail(s)[i] \in ToSet(s)
    <2>1. i + 1 \in 1 .. Len(s)
      BY <1>1
    <2>. QED  BY <1>1, <1>2, <2>1 DEF ToSet
  <1>. QED  BY <1>1, <1>3, <1>4, <1>5, <1>6 DEF ToSet

\* Sequences put together are a sequence of their elements.
LEMMA FlattenType ==
    ASSUME NEW S, NEW seqs \in Seq(Seq(S))
    PROVE  FlattenSeq(seqs) \in Seq(S)
  <1>. DEFINE n == Len(seqs)
              V == Seq(S)
              Rec(r) == [k \in 1 .. n |-> IF k = 1 THEN seqs[k] ELSE r[k - 1] \o seqs[k]]
              R == CHOOSE r : r = [k \in 1 .. n |-> IF k = 1 THEN seqs[k] ELSE r[k - 1] \o seqs[k]]
              next == [x \in (1 .. n) \X V |-> x[2] \o seqs[x[1]]]
  <1>1. n \in Nat /\ << >> \in V /\ \A k \in 1 .. n : seqs[k] \in V
    BY LenProperties, ElementOfSeq
  <1>2. FlattenSeq(seqs) = IF n = 0 THEN seqs ELSE R[n]
    BY DEF FlattenSeq
  <1>3. \A k \in 1 .. n, s \in V : s \o seqs[k] \in V
    BY <1>1, ConcatProperties
  <1>4. n = 0 => seqs \in V
    <2>1. n = 0 => seqs = << >>
      BY EmptySeq
    <2>. QED  BY <1>1, <2>1
  <1>. HIDE DEF V
  <1>5. /\ next \in [(1 .. n) \X V -> V]
        /\ \A k \in 1 .. n, s \in V : next[<<k, s>>] = s \o seqs[k]
    <2>. HIDE DEF n
    <2>. QED  BY <1>3
  <1>. HIDE DEF next, n
  <1>6. R = Rec(R)
    <2>8. PICK f \in [0 .. n -> V] : Iterates(f, n, << >>, next)
      BY <1>1, <1>5, RecursionExists
    <2>1. f[0] = << >> /\ \A k \in 1 .. n : f[k] = next[<<k, f[k - 1]>>]
      BY <2>8 DEF Iterates
    <2>. DEFINE g == [k \in 1 .. n |-> f[k]]
    <2>2. ASSUME NEW k \in 1 .. n
          PROVE  g[k] = Rec(g)[k]
      <3>9. k - 1 \in 0 .. n /\ (k # 1 => k - 1 \in 1 .. n)
        BY <1>1
      <3>1. f[k] = f[k - 1] \o seqs[k]
        <4>1. f[k - 1] \in V
          BY <2>8, <3>9
        <4>. QED  BY <1>5, <2>1, <4>1
      <3>2. CASE k = 1
        <4>1. f[k] = << >> \o seqs[k]
          <5>1. k - 1 = 0
            BY <3>2
          <5>. QED  BY <2>1, <3>1, <5>1
        <4>2. << >> \o seqs[k] = seqs[k]
          BY <1>1, ConcatEmptySeq DEF V
        <4>. QED  BY <3>2, <4>1, <4>2
      <3>3. CASE k # 1
        BY <3>9, <3>1, <3>3
      <3>. QED  BY <3>2, <3>3
    <2>3. g = Rec(g)
      <3>1. Rec(g) = [k \in 1 .. n |-> Rec(g)[k]] /\ g = [k \in 1 .. n |-> g[k]]
        OBVIOUS
      <3>. HIDE DEF Rec, g
      <3>. QED  BY <2>2, <3>1
    <2>. QED  BY <2>3 DEF R
  <1>. HIDE DEF R
  <1>7. \A k \in 1 .. n : R[k] = IF k = 1 THEN seqs[k] ELSE R[k - 1] \o seqs[k]
    BY <1>6
  <1>. HIDE DEF Rec
  <1>. DEFINE T == {k \in 0 .. n : k # 0 => R[k] \in V}
  <1>8. n \in T
    <2>1. 0 \in T
      BY <1>1
    <2>2. ASSUME NEW k \in 1 .. n, k - 1 \in T
          PROVE  k \in T
      <3>1. k \in 0 .. n /\ (k # 1 => R[k - 1] \in V)
        BY <1>1, <2>2
      <3>. QED  BY <1>1, <1>3, <1>7, <3>1
    <2>. HIDE DEF T
    <2>3. \A k \in 0 .. n : k \in T
      BY <1>1, <2>1, <2>2, UpTo
    <2>. QED  BY <1>1, <2>3
  <1>. QED  BY <1>2, <1>4, <1>8 DEF V

\* What is left of a finite set without a part of it.
LEMMA PartRemoved ==
    ASSUME NEW A, IsFiniteSet(A), NEW B \in SUBSET A
    PROVE  /\ Cardinality(A \ B) = Cardinality(A) - Cardinality(B)
           /\ Cardinality(A) \in Nat /\ Cardinality(B) \in Nat /\ Cardinality(A \ B) \in Nat
  <1>1. IsFiniteSet(B) /\ IsFiniteSet(A \ B)
    BY FS_Subset
  <1>2. (A \ B) \cup B = A /\ (A \ B) \cap B = {}
    OBVIOUS
  <1>3. Cardinality(A) = Cardinality(A \ B) + Cardinality(B) - Cardinality({})
    BY <1>1, <1>2, FS_Union
  <1>. QED  BY <1>1, <1>3, FS_CardinalityType, FS_EmptySet

-----------------------------------------------------------------------------
(* The selection of elements from a sequence.                              *)

\* kept is the elements up to k of a sequence that are in a set.
SelectedUpTo(kept, seq, wanted, k) ==
    /\ (\A j \in 1 .. k : seq[j] \in wanted) =>
          Len(kept) = k /\ \A j \in 1 .. k : kept[j] = seq[j]
    /\ kept # << >> =>
          \E j \in 1 .. k :
              /\ seq[j] \in wanted /\ Last(kept) = seq[j]
              /\ \A i \in 1 .. k : i > j => seq[i] \notin wanted

\* kept has no other element than those up to k of a sequence that are in a set, and
\* has all of them.
SelectedFrom(kept, seq, wanted, k) ==
    /\ \A i \in 1 .. Len(kept) : kept[i] \in wanted
    /\ \A j \in 1 .. k : seq[j] \in wanted => \E i \in 1 .. Len(kept) : kept[i] = seq[j]

\* One more element.
LEMMA SelectedFromMore ==
    ASSUME NEW S, NEW seq \in Seq(S), NEW wanted, NEW k \in 1 .. Len(seq), NEW kept \in Seq(S),
           SelectedFrom(kept, seq, wanted, k - 1),
           NEW more, more = IF seq[k] \in wanted THEN Append(kept, seq[k]) ELSE kept
    PROVE  SelectedFrom(more, seq, wanted, k)
  <1>1. k \in Nat /\ \A j \in 1 .. k : j \in 1 .. k - 1 \/ j = k
    OBVIOUS
  <1>2. CASE seq[k] \in wanted
    <2>1. seq[k] \in S
      BY ElementOfSeq
    <2>2. /\ Len(kept) \in Nat /\ Len(more) = Len(kept) + 1
          /\ \A j \in 1 .. Len(kept) : more[j] = kept[j]
          /\ more[Len(kept) + 1] = seq[k]
      BY <1>2, <2>1, AppendProperties, LenProperties
    <2>3. \A i \in 1 .. Len(more) : i \in 1 .. Len(kept) \/ i = Len(kept) + 1
      BY <2>2
    <2>4. \A i \in 1 .. Len(more) : more[i] \in wanted
      BY <1>2, <2>2, <2>3 DEF SelectedFrom
    <2>5. ASSUME NEW j \in 1 .. k, seq[j] \in wanted
          PROVE  \E i \in 1 .. Len(more) : more[i] = seq[j]
      <3>1. CASE j = k
        <4>1. Len(kept) + 1 \in 1 .. Len(more)
          BY <2>2
        <4>. QED  BY <2>2, <3>1, <4>1
      <3>2. CASE j \in 1 .. k - 1
        <4>1. PICK i \in 1 .. Len(kept) : kept[i] = seq[j]
          BY <2>5, <3>2 DEF SelectedFrom
        <4>2. i \in 1 .. Len(more) /\ more[i] = kept[i]
          BY <2>2
        <4>. QED  BY <4>1, <4>2
      <3>. QED  BY <1>1, <3>1, <3>2
    <2>. QED  BY <2>4, <2>5 DEF SelectedFrom
  <1>3. CASE seq[k] \notin wanted
    BY <1>1, <1>3 DEF SelectedFrom
  <1>. QED  BY <1>2, <1>3

\* One more element.
LEMMA SelectedMore ==
    ASSUME NEW S, NEW seq \in Seq(S), NEW wanted, NEW k \in 1 .. Len(seq), NEW kept \in Seq(S),
           SelectedUpTo(kept, seq, wanted, k - 1),
           NEW more, more = IF seq[k] \in wanted THEN Append(kept, seq[k]) ELSE kept
    PROVE  SelectedUpTo(more, seq, wanted, k)
  <1>1. k \in Nat /\ k - 1 \in Nat /\ \A j : j \in 1 .. k <=> j \in 1 .. k - 1 \/ j = k
    OBVIOUS
  <1>2. \A j \in 1 .. k - 1 : ~ (j > k) /\ k > j /\ j \in Nat
    BY <1>1
  <1>3. CASE seq[k] \in wanted
    <2>1. seq[k] \in S
      BY ElementOfSeq
    <2>2. more = Append(kept, seq[k])
      BY <1>3
    <2>3. /\ Len(kept) \in Nat /\ Len(more) = Len(kept) + 1 /\ more # << >>
          /\ \A j \in 1 .. Len(kept) : more[j] = kept[j]
          /\ more[Len(kept) + 1] = seq[k]
      BY <2>1, <2>2, AppendProperties, LenProperties
    <2>4. Last(more) = seq[k]
      BY <2>3 DEF Last
    <2>5. ASSUME \A j \in 1 .. k : seq[j] \in wanted
          PROVE  Len(more) = k /\ \A j \in 1 .. k : more[j] = seq[j]
      <3>1. Len(kept) = k - 1 /\ \A j \in 1 .. k - 1 : kept[j] = seq[j]
        BY <1>1, <2>5 DEF SelectedUpTo
      <3>. QED  BY <1>1, <2>3, <3>1
    <2>6. /\ k \in 1 .. k /\ seq[k] \in wanted /\ Last(more) = seq[k]
          /\ \A i \in 1 .. k : i > k => seq[i] \notin wanted
      BY <1>1, <1>3, <2>4
    <2>. QED  BY <2>5, <2>6 DEF SelectedUpTo
  <1>4. CASE seq[k] \notin wanted
    <2>1. more = kept
      BY <1>4
    <2>2. ASSUME more # << >>
          PROVE  \E j \in 1 .. k :
                     /\ seq[j] \in wanted /\ Last(more) = seq[j]
                     /\ \A i \in 1 .. k : i > j => seq[i] \notin wanted
      <3>1. PICK j \in 1 .. k - 1 :
               /\ seq[j] \in wanted /\ Last(more) = seq[j]
               /\ \A i \in 1 .. k - 1 : i > j => seq[i] \notin wanted
        BY <2>1, <2>2 DEF SelectedUpTo
      <3>2. j \in 1 .. k /\ \A i \in 1 .. k : i > j => seq[i] \notin wanted
        BY <1>1, <1>4, <3>1
      <3>. QED  BY <3>1, <3>2
    <2>3. ~ (\A j \in 1 .. k : seq[j] \in wanted)
      BY <1>1, <1>4
    <2>. QED  BY <2>2, <2>3 DEF SelectedUpTo
  <1>. QED  BY <1>3, <1>4

\* The selection from a sequence.
LEMMA SelectProperties ==
    ASSUME NEW S, NEW seq \in Seq(S), NEW wanted
    PROVE  /\ Select(seq, wanted) \in Seq(S)
           /\ SelectedUpTo(Select(seq, wanted), seq, wanted, Len(seq))
           /\ SelectedFrom(Select(seq, wanted), seq, wanted, Len(seq))
  <1>. DEFINE n == Len(seq)
              Add(k, m) == IF seq[k] \in wanted THEN Append(m, seq[k]) ELSE m
              step == [x \in (1 .. n) \X Seq(S) |-> Add(x[1], x[2])]
              Rec(it) == [r \in SUBSET (1 .. n) |->
                      IF r = {} THEN << >> ELSE Add(Max(r), it[r \ {Max(r)}])]
              I == CHOOSE it : it = [r \in SUBSET (1 .. n) |->
                      IF r = {} THEN << >> ELSE Add(Max(r), it[r \ {Max(r)}])]
  <1>1. n \in Nat /\ DOMAIN seq = 1 .. n /\ \A k \in 1 .. n : seq[k] \in S
    BY LenProperties, ElementOfSeq
  <1>2. Select(seq, wanted) = I[1 .. n]
    <2>1. DOMAIN seq = 1 .. n
      BY <1>1
    <2>. HIDE DEF n
    <2>. QED  BY <2>1 DEF Select, FoldLeft, MapThenFoldSet
  <1>3. \A k \in 1 .. n, m \in Seq(S) : Add(k, m) \in Seq(S)
    <2>. SUFFICES ASSUME NEW k \in 1 .. n, NEW m \in Seq(S)
                  PROVE  Add(k, m) \in Seq(S)
      OBVIOUS
    <2>1. seq[k] \in S
      BY <1>1
    <2>2. Append(m, seq[k]) \in Seq(S)
      BY <2>1
    <2>. QED  BY <2>2
  <1>4. \A k \in 1 .. n, m \in Seq(S) : step[<<k, m>>] = Add(k, m)
    OBVIOUS
  <1>5. step \in [(1 .. n) \X Seq(S) -> Seq(S)]
    <2>. HIDE DEF Add, n
    <2>. QED  BY <1>3
  <1>. HIDE DEF n, Add, step
  <1>6. I = Rec(I)
    <2>0. << >> \in Seq(S)
      OBVIOUS
    <2>1. PICK it \in [SUBSET (1 .. n) -> Seq(S)] : FoldsLeft(it, n, << >>, step)
      BY <1>1, <1>5, <2>0, LeftFoldExists
    <2>2. ASSUME NEW r \in SUBSET (1 .. n)
          PROVE  it[r] = Rec(it)[r]
      <3>1. r # {} => Max(r) \in 1 .. n
        BY <1>1, MaxInside
      <3>2. it[r] = IF r = {} THEN << >> ELSE step[<<Max(r), it[r \ {Max(r)}]>>]
        BY <2>1 DEF FoldsLeft
      <3>. QED  BY <1>4, <3>1, <3>2
    <2>3. it = Rec(it)
      <3>1. Rec(it) = [r \in SUBSET (1 .. n) |-> Rec(it)[r]]
        OBVIOUS
      <3>2. it = [r \in SUBSET (1 .. n) |-> it[r]]
        OBVIOUS
      <3>. HIDE DEF Rec
      <3>. QED  BY <2>2, <3>1, <3>2
    <2>. QED  BY <2>3 DEF I
  <1>. HIDE DEF I
  <1>7. \A r \in SUBSET (1 .. n) : I[r] = IF r = {} THEN << >> ELSE Add(Max(r), I[r \ {Max(r)}])
    BY <1>6
  <1>. HIDE DEF Rec
  <1>8. FoldsWithin(I, n, Seq(S), << >>, step)
    <2>1. I[{}] = << >>
      <3>1. {} \in SUBSET (1 .. n)
        OBVIOUS
      <3>. QED  BY <1>7, <3>1
    <2>2. ASSUME NEW r \in SUBSET (1 .. n), r # {}, I[r \ {Max(r)}] \in Seq(S)
          PROVE  I[r] = step[<<Max(r), I[r \ {Max(r)}]>>]
      <3>1. Max(r) \in 1 .. n
        BY <1>1, <2>2, MaxInside
      <3>. QED  BY <1>4, <1>7, <2>2, <3>1
    <2>. QED  BY <2>1, <2>2 DEF FoldsWithin
  <1>9. PICK f : Passes(f, n, Seq(S), << >>, step, I[1 .. n])
    <2>1. << >> \in Seq(S)
      OBVIOUS
    <2>. QED  BY <1>1, <1>5, <1>8, <2>1, FoldPrefixes
  <1>10. /\ f \in [0 .. n -> Seq(S)] /\ f[0] = << >> /\ f[n] = I[1 .. n]
         /\ \A k \in 1 .. n : f[k] = Add(k, f[k - 1])
    <2>1. \A k \in 1 .. n : k - 1 \in 0 .. n
      BY <1>1
    <2>. QED  BY <1>4, <1>9, <2>1 DEF Passes
  <1>. DEFINE T == {k \in 0 .. n : /\ SelectedUpTo(f[k], seq, wanted, k)
                              /\ SelectedFrom(f[k], seq, wanted, k)}
  <1>11. 0 \in T
    <2>1. Len(<< >>) = 0 /\ 1 .. 0 = {}
      OBVIOUS
    <2>2. SelectedUpTo(<< >>, seq, wanted, 0) /\ SelectedFrom(<< >>, seq, wanted, 0)
      BY <2>1 DEF SelectedUpTo, SelectedFrom
    <2>. QED  BY <1>1, <1>10, <2>2
  <1>12. ASSUME NEW k \in 1 .. n, k - 1 \in T
         PROVE  k \in T
    <2>1. PICK kept \in Seq(S) : kept = f[k - 1]
      BY <1>10, <1>12
    <2>2. PICK more : more = f[k]
      OBVIOUS
    <2>3. more = IF seq[k] \in wanted THEN Append(kept, seq[k]) ELSE kept
      BY <1>10, <2>1, <2>2 DEF Add
    <2>4. SelectedUpTo(kept, seq, wanted, k - 1) /\ SelectedFrom(kept, seq, wanted, k - 1)
      BY <1>12, <2>1
    <2>5. k \in 1 .. Len(seq)
      BY DEF n
    <2>6. SelectedUpTo(more, seq, wanted, k)
      BY <2>1, <2>3, <2>4, <2>5, SelectedMore
    <2>7. SelectedFrom(more, seq, wanted, k)
      BY <2>1, <2>3, <2>4, <2>5, SelectedFromMore
    <2>. QED  BY <1>1, <2>2, <2>6, <2>7
  <1>. HIDE DEF T
  <1>13. \A k \in 0 .. n : k \in T
    BY <1>1, <1>11, <1>12, UpTo
  <1>14. n \in T
    BY <1>1, <1>13
  <1>. QED  BY <1>1, <1>2, <1>10, <1>14 DEF T, n

\* A sequence of which everything is wanted.
LEMMA SelectAll ==
    ASSUME NEW S, NEW seq \in Seq(S), NEW wanted, ToSet(seq) \subseteq wanted
    PROVE  Select(seq, wanted) = seq
  <1>1. \A j \in 1 .. Len(seq) : seq[j] \in wanted
    BY DEF ToSet
  <1>2. PICK kept \in Seq(S) : kept = Select(seq, wanted)
    BY SelectProperties
  <1>3. SelectedUpTo(kept, seq, wanted, Len(seq))
    BY <1>2, SelectProperties
  <1>4. Len(kept) = Len(seq) /\ \A j \in 1 .. Len(seq) : kept[j] = seq[j]
    BY <1>1, <1>3 DEF SelectedUpTo
  <1>5. kept = seq
    BY <1>4, SeqEqual
  <1>. QED  BY <1>2, <1>5

-----------------------------------------------------------------------------

\* it sums up w over each subset of D, adding the element ch picks to the rest.
SumsUp(it, D, w, ch) ==
    \A s \in SUBSET D : it[s] = IF s = {} THEN 0 ELSE w[ch[s]] + it[s \ {ch[s]}]

\* it sums up w over each subset of D, adding any one element to the rest.
SumsUpAnyhow(it, D, w) ==
    \A s \in SUBSET D : it[s] \in Int /\ \A x \in s : it[s] = w[x] + it[s \ {x}]

\* A sum over the subsets of a finite set, whichever element ch picks next.
LEMMA SumExists ==
    ASSUME NEW D, IsFiniteSet(D), NEW w \in [D -> Int], NEW ch, Picks(ch, D)
    PROVE  \E it \in [SUBSET D -> Int] : SumsUp(it, D, w, ch)
  <1>. DEFINE step == [p \in D \X Int |-> w[p[1]] + p[2]]
  <1>1. step \in [D \X Int -> Int] /\ 0 \in Int
    OBVIOUS
  <1>2. \A x \in D, y \in Int : step[<<x, y>>] = w[x] + y
    OBVIOUS
  <1>. HIDE DEF step
  <1>3. PICK it \in [SUBSET D -> Int] : Recurses(it, D, 0, step, ch)
    BY <1>1, FoldExists
  <1>4. ASSUME NEW s \in SUBSET D
        PROVE  it[s] = IF s = {} THEN 0 ELSE w[ch[s]] + it[s \ {ch[s]}]
    <2>1. it[s] = IF s = {} THEN 0 ELSE step[<<ch[s], it[s \ {ch[s]}]>>]
      BY <1>3 DEF Recurses
    <2>2. CASE s # {}
      <3>1. ch[s] \in D /\ s \ {ch[s]} \in SUBSET D
        BY <2>2 DEF Picks
      <3>2. it[s \ {ch[s]}] \in Int
        BY <3>1
      <3>3. step[<<ch[s], it[s \ {ch[s]}]>>] = w[ch[s]] + it[s \ {ch[s]}]
        BY <1>2, <3>1, <3>2
      <3>. QED  BY <2>1, <2>2, <3>3
    <2>. QED  BY <2>1, <2>2
  <1>. QED  BY <1>4 DEF SumsUp

\* Taking any other element first gives the same sum.
LEMMA SumAnyOrder ==
    ASSUME NEW D, IsFiniteSet(D), NEW w \in [D -> Int], NEW ch, Picks(ch, D), NEW it,
           SumsUp(it, D, w, ch)
    PROVE  SumsUpAnyhow(it, D, w)
  <1>1. \A s \in SUBSET D : it[s] = IF s = {} THEN 0 ELSE w[ch[s]] + it[s \ {ch[s]}]
    BY DEF SumsUp
  <1>2. \A s \in SUBSET D : s # {} => ch[s] \in s
    BY DEF Picks
  <1>. DEFINE Good(s) == it[s] \in Int /\ \A x \in s : it[s] = w[x] + it[s \ {x}]
              Bad == {s \in SUBSET D : ~Good(s)}
  <1>3. SUFFICES Bad = {}
    BY DEF SumsUpAnyhow
  <1>4. SUFFICES ASSUME Bad # {} PROVE FALSE
    OBVIOUS
  <1>5. PICK s \in Bad : \A r \in Bad : Cardinality(s) <= Cardinality(r)
    <2>1. Bad \subseteq SUBSET D
      OBVIOUS
    <2>. HIDE DEF Bad
    <2>. QED  BY <1>4, <2>1, SmallestSubset
  <1>6. s \in SUBSET D /\ ~Good(s)
    OBVIOUS
  <1>7. ASSUME NEW r \in SUBSET s, r # s
        PROVE  Good(r)
    <2>1. IsFiniteSet(s)
      BY <1>6, FS_Subset
    <2>2. Cardinality(r) < Cardinality(s) /\ Cardinality(r) \in Nat /\ Cardinality(s) \in Nat
      BY <1>7, <2>1, FS_Subset, FS_CardinalityType
    <2>3. ~(Cardinality(s) <= Cardinality(r))
      BY <2>2
    <2>4. r \notin Bad
      <3>. HIDE DEF Bad
      <3>. QED  BY <1>5, <2>3
    <2>5. r \in SUBSET D
      BY <1>6
    <2>. HIDE DEF Good
    <2>. QED  BY <2>4, <2>5
  <1>8. s # {}
    <2>. SUFFICES ASSUME s = {} PROVE FALSE
      OBVIOUS
    <2>1. it[s] = 0
      BY <1>1, <1>6
    <2>. QED  BY <1>6, <2>1
  <1>. DEFINE c == ch[s]
  <1>9. c \in s /\ it[s] = w[c] + it[s \ {c}] /\ s \in SUBSET D
    BY <1>1, <1>2, <1>6, <1>8
  <1>. HIDE DEF c, Bad
  <1>10. Good(s \ {c})
    <2>. HIDE DEF Good
    <2>. QED  BY <1>7, <1>9
  <1>11. it[s] \in Int
    BY <1>9, <1>10
  <1>12. ASSUME NEW x \in s
         PROVE  it[s] = w[x] + it[s \ {x}]
    <2>1. CASE x = c
      BY <1>9, <2>1
    <2>2. CASE x # c
      <3>1. x \in s \ {c} /\ c \in s \ {x} /\ (s \ {c}) \ {x} = (s \ {x}) \ {c}
        BY <1>9, <2>2
      <3>2. Good(s \ {x}) /\ Good((s \ {x}) \ {c})
        <4>1. s \ {x} \in SUBSET s /\ s \ {x} # s
          OBVIOUS
        <4>2. (s \ {x}) \ {c} \in SUBSET s /\ (s \ {x}) \ {c} # s
          OBVIOUS
        <4>3. Good(s \ {x})
          <5>. HIDE DEF Good
          <5>. QED  BY <1>7, <4>1
        <4>4. Good((s \ {x}) \ {c})
          <5>. HIDE DEF Good
          <5>. QED  BY <1>7, <4>2
        <4>. QED  BY <4>3, <4>4
      <3>3. it[s \ {c}] = w[x] + it[(s \ {c}) \ {x}]
        BY <1>10, <3>1
      <3>4. it[s \ {x}] = w[c] + it[(s \ {x}) \ {c}]
        BY <3>1, <3>2
      <3>5. w[x] \in Int /\ w[c] \in Int /\ it[(s \ {x}) \ {c}] \in Int
        BY <1>9, <3>2
      <3>6. it[s \ {c}] = w[x] + it[(s \ {x}) \ {c}]
        BY <3>1, <3>3
      <3>. HIDE DEF Good
      <3>7. it[s] = w[c] + (w[x] + it[(s \ {x}) \ {c}])
        BY <1>9, <3>6
      <3>8. w[c] + (w[x] + it[(s \ {x}) \ {c}]) = w[x] + (w[c] + it[(s \ {x}) \ {c}])
        BY <3>5
      <3>. QED  BY <3>4, <3>7, <3>8
    <2>. QED  BY <2>1, <2>2
  <1>. QED  BY <1>6, <1>11, <1>12
===============================================================================
