---------------------------- MODULE NamingProofs -----------------------------
(***************************************************************************)
(* What the naming of files keeps for any headers, prompts and backends,   *)
(* any length names are cut to and any order of turns and restarts: first  *)
(* facts about places in a sequence, then sanitize, then the files.        *)
(***************************************************************************)
EXTENDS Naming, FiniteSetTheorems, WellFoundedInduction, TLAPS

-----------------------------------------------------------------------------
(***************************************************************************)
(* Least and greatest numbers.                                             *)
(***************************************************************************)

\* Every set of naturals has a least element.
LEMMA LeastNat ==
    ASSUME NEW S \in SUBSET Nat, S # {}
    PROVE  \E m \in S : \A n \in S : m <= n
<1> DEFINE UpTo(k) == S \cap (0..k)
           Cuts == {UpTo(k) : k \in S}
<1>1. Cuts \subseteq FiniteSubsetsOf(Nat) /\ Cuts # {}
  <2>1. ASSUME NEW k \in S PROVE IsFiniteSet(UpTo(k)) /\ UpTo(k) \in SUBSET Nat
    <3>1. IsFiniteSet(0..k)
      BY FS_Interval
    <3>2. UpTo(k) \in SUBSET (0..k)
      OBVIOUS
    <3> QED BY <3>1, <3>2, FS_Subset
  <2> QED BY <2>1 DEF FiniteSubsetsOf
<1>2. PICK T \in Cuts :
          \A U \in Cuts : ~(<<U, T>> \in StrictSubsetOrdering(Nat))
  BY <1>1, FS_StrictSubsetOrderingWellFounded, WFMin
<1>3. PICK m \in S : T = UpTo(m)
  OBVIOUS
<1>4. ASSUME NEW n \in S, n < m PROVE FALSE
  <2>1. UpTo(n) \in Cuts /\ UpTo(n) \subseteq T /\ m \in T /\ m \notin UpTo(n)
    BY <1>3, <1>4
  <2> QED BY <1>2, <1>3, <2>1 DEF StrictSubsetOrdering
<1> QED BY <1>4

\* A bounded one has a greatest, which Max finds.
LEMMA GreatestNat ==
    ASSUME NEW S \in SUBSET Nat, S # {}, NEW n \in Nat, \A x \in S : x <= n
    PROVE  Max(S) \in S /\ \A x \in S : x <= Max(S)
<1> DEFINE Bounds == {b \in Nat : \A x \in S : x <= b}
<1>1. PICK b \in Bounds : \A c \in Bounds : b <= c
  <2>1. n \in Bounds
    OBVIOUS
  <2> QED BY <2>1, LeastNat
<1>2. b \in S
  <2>1. SUFFICES ASSUME b \notin S PROVE FALSE
    OBVIOUS
  <2>2. \A x \in S : x \in Nat /\ x <= b /\ x # b
    BY <2>1
  <2>3. \A x \in S : x <= b - 1
    BY <2>2
  <2>4. b - 1 \in Nat
    <3>1. PICK x \in S : TRUE
      OBVIOUS
    <3>2. x \in Nat /\ x <= b /\ x # b /\ b \in Nat
      BY <2>2
    <3> QED BY <3>2
  <2>5. b - 1 \in Bounds
    BY <2>3, <2>4
  <2> QED BY <1>1, <2>5
<1> QED BY <1>1, <1>2 DEF Max

-----------------------------------------------------------------------------
(***************************************************************************)
(* Places.  Rank counts the places up to one, so it rises by one at each;  *)
(* Place is its inverse, and lists the places from left to right.          *)
(***************************************************************************)

\* A set of places has as many as it counts up to the last, and none at 0.
LEMMA RankStep ==
    ASSUME NEW n \in Nat, NEW I \in SUBSET (1..n)
    PROVE  /\ IsFiniteSet(I) /\ Cardinality(I) \in Nat
           /\ Rank(I, 0) = 0 /\ Rank(I, n) = Cardinality(I)
           /\ \A i \in 0..n : Rank(I, i) \in Nat
           /\ \A i \in 1..n :
                  Rank(I, i) = Rank(I, i - 1) + (IF i \in I THEN 1 ELSE 0)
<1>0. \A j \in I : j \in Nat /\ 1 <= j /\ j <= n
  OBVIOUS
<1>1. IsFiniteSet(I) /\ Cardinality(I) \in Nat
  <2>1. IsFiniteSet(1..n)
    BY FS_Interval
  <2> QED BY <2>1, FS_Subset, FS_CardinalityType
<1>2. \A i \in 0..n : IsFiniteSet({j \in I : j <= i}) /\ Rank(I, i) \in Nat
  <2>1. ASSUME NEW i \in 0..n
        PROVE  IsFiniteSet({j \in I : j <= i}) /\ Rank(I, i) \in Nat
    <3>1. IsFiniteSet({j \in I : j <= i})
      BY <1>1, FS_Subset
    <3> QED BY <3>1, FS_CardinalityType DEF Rank
  <2> QED BY <2>1
<1>3. Rank(I, 0) = 0
  <2>0. \A j \in I : ~(j <= 0)
    BY <1>0
  <2>1. {j \in I : j <= 0} = {}
    BY <2>0
  <2> QED BY <2>1, FS_EmptySet DEF Rank
<1>4. Rank(I, n) = Cardinality(I)
  <2>1. {j \in I : j <= n} = I
    BY <1>0
  <2> QED BY <2>1 DEF Rank
<1>5. ASSUME NEW i \in 1..n
      PROVE  Rank(I, i) = Rank(I, i - 1) + (IF i \in I THEN 1 ELSE 0)
  <2>1. CASE i \in I
    <3>1. \A j \in I : j <= i <=> j <= i - 1 \/ j = i
      BY <1>0
    <3>2. {j \in I : j <= i} = {j \in I : j <= i - 1} \cup {i}
      BY <2>1, <3>1
    <3>3. i \notin {j \in I : j <= i - 1} /\ i - 1 \in 0..n
      OBVIOUS
    <3>4. IsFiniteSet({j \in I : j <= i - 1})
      BY <1>2, <3>3
    <3>5. Cardinality({j \in I : j <= i}) = Cardinality({j \in I : j <= i - 1}) + 1
      BY <3>2, <3>3, <3>4, FS_AddElement
    <3> QED BY <2>1, <3>5 DEF Rank
  <2>2. CASE i \notin I
    <3>1. \A j \in I : j <= i <=> j <= i - 1
      BY <1>0, <2>2
    <3>2. {j \in I : j <= i} = {j \in I : j <= i - 1}
      BY <3>1
    <3>3. i - 1 \in 0..n
      OBVIOUS
    <3> QED BY <1>2, <2>2, <3>2, <3>3 DEF Rank
  <2> QED BY <2>1, <2>2
<1> QED BY <1>1, <1>2, <1>3, <1>4, <1>5

\* Counting to the right counts more, and strictly so past a place.
LEMMA RankGrows ==
    ASSUME NEW n \in Nat, NEW I \in SUBSET (1..n), NEW i \in 0..n, NEW j \in 0..n
    PROVE  /\ i <= j => Rank(I, i) <= Rank(I, j)
           /\ i < j /\ j \in I => Rank(I, i) < Rank(I, j)
<1> DEFINE UpTo(k) == {l \in I : l <= k}
<1>1. IsFiniteSet(UpTo(j)) /\ Rank(I, i) \in Nat /\ Rank(I, j) \in Nat
  BY RankStep, FS_Subset
<1>2. \A l \in I : l \in Nat
  OBVIOUS
<1>3. ASSUME i <= j PROVE UpTo(i) \in SUBSET UpTo(j)
  <2>1. \A l \in I : l <= i => l <= j
    BY <1>2, <1>3
  <2> QED BY <2>1
<1>4. i < j /\ j \in I => UpTo(i) # UpTo(j)
  <2>1. i < j /\ j \in I => j \in UpTo(j) /\ j \notin UpTo(i)
    OBVIOUS
  <2> QED BY <2>1
<1>5. i <= j => Cardinality(UpTo(i)) <= Cardinality(UpTo(j))
  BY <1>1, <1>3, FS_Subset
<1>6. i < j /\ j \in I => Cardinality(UpTo(i)) # Cardinality(UpTo(j))
  <2>1. UpTo(i) \in SUBSET UpTo(j) /\ Cardinality(UpTo(i)) = Cardinality(UpTo(j))
            => UpTo(i) = UpTo(j)
    BY <1>1, FS_Subset
  <2> QED BY <1>3, <1>4, <2>1
<1>7. Rank(I, i) = Cardinality(UpTo(i)) /\ Rank(I, j) = Cardinality(UpTo(j))
  BY DEF Rank
<1> HIDE DEF UpTo
<1> QED BY <1>1, <1>5, <1>6, <1>7

\* Place and Rank are each other's inverse.
LEMMA Places ==
    ASSUME NEW n \in Nat, NEW I \in SUBSET (1..n)
    PROVE  /\ \A k \in 1..Cardinality(I) : Place(I, k) \in I /\ Rank(I, Place(I, k)) = k
           /\ \A i \in I : Rank(I, i) \in 1..Cardinality(I) /\ Place(I, Rank(I, i)) = i
<1>0. /\ Cardinality(I) \in Nat /\ Rank(I, 0) = 0 /\ Rank(I, n) = Cardinality(I)
      /\ \A i \in 0..n : Rank(I, i) \in Nat
      /\ \A i \in 1..n : Rank(I, i) = Rank(I, i - 1) + (IF i \in I THEN 1 ELSE 0)
  BY RankStep
<1>1. ASSUME NEW k \in 1..Cardinality(I)
      PROVE  Place(I, k) \in I /\ Rank(I, Place(I, k)) = k
  <2> DEFINE Reaching == {i \in 0..n : Rank(I, i) >= k}
  <2>1. Reaching \in SUBSET Nat /\ n \in Reaching
    BY <1>0
  <2>2. PICK m \in Reaching : \A i \in Reaching : m <= i
    BY <2>1, LeastNat
  <2>3. m \in 1..n
    BY <1>0, <2>2
  <2>4. m - 1 \in 0..n /\ m - 1 \notin Reaching
    BY <2>2, <2>3
  <2>5. Rank(I, m - 1) < k
    BY <1>0, <2>4
  <2>6. m \in I /\ Rank(I, m) = k
    BY <1>0, <2>2, <2>3, <2>4, <2>5
  <2> QED BY <2>6 DEF Place
<1>2. ASSUME NEW i \in I
      PROVE  Rank(I, i) \in 1..Cardinality(I) /\ Place(I, Rank(I, i)) = i
  <2>0. i \in 1..n
    OBVIOUS
  <2>1. Rank(I, i) \in 1..Cardinality(I)
    <3>1. Rank(I, 0) < Rank(I, i) /\ Rank(I, i) <= Rank(I, n)
      BY <2>0, RankGrows
    <3> QED BY <1>0, <2>0, <3>1
  <2>2. PICK j : j = Place(I, Rank(I, i))
    OBVIOUS
  <2>3. j \in I /\ Rank(I, j) = Rank(I, i)
    BY <1>1, <2>1, <2>2
  <2>4. ~(j < i) /\ ~(i < j)
    <3>1. j \in 0..n /\ i \in 0..n /\ Rank(I, i) \in Nat
      BY <1>0, <2>0, <2>3
    <3> QED BY <2>3, <3>1, RankGrows
  <2> QED BY <2>0, <2>1, <2>2, <2>3, <2>4
<1> QED BY <1>1, <1>2

\* Places keep their order.
LEMMA PlacesInOrder ==
    ASSUME NEW n \in Nat, NEW I \in SUBSET (1..n),
           NEW k \in 1..Cardinality(I), NEW l \in 1..Cardinality(I)
    PROVE  Place(I, k) <= Place(I, l) <=> k <= l
<1>1. /\ Place(I, k) \in I /\ Rank(I, Place(I, k)) = k
      /\ Place(I, l) \in I /\ Rank(I, Place(I, l)) = l
  BY Places
<1>2. Place(I, k) \in 0..n /\ Place(I, l) \in 0..n
  <2>1. \A i \in I : i \in 0..n
    OBVIOUS
  <2> QED BY <1>1, <2>1
<1>3. Cardinality(I) \in Nat
  BY RankStep
<1>4. Place(I, k) <= Place(I, l) => k <= l
  BY <1>1, <1>2, RankGrows
<1>5. Place(I, l) < Place(I, k) => l < k
  BY <1>1, <1>2, RankGrows
<1> QED BY <1>2, <1>3, <1>4, <1>5

\* The places of I at the places of J.
PlacesAt(I, J) == {Place(I, k) : k \in J}

LEMMA PlacesOfPlaces ==
    ASSUME NEW n \in Nat, NEW I \in SUBSET (1..n),
           NEW J \in SUBSET (1..Cardinality(I))
    PROVE  /\ Cardinality(PlacesAt(I, J)) = Cardinality(J)
           /\ \A m \in 1..Cardinality(J) :
                  Place(PlacesAt(I, J), m) = Place(I, Place(J, m))
<1> DEFINE K == {Place(I, k) : k \in J}
<1>0. /\ Cardinality(I) \in Nat /\ Cardinality(J) \in Nat
      /\ IsFiniteSet(I) /\ IsFiniteSet(J)
  BY RankStep
<1>1. K \in SUBSET I /\ K \in SUBSET (1..n)
  <2>1. \A k \in J : Place(I, k) \in I
    BY Places
  <2> QED BY <2>1
<1>2. \A k, l \in J : Place(I, k) <= Place(I, l) <=> k <= l
  BY PlacesInOrder
<1>3. ASSUME NEW P, P \in SUBSET J
      PROVE  Cardinality({Place(I, k) : k \in P}) = Cardinality(P)
  <2> DEFINE f == [k \in P |-> Place(I, k)]
             Q == {Place(I, k) : k \in P}
  <2>1. \A k, l \in P : Place(I, k) = Place(I, l) => k = l
    <3>1. \A k \in P : Rank(I, Place(I, k)) = k
      BY <1>3, Places
    <3> QED BY <3>1
  <2>2. f \in Bijection(P, Q)
    BY <2>1 DEF Bijection, Injection, Surjection, IsInjective
  <2>3. IsFiniteSet(P)
    BY <1>0, <1>3, FS_Subset
  <2> QED BY <2>2, <2>3, FS_Bijection DEF ExistsBijection
<1>4. Cardinality(K) = Cardinality(J)
  BY <1>3
<1>5. ASSUME NEW k \in J PROVE Rank(K, Place(I, k)) = Rank(J, k)
  <2> DEFINE P == {l \in J : l <= k}
  <2>1. {i \in K : i <= Place(I, k)} = {Place(I, l) : l \in P}
    BY <1>2
  <2> QED BY <1>3, <2>1 DEF Rank
<1>6. ASSUME NEW m \in 1..Cardinality(J)
      PROVE  Place(K, m) = Place(I, Place(J, m))
  <2>1. Place(J, m) \in J /\ Rank(J, Place(J, m)) = m
    BY <1>0, Places
  <2>2. Place(I, Place(J, m)) \in K /\ Rank(K, Place(I, Place(J, m))) = m
    BY <1>5, <2>1
  <2> HIDE DEF K
  <2>3. Place(K, Rank(K, Place(I, Place(J, m)))) = Place(I, Place(J, m))
    BY <1>1, <2>2, Places
  <2> QED BY <2>2, <2>3
<1> QED BY <1>4, <1>6 DEF PlacesAt

\* What Keep returns.
LEMMA Kept ==
    ASSUME NEW S, NEW s \in Seq(S), NEW I \in SUBSET (1..Len(s))
    PROVE  /\ Keep(s, I) \in Seq(S) /\ Len(Keep(s, I)) = Cardinality(I)
           /\ DOMAIN Keep(s, I) = 1..Cardinality(I)
           /\ \A k \in 1..Cardinality(I) : Keep(s, I)[k] = s[Place(I, k)]
<1>1. Len(s) \in Nat /\ Cardinality(I) \in Nat
  BY RankStep
<1>2. \A k \in 1..Cardinality(I) : Place(I, k) \in I
  BY <1>1, Places
<1>3. \A k \in 1..Cardinality(I) : s[Place(I, k)] \in S
  <2>1. \A i \in I : s[i] \in S
    BY <1>1
  <2> QED BY <1>2, <2>1
<1>4. Keep(s, I) \in [1..Cardinality(I) -> S]
  BY <1>3 DEF Keep
<1> QED BY <1>1, <1>4 DEF Keep

\* Keeping all of a sequence changes nothing.
LEMMA KeepAll ==
    ASSUME NEW S, NEW s \in Seq(S)
    PROVE  Keep(s, 1..Len(s)) = s
<1> DEFINE n == Len(s)
           I == 1..n
<1>0. \A m \in Nat : Cardinality(1..m) = m
  <2>1. \A m \in Nat : Cardinality(1..m) = IF 1 > m THEN 0 ELSE m - 1 + 1
    BY FS_Interval
  <2> QED BY <2>1
<1>1. n \in Nat /\ Cardinality(I) = n
  BY <1>0
<1>2. ASSUME NEW k \in 1..n PROVE Place(I, k) = k
  <2>1. {j \in I : j <= k} = 1..k
    BY <1>1
  <2>2. Rank(I, k) = k
    <3>1. Rank(I, k) = Cardinality(1..k)
      BY <2>1 DEF Rank
    <3> QED BY <1>0, <1>1, <3>1
  <2> HIDE DEF I
  <2>3. Place(I, Rank(I, k)) = k
    BY <1>1, Places DEF I
  <2> QED BY <2>2, <2>3
<1>3. /\ Keep(s, I) \in Seq(S) /\ Len(Keep(s, I)) = n
      /\ \A k \in 1..n : Keep(s, I)[k] = s[Place(I, k)]
  BY <1>1, Kept
<1> QED BY <1>2, <1>3

\* Keeping twice is keeping what both keep.
LEMMA KeepTwice ==
    ASSUME NEW S, NEW s \in Seq(S), NEW I \in SUBSET (1..Len(s)),
           NEW J \in SUBSET (1..Cardinality(I))
    PROVE  Keep(Keep(s, I), J) = Keep(s, PlacesAt(I, J))
<1>1. Len(s) \in Nat /\ Cardinality(I) \in Nat
  BY RankStep
<1>2. /\ Cardinality(PlacesAt(I, J)) = Cardinality(J)
      /\ \A m \in 1..Cardinality(J) :
             Place(PlacesAt(I, J), m) = Place(I, Place(J, m))
  BY <1>1, PlacesOfPlaces
<1>3. \A k \in 1..Cardinality(I) : Keep(s, I)[k] = s[Place(I, k)]
  BY Kept
<1>4. \A m \in 1..Cardinality(J) : Place(J, m) \in 1..Cardinality(I)
  BY <1>1, Places
<1>5. \A m \in 1..Cardinality(J) :
          Keep(s, I)[Place(J, m)] = s[Place(PlacesAt(I, J), m)]
  BY <1>2, <1>3, <1>4
<1>6. [k \in 1..Cardinality(J) |-> Keep(s, I)[Place(J, k)]]
          = [k \in 1..Cardinality(PlacesAt(I, J)) |-> s[Place(PlacesAt(I, J), k)]]
  BY <1>2, <1>5
<1> QED BY <1>6 DEF Keep

-----------------------------------------------------------------------------
(***************************************************************************)
(* sanitize.  One turn of its while loop drops every second dot of a run:  *)
(* where a run begins stays where a run begins, so that what is left when  *)
(* every run is down to its first dot is the same before and after.        *)
(***************************************************************************)

\* Dots are counted from the beginning of their run.
LEMMA DotsCounted ==
    ASSUME NEW S, NEW s \in Seq(S), NEW i \in 1..Len(s)
    PROVE  /\ DotsAt(s, i) \in Nat
           /\ s[i] # "." => DotsAt(s, i) = 0
           /\ s[i] = "." /\ i = 1 => DotsAt(s, i) = 1
           /\ s[i] = "." /\ i > 1 => DotsAt(s, i) = DotsAt(s, i - 1) + 1
<1> DEFINE Others(k) == {0} \cup {j \in 1..k : s[j] # "."}
<1>0. i \in Nat /\ i >= 1
  OBVIOUS
<1>1. Max(Others(i)) \in Others(i) /\ \A x \in Others(i) : x <= Max(Others(i))
  <2>1. Others(i) \in SUBSET Nat /\ Others(i) # {} /\ \A x \in Others(i) : x <= i
    BY <1>0
  <2> HIDE DEF Others
  <2> QED BY <1>0, <2>1, GreatestNat
<1>2. DotsAt(s, i) = i - Max(Others(i))
  BY DEF DotsAt
<1>3. DotsAt(s, i) \in Nat
  <2>1. Max(Others(i)) \in 0..i
    BY <1>1
  <2> QED BY <1>0, <1>2, <2>1
<1>4. CASE s[i] # "."
  <2>1. i \in Others(i) /\ Others(i) \subseteq 0..i
    BY <1>0, <1>4
  <2>2. Max(Others(i)) = i
    BY <1>0, <1>1, <2>1
  <2> QED BY <1>0, <1>2, <1>3, <1>4, <2>2
<1>5. CASE s[i] = "." /\ i = 1
  <2>1. Others(i) = {0}
    BY <1>5
  <2> QED BY <1>1, <1>2, <1>3, <1>5, <2>1
<1>6. CASE s[i] = "." /\ i > 1
  <2>1. \A j \in 1..i : s[j] # "." <=> j \in 1..(i - 1) /\ s[j] # "."
    BY <1>0, <1>6
  <2>2. Others(i) = Others(i - 1)
    BY <1>0, <2>1
  <2>3. DotsAt(s, i - 1) = (i - 1) - Max(Others(i - 1))
    BY DEF DotsAt
  <2>4. Max(Others(i)) \in Nat
    BY <1>1
  <2> HIDE DEF Others
  <2>5. i - Max(Others(i)) = ((i - 1) - Max(Others(i))) + 1
    BY <1>0, <2>4
  <2>6. DotsAt(s, i) = DotsAt(s, i - 1) + 1
    BY <1>2, <2>2, <2>3, <2>5
  <2> QED BY <1>0, <1>3, <1>6, <2>6
<1> QED BY <1>0, <1>3, <1>4, <1>5, <1>6

\* The beginnings of runs stay, and no dot after another becomes one.
LEMMA FirstsStay ==
    ASSUME NEW S, NEW s \in Seq(S)
    PROVE  PlacesAt(Odds(s), Firsts(ReplacePairs(s))) = Firsts(s)
<1> DEFINE n == Len(s)
           O == Odds(s)
           t == ReplacePairs(s)
<1>0. /\ n \in Nat /\ DOMAIN s = 1..n /\ O \in SUBSET (1..n)
      /\ t \in Seq(S) /\ DOMAIN t = 1..Cardinality(O) /\ Cardinality(O) \in Nat
      /\ \A k \in 1..Cardinality(O) : t[k] = s[Place(O, k)]
  <2>1. O \in SUBSET (1..Len(s))
    BY DEF Odds
  <2> QED BY <2>1, Kept, RankStep DEF ReplacePairs
<1>1. \A i \in 1..n : i \in O <=> (s[i] = "." => DotsAt(s, i) % 2 = 1)
  BY <1>0 DEF Odds
<1>2. \A i \in 1..n : i \in Firsts(s) <=> (i = 1 \/ s[i] # "." \/ s[i - 1] # ".")
  BY <1>0 DEF Firsts
<1>3. Firsts(s) \subseteq O
  <2>1. ASSUME NEW i \in 1..n, i = 1 \/ s[i] # "." \/ s[i - 1] # "." PROVE i \in O
    <3>1. s[i] = "." => DotsAt(s, i) = 1
      BY <2>1, DotsCounted
    <3> QED BY <1>1, <3>1
  <2> QED BY <1>0, <1>2, <2>1 DEF Firsts
<1>4. /\ \A i \in 0..n : Rank(O, i) \in Nat
      /\ Rank(O, 0) = 0
      /\ \A i \in 1..n : Rank(O, i) = Rank(O, i - 1) + (IF i \in O THEN 1 ELSE 0)
  BY <1>0, RankStep
<1>5. /\ \A k \in 1..Cardinality(O) : Place(O, k) \in O /\ Rank(O, Place(O, k)) = k
      /\ \A i \in O : Rank(O, i) \in 1..Cardinality(O) /\ Place(O, Rank(O, i)) = i
  BY <1>0, Places
<1>6. ASSUME NEW i \in O
      PROVE  Rank(O, i) \in Firsts(t) <=> i \in Firsts(s)
  <2> DEFINE k == Rank(O, i)
  <2>0. /\ i \in 1..n /\ k \in 1..Cardinality(O) /\ Place(O, k) = i /\ t[k] = s[i]
        /\ k = Rank(O, i - 1) + 1
    BY <1>0, <1>4, <1>5
  <2>1. k \in Firsts(t) <=> (k = 1 \/ s[i] # "." \/ t[k - 1] # ".")
    BY <1>0, <2>0 DEF Firsts
  <2>2. i \in Firsts(s) <=> (i = 1 \/ s[i] # "." \/ s[i - 1] # ".")
    BY <1>2, <2>0
  <2>3. i \in Nat /\ 1 <= i /\ i <= n /\ k \in Nat
    BY <1>0, <2>0
  <2> SUFFICES k \in Firsts(t) <=> i \in Firsts(s)
    OBVIOUS
  <2> HIDE DEF t, O, n, k
  <2>4. CASE i = 1
    BY <1>4, <2>0, <2>1, <2>2, <2>4
  <2>5. CASE s[i] # "."
    BY <2>1, <2>2, <2>5
  <2>6. CASE i > 1 /\ s[i] = "."
    <3>0. i - 1 \in 1..n /\ i - 1 \in 0..n /\ (i - 1) - 1 = i - 2
      BY <1>0, <2>3, <2>6
    <3>1. CASE s[i - 1] # "."
      <4>1. i - 1 \in O
        BY <1>1, <3>0, <3>1
      <4>2. Rank(O, i - 1) \in 1..Cardinality(O) /\ Place(O, Rank(O, i - 1)) = i - 1
        BY <1>5, <4>1
      <4>3. Rank(O, i - 1) = k - 1
        BY <1>4, <2>0, <2>3, <3>0
      <4>4. t[k - 1] = s[i - 1]
        BY <1>0, <4>2, <4>3
      <4> QED BY <2>1, <2>2, <3>1, <4>4
    <3>2. CASE s[i - 1] = "."
      <4>1. /\ DotsAt(s, i) = DotsAt(s, i - 1) + 1 /\ DotsAt(s, i - 1) \in Nat
            /\ DotsAt(s, i) % 2 = 1
        BY <1>1, <2>0, <2>6, <3>0, DotsCounted DEF n
      <4>2. DotsAt(s, i - 1) % 2 = 0
        <5> DEFINE d == DotsAt(s, i - 1)
        <5> HIDE DEF d
        <5>1. d \in Nat /\ (d + 1) % 2 = 1 => d % 2 = 0
          OBVIOUS
        <5> QED BY <4>1, <5>1 DEF d
      <4>3. i - 1 \notin O /\ DotsAt(s, i - 1) # 1
        BY <1>1, <3>0, <3>2, <4>2
      <4>4. i - 1 # 1
        BY <3>0, <3>2, <4>3, DotsCounted DEF n
      <4>5. i - 2 \in 1..n /\ i - 2 \in 0..n /\ i - 1 > 1
        BY <1>0, <2>3, <2>6, <4>4
      <4>6. DotsAt(s, i - 1) = DotsAt(s, i - 2) + 1
        BY <3>0, <3>2, <4>5, DotsCounted DEF n
      <4>7. DotsAt(s, i - 2) \in Nat /\ (s[i - 2] # "." => DotsAt(s, i - 2) = 0)
        BY <4>5, DotsCounted DEF n
      <4>8. s[i - 2] = "."
        BY <4>3, <4>6, <4>7
      <4>9. DotsAt(s, i - 2) % 2 = 1
        <5> DEFINE d == DotsAt(s, i - 2)
        <5> HIDE DEF d
        <5>1. d \in Nat /\ (d + 1) % 2 = 0 => d % 2 = 1
          OBVIOUS
        <5> QED BY <4>2, <4>6, <4>7, <5>1 DEF d
      <4>10. i - 2 \in O
        BY <1>1, <4>5, <4>9
      <4>11. Rank(O, i - 2) \in 1..Cardinality(O) /\ Place(O, Rank(O, i - 2)) = i - 2
        BY <1>5, <4>10
      <4>12. Rank(O, i - 2) = k - 1
        BY <1>4, <2>0, <2>3, <3>0, <4>3, <4>5
      <4>13. t[k - 1] = s[i - 2] /\ k # 1
        BY <1>0, <2>3, <4>11, <4>12
      <4> QED BY <2>1, <2>2, <2>6, <3>2, <4>8, <4>13
    <3> QED BY <3>1, <3>2
  <2> QED BY <2>3, <2>4, <2>5, <2>6
<1>7. Firsts(t) \subseteq 1..Cardinality(O)
  BY <1>0 DEF Firsts
<1> HIDE DEF O, t, n
<1>8. ASSUME NEW k \in Firsts(t) PROVE Place(O, k) \in Firsts(s)
  BY <1>5, <1>6, <1>7
<1>9. ASSUME NEW i \in Firsts(s) PROVE \E k \in Firsts(t) : i = Place(O, k)
  BY <1>3, <1>5, <1>6
<1> QED BY <1>8, <1>9 DEF PlacesAt, O, t

\* So what is left of a sequence with every run down to its first dot does
\* not change when every second dot goes.
LEMMA CollapsedStays ==
    ASSUME NEW S, NEW s \in Seq(S)
    PROVE  Collapsed(ReplacePairs(s)) = Collapsed(s)
<1>1. Odds(s) \in SUBSET (1..Len(s))
  BY DEF Odds
<1>2. DOMAIN ReplacePairs(s) = 1..Cardinality(Odds(s))
  BY <1>1, Kept DEF ReplacePairs
<1>3. Firsts(ReplacePairs(s)) \in SUBSET (1..Cardinality(Odds(s)))
  BY <1>2 DEF Firsts
<1>4. Keep(Keep(s, Odds(s)), Firsts(ReplacePairs(s))) = Keep(s, Firsts(s))
  BY <1>1, <1>3, KeepTwice, FirstsStay
<1> QED BY <1>4 DEF Collapsed, ReplacePairs

\* And with no two dots in a row nothing is left to do.
LEMMA NoPairCollapsed ==
    ASSUME NEW S, NEW s \in Seq(S), ~HasPair(s)
    PROVE  Collapsed(s) = s
<1>1. DOMAIN s = 1..Len(s) /\ Len(s) \in Nat
  OBVIOUS
<1>2. ASSUME NEW i \in 1..Len(s) PROVE i \in Firsts(s)
  <2>1. i # 1 => i - 1 \in 1..(Len(s) - 1) /\ (i - 1) + 1 = i
    BY <1>1
  <2>2. i # 1 => ~(s[i - 1] = "." /\ s[i] = ".")
    BY <2>1 DEF HasPair
  <2> QED BY <1>1, <2>2 DEF Firsts
<1>3. Firsts(s) = 1..Len(s)
  BY <1>1, <1>2 DEF Firsts
<1> QED BY <1>3, KeepAll DEF Collapsed

\* A turn of the loop leaves something, of the same characters.
LEMMA ReplacedNotEmpty ==
    ASSUME NEW S, NEW s \in Seq(S), s # <<>>
    PROVE  ReplacePairs(s) \in Seq(S) /\ ReplacePairs(s) # <<>>
<1>1. Odds(s) \in SUBSET (1..Len(s))
  BY DEF Odds
<1>2. 1 \in 1..Len(s) /\ DOMAIN s = 1..Len(s) /\ Len(s) \in Nat
  OBVIOUS
<1>3. s[1] = "." => DotsAt(s, 1) = 1
  BY <1>2, DotsCounted
<1>4. 1 \in Odds(s)
  BY <1>2, <1>3 DEF Odds
<1>5. Rank(Odds(s), 1) \in 1..Cardinality(Odds(s)) /\ Cardinality(Odds(s)) \in Nat
  BY <1>1, <1>2, <1>4, Places, RankStep
<1> QED BY <1>1, <1>5, Kept DEF ReplacePairs

\* Of two dots in a row one goes.
LEMMA PairsGo ==
    ASSUME NEW S, NEW s \in Seq(S), HasPair(s)
    PROVE  Len(ReplacePairs(s)) < Len(s)
<1>0. Len(s) \in Nat /\ Odds(s) \in SUBSET (1..Len(s))
  BY DEF Odds
<1>1. PICK i \in 1..(Len(s) - 1) : s[i] = "." /\ s[i + 1] = "."
  BY DEF HasPair
<1>2. i \in 1..Len(s) /\ i + 1 \in 1..Len(s) /\ i + 1 > 1 /\ (i + 1) - 1 = i
  BY <1>0
<1>3. DotsAt(s, i) \in Nat /\ DotsAt(s, i + 1) = DotsAt(s, i) + 1
  BY <1>1, <1>2, DotsCounted
<1>4. ~(DotsAt(s, i) % 2 = 1 /\ DotsAt(s, i + 1) % 2 = 1)
  <2> DEFINE d == DotsAt(s, i)
  <2> HIDE DEF d
  <2>1. d \in Nat => ~(d % 2 = 1 /\ (d + 1) % 2 = 1)
    OBVIOUS
  <2> QED BY <1>3, <2>1 DEF d
<1>5. Odds(s) # 1..Len(s)
  BY <1>1, <1>2, <1>4 DEF Odds
<1>6. IsFiniteSet(1..Len(s)) /\ Cardinality(1..Len(s)) = Len(s)
  <2>1. Cardinality(1..Len(s)) = IF 1 > Len(s) THEN 0 ELSE Len(s) - 1 + 1
    BY <1>0, FS_Interval
  <2>2. IsFiniteSet(1..Len(s))
    BY <1>0, FS_Interval
  <2> QED BY <1>0, <2>1, <2>2
<1>7. /\ Cardinality(Odds(s)) <= Len(s) /\ Cardinality(Odds(s)) # Len(s)
      /\ Cardinality(Odds(s)) \in Nat
  BY <1>0, <1>5, <1>6, FS_Subset, FS_CardinalityType
<1>8. Len(ReplacePairs(s)) = Cardinality(Odds(s))
  BY <1>0, Kept DEF ReplacePairs
<1> QED BY <1>0, <1>7, <1>8

\* Every character becomes a safe one.
LEMMA Mapped ==
    ASSUME NEW s \in Seq(STRING), s # <<>>
    PROVE  MapChars(s) \in Seq(Safe) /\ MapChars(s) # <<>>
<1>1. MapChars(s) \in [1..Len(s) -> Safe]
  <2>1. DOMAIN s = 1..Len(s)
    OBVIOUS
  <2>2. "-" \in Safe
    BY DEF Safe
  <2>3. \A i \in 1..Len(s) : (IF s[i] \in Safe THEN s[i] ELSE "-") \in Safe
    BY <2>2
  <2> QED BY <2>1, <2>3 DEF MapChars
<1> QED BY <1>1

\* Cutting keeps the characters and the absence of pairs.
LEMMA Truncated ==
    ASSUME NEW s \in Seq(Safe), s # <<>>, ~HasPair(s)
    PROVE  /\ Len(Truncate(s)) \in 1..Cap
           /\ \A i \in DOMAIN Truncate(s) : Truncate(s)[i] \in Safe
           /\ ~HasPair(Truncate(s))
<1> DEFINE m == IF Len(s) < Cap THEN Len(s) ELSE Cap
<1>1. m \in 1..Cap /\ m <= Len(s) /\ m \in Nat /\ Cap \in Nat
  BY CapAssumption
<1>2. Truncate(s) = SubSeq(s, 1, m)
  BY DEF Truncate
<1> HIDE DEF m
<1>3. /\ Len(Truncate(s)) = m /\ DOMAIN Truncate(s) = 1..m
      /\ \A i \in 1..m : Truncate(s)[i] = s[i] /\ i \in 1..Len(s)
  BY <1>1, <1>2
<1>4. ~HasPair(Truncate(s))
  <2>1. \A i \in 1..(m - 1) :
            /\ Truncate(s)[i] = s[i] /\ Truncate(s)[i + 1] = s[i + 1]
            /\ i \in 1..(Len(s) - 1)
    BY <1>1, <1>3
  <2> QED BY <1>3, <2>1 DEF HasPair
<1> QED BY <1>1, <1>3, <1>4

-----------------------------------------------------------------------------
(***************************************************************************)
(* The names.                                                              *)
(***************************************************************************)

\* While the loop runs, what is left of the header with every run down to
\* its first dot is what it was; once it has run, that is what is there.
NameInv ==
    /\ pc \in {"idle", "collapse", "keyed"}
    /\ request \in Requests
    /\ pc = "collapse" =>
           /\ Readable(request) /\ out \in Seq(Safe) /\ out # <<>>
           /\ Collapsed(out) = Collapsed(MapChars(request.header))
    /\ SafeNames

LEMMA NameInit == Init => NameInv
BY DEF Init, NameInv, SafeNames

LEMMA NameStep == NameInv /\ [Next]_vars => NameInv'
<1> SUFFICES ASSUME NameInv, [Next]_vars PROVE NameInv'
  OBVIOUS
<1>1. ASSUME NEW r \in Requests, Arrive(r) PROVE NameInv'
  <2>1. CASE Readable(r)
    <3>1. r.header \in Seq(STRING) /\ r.header # <<>>
      BY <2>1, RequestsAssumption DEF Readable
    <3>2. MapChars(r.header) \in Seq(Safe) /\ MapChars(r.header) # <<>>
      BY <3>1, Mapped
    <3> QED BY <1>1, <2>1, <3>2 DEF Arrive, NameInv, SafeNames
  <2>2. CASE ~Readable(r)
    BY <1>1, <2>2 DEF Arrive, NameInv, SafeNames
  <2> QED BY <2>1, <2>2
<1>2. CASE Collapse
  <2>1. /\ pc = "collapse" /\ pc' = pc /\ request' = request
        /\ out' = ReplacePairs(out) /\ out \in Seq(Safe) /\ out # <<>>
        /\ Readable(request) /\ request \in Requests
        /\ Collapsed(out) = Collapsed(MapChars(request.header))
    BY <1>2 DEF Collapse, NameInv
  <2>2. out' \in Seq(Safe) /\ out' # <<>> /\ Collapsed(out') = Collapsed(out)
    BY <2>1, ReplacedNotEmpty, CollapsedStays
  <2> QED BY <2>1, <2>2 DEF NameInv, SafeNames
<1>3. CASE Shorten
  <2>1. /\ pc' = "keyed" /\ request' = request /\ out' = Truncate(out)
        /\ ~HasPair(out) /\ out \in Seq(Safe) /\ out # <<>>
        /\ Readable(request) /\ request \in Requests
        /\ Collapsed(out) = Collapsed(MapChars(request.header))
    BY <1>3 DEF Shorten, NameInv
  <2>2. out' = Canonical(request.header)
    BY <2>1, NoPairCollapsed DEF Canonical
  <2>3. /\ Len(out') \in 1..Cap /\ ~HasPair(out')
        /\ \A i \in DOMAIN out' : out'[i] \in Safe
    BY <2>1, Truncated
  <2> QED BY <2>1, <2>2, <2>3 DEF NameInv, SafeNames
<1>4. CASE Save
  BY <1>4 DEF Save, NameInv, SafeNames
<1>5. CASE Evict
  BY <1>5 DEF Evict, NameInv, SafeNames
<1>6. ASSUME NEW b \in Backends, Start(b) PROVE NameInv'
  BY <1>6 DEF Start, NameInv, SafeNames
<1>7. CASE UNCHANGED vars
  BY <1>7 DEF vars, NameInv, SafeNames
<1> QED BY <1>1, <1>2, <1>3, <1>4, <1>5, <1>6, <1>7 DEF Next

LEMMA NameInvariant == Spec => []NameInv
<1> QED BY NameInit, NameStep, PTL DEF Spec

\* "A safe filename component (no '/', no '..', length-capped)": for a header
\* of any characters and any length, sanitize returns safe characters with no
\* two dots in a row, at least one and at most as many as names are cut to;
\* and, whatever the number of turns its loop took, the header with every run
\* of dots down to one, cut.
THEOREM NamesAreSafe == Spec => []SafeNames
<1>1. NameInv => SafeNames
  BY DEF NameInv
<1> QED BY <1>1, NameInvariant, PTL

\* A turn of the loop leaves less than there was.
Shortens == pc = "collapse" /\ pc' = "collapse" /\ out' # out => Len(out') < Len(out)

\* "while s.contains("..")" in sanitize ends: for a header of any length each
\* of its turns leaves less of it.
THEOREM LoopShortens == Spec => [][Shortens]_vars
<1>1. NameInv /\ [Next]_vars => Shortens
  <2> SUFFICES ASSUME NameInv, [Next]_vars, pc = "collapse", pc' = "collapse", out' # out
               PROVE  Len(out') < Len(out)
    BY DEF Shortens
  <2>1. Collapse
    BY DEF Next, Arrive, Shorten, Save, Evict, Start, vars
  <2> QED BY <2>1, PairsGo DEF Collapse, NameInv
<1> QED BY <1>1, NameInvariant, PTL DEF Spec

-----------------------------------------------------------------------------
(***************************************************************************)
(* The files.                                                              *)
(***************************************************************************)

\* The key a conversation's turns come to.
KeyOf(r) == SessionKey(r, Canonical(r.header))

\* Every file is named after the key of the turn it was written for.
KeyInv ==
    /\ NameInv
    /\ \A b \in blobs : b.by \in Requests /\ b.name = BlobName(KeyOf(b.by), b.name[2])

\* And after the signature of the backend it was written under.
SignedInv ==
    /\ backend \in Backends /\ sig = Signature(backend)
    /\ \A b \in blobs : b.under \in Backends /\ b.name[2] = Signature(b.under)

LEMMA KeyOfName == NameInv /\ pc = "keyed" => SessionKey(request, out) = KeyOf(request)
BY DEF NameInv, SafeNames, KeyOf, SessionKey

LEMMA KeyInvariant == Spec => []KeyInv
<1>1. Init => KeyInv
  BY NameInit DEF Init, KeyInv
<1>2. NameInv' /\ KeyInv /\ [Next]_vars => KeyInv'
  <2> SUFFICES ASSUME NameInv', KeyInv, [Next]_vars PROVE KeyInv'
    OBVIOUS
  <2>1. CASE Save
    <3>1. KeyOf(request) = SessionKey(request, out) /\ request \in Requests
      BY <2>1, KeyOfName DEF KeyInv, NameInv, Save
    <3>2. Name = BlobName(KeyOf(request), sig) /\ Name[2] = sig
      BY <3>1 DEF Name, BlobName
    <3>3. ASSUME NEW b \in blobs'
          PROVE  b.by \in Requests /\ b.name = BlobName(KeyOf(b.by), b.name[2])
      <4>1. b \in blobs \/ b = [name |-> Name, by |-> request, under |-> backend]
        BY <2>1 DEF Save
      <4> QED BY <3>1, <3>2, <4>1 DEF KeyInv
    <3> QED BY <3>3 DEF KeyInv
  <2>2. CASE Evict
    BY <2>2 DEF Evict, KeyInv
  <2>3. CASE blobs' = blobs
    BY <2>3 DEF KeyInv
  <2> QED BY <2>1, <2>2, <2>3 DEF Next, Arrive, Collapse, Shorten, Start, vars
<1> QED BY <1>1, <1>2, NameInvariant, PTL DEF Spec

LEMMA SignedInvariant == Upsets = {} => (Spec => []SignedInv)
<1> SUFFICES ASSUME Upsets = {} PROVE Spec => []SignedInv
  OBVIOUS
<1>1. Init => SignedInv
  BY DEF Init, SignedInv
<1>2. SignedInv /\ [Next]_vars => SignedInv'
  <2> SUFFICES ASSUME SignedInv, [Next]_vars PROVE SignedInv'
    OBVIOUS
  <2>1. CASE Save
    <3>1. Name[2] = sig
      BY DEF Name, BlobName
    <3>2. ASSUME NEW b \in blobs'
          PROVE  b.under \in Backends /\ b.name[2] = Signature(b.under)
      <4>1. b \in blobs \/ b = [name |-> Name, by |-> request, under |-> backend]
        BY <2>1 DEF Save
      <4> QED BY <3>1, <4>1 DEF SignedInv
    <3> QED BY <2>1, <3>2 DEF SignedInv, Save
  <2>2. CASE Evict
    BY <2>2 DEF Evict, SignedInv
  <2>3. ASSUME NEW b \in Backends, Start(b) PROVE SignedInv'
    BY <2>3 DEF Start, SignedInv
  <2>4. CASE UNCHANGED <<backend, sig, blobs>>
    BY <2>4 DEF SignedInv
  <2> QED BY <2>1, <2>2, <2>3, <2>4 DEF Next, Arrive, Collapse, Shorten, vars
<1> QED BY <1>1, <1>2, PTL DEF Spec

\* A file that is found has the name that is looked up.
LEMMA FoundKey ==
    ASSUME KeyInv, NEW b \in Found
    PROVE  KeyOf(b.by) = KeyOf(request) /\ b.by \in Requests /\ request \in Requests
<1>1. b \in blobs /\ pc = "keyed" /\ b.name = Name
  BY DEF Found
<1>2. BlobName(KeyOf(b.by), b.name[2]) = BlobName(KeyOf(request), sig)
  BY <1>1, KeyOfName DEF KeyInv, Name
<1>3. KeyOf(b.by) = KeyOf(request)
  BY <1>2 DEF BlobName
<1> QED BY <1>1, <1>3 DEF KeyInv, NameInv

LEMMA FoundSigned ==
    ASSUME KeyInv, SignedInv, NEW b \in Found
    PROVE  /\ Signature(b.under) = Signature(backend)
           /\ b.under \in Backends /\ backend \in Backends
BY DEF Found, SignedInv, Name, BlobName

\* sanitize leaves a header alone that is a safe name as it stands.
LEMMA PlainKept ==
    ASSUME NEW r \in Requests, Plain(r)
    PROVE  Canonical(r.header) = r.header
<1>1. /\ r.header \in Seq(STRING) /\ ~HasPair(r.header) /\ Len(r.header) <= Cap
      /\ \A i \in DOMAIN r.header : r.header[i] \in Safe
  BY RequestsAssumption DEF Plain
<1>2. MapChars(r.header) = r.header
  <2>1. /\ r.header = [i \in 1..Len(r.header) |-> r.header[i]]
        /\ DOMAIN r.header = 1..Len(r.header)
    BY <1>1
  <2> QED BY <1>1, <2>1 DEF MapChars
<1>3. Truncate(r.header) = r.header
  <2>1. SubSeq(r.header, 1, Len(r.header)) = r.header
    BY <1>1
  <2>2. (IF Len(r.header) < Cap THEN Len(r.header) ELSE Cap) = Len(r.header)
    BY <1>1, CapAssumption
  <2> QED BY <2>1, <2>2 DEF Truncate
<1>4. r.header \in Seq(Safe)
  BY <1>1
<1> QED BY <1>1, <1>2, <1>3, <1>4, NoPairCollapsed DEF Canonical

\* Requests that are told apart have different keys.
LEMMA DistinctKeys ==
    ASSUME NEW q \in Requests, NEW r \in Requests, Distinct(q, r)
    PROVE  KeyOf(q) # KeyOf(r)
<1>1. "hdr" # "conv"
  OBVIOUS
<1>2. CASE ~(Readable(q) <=> Readable(r))
  BY <1>1, <1>2 DEF KeyOf, SessionKey
<1>3. CASE Plain(q) /\ Plain(r) /\ q.header # r.header
  BY <1>3, PlainKept DEF KeyOf, SessionKey, Plain
<1>4. CASE ~Readable(q) /\ ~Readable(r) /\ q.prompt # r.prompt
  BY <1>4 DEF KeyOf, SessionKey
<1> QED BY <1>2, <1>3, <1>4 DEF Distinct

\* "Distinct conversations ... stay isolated", for every header, every prompt
\* and every length names are cut to, also while backends are replaced alone
\* or do not answer a starting proxy: mapping, collapsing and cutting never
\* make a request find a file of one its client has told apart from it.
THEOREM DistinctKeptApart == Spec => []Isolation
<1>1. KeyInv => Isolation
  BY FoundKey, DistinctKeys DEF Isolation
<1> QED BY <1>1, KeyInvariant, PTL

\* Joined sequences that agree at one end agree in the rest.
LEMMA CancelRight ==
    ASSUME NEW S, NEW p \in Seq(S), NEW q \in Seq(S), NEW t \in Seq(S), p \o t = q \o t
    PROVE  p = q
<1>1. Len(p) = Len(q)
  OBVIOUS
<1>2. \A i \in 1..Len(p) : p[i] = q[i]
  <2> SUFFICES ASSUME NEW i \in 1..Len(p) PROVE p[i] = q[i]
    OBVIOUS
  <2> QED BY <1>1
<1> QED BY <1>1, <1>2

LEMMA CancelLeft ==
    ASSUME NEW S, NEW p \in Seq(S), NEW q \in Seq(S), NEW t \in Seq(S), t \o p = t \o q
    PROVE  p = q
<1>1. Len(p) = Len(q)
  OBVIOUS
<1>2. \A i \in 1..Len(p) : p[i] = q[i]
  <2> SUFFICES ASSUME NEW i \in 1..Len(p) PROVE p[i] = q[i]
    OBVIOUS
  <2>1. (t \o p)[Len(t) + i] = p[i]
    OBVIOUS
  <2>2. (t \o q)[Len(t) + i] = q[i]
    BY <1>1
  <2> QED BY <2>1, <2>2
<1> QED BY <1>1, <1>2

LEMMA SameValues ==
    ASSUME NEW a, NEW b, SameOn(Fields, a, b)
    PROVE  Signature(a) = Signature(b)
BY DEF SameOn, Fields, Signature

\* One field of another value is another signature.
LEMMA OneFieldApart ==
    ASSUME NEW a \in Backends, NEW b \in Backends, NEW f \in Fields,
           SameOn(Fields \ {f}, a, b), Signature(a) = Signature(b)
    PROVE  Value(a, f) = Value(b, f)
<1> DEFINE Strings == Seq(STRING)
<1>1. \A g \in Fields : Value(a, g) \in Strings /\ Value(b, g) \in Strings
  BY BackendsAssumption
<1> DEFINE va(g) == Value(a, g)
           vb(g) == Value(b, g)
<1>2. \A g \in Fields : g # f => va(g) = vb(g)
  BY DEF SameOn
<1> DEFINE pa2 == va("model_path") \o va("total_slots")
           pa3 == pa2 \o va("n_ctx")
           pa4 == pa3 \o va("chat_template")
           pa5 == pa4 \o va("add_bos_token")
           pb2 == vb("model_path") \o vb("total_slots")
           pb3 == pb2 \o vb("n_ctx")
           pb4 == pb3 \o vb("chat_template")
           pb5 == pb4 \o vb("add_bos_token")
<1>3. /\ va("model_path") \in Strings /\ vb("model_path") \in Strings
      /\ va("total_slots") \in Strings /\ vb("total_slots") \in Strings
      /\ va("n_ctx") \in Strings /\ vb("n_ctx") \in Strings
      /\ va("chat_template") \in Strings /\ vb("chat_template") \in Strings
      /\ va("add_bos_token") \in Strings /\ vb("add_bos_token") \in Strings
      /\ va("bos_token") \in Strings /\ vb("bos_token") \in Strings
  BY <1>1 DEF Fields
<1>4. pa5 \o va("bos_token") = pb5 \o vb("bos_token")
  BY DEF Signature
<1> HIDE DEF va, vb
<1>5. /\ pa2 \in Strings /\ pa3 \in Strings /\ pa4 \in Strings /\ pa5 \in Strings
      /\ pb2 \in Strings /\ pb3 \in Strings /\ pb4 \in Strings /\ pb5 \in Strings
  BY <1>3
\* What comes after the field is equal, and so is what is left of it ...
<1>6. f # "bos_token" => pa5 = pb5
  <2> HIDE DEF pa5, pb5
  <2> QED BY <1>2, <1>3, <1>4, <1>5, CancelRight DEF Fields
<1>7. f \notin {"bos_token", "add_bos_token"} => pa4 = pb4
  <2> HIDE DEF pa4, pb4
  <2> QED BY <1>2, <1>3, <1>5, <1>6, CancelRight DEF Fields
<1>8. f \in {"model_path", "total_slots", "n_ctx"} => pa3 = pb3
  <2> HIDE DEF pa3, pb3
  <2> QED BY <1>2, <1>3, <1>5, <1>7, CancelRight DEF Fields
<1>9. f \in {"model_path", "total_slots"} => pa2 = pb2
  <2> HIDE DEF pa2, pb2
  <2> QED BY <1>2, <1>3, <1>5, <1>8, CancelRight DEF Fields
\* ... and what comes before it, too.
<1>10. f \notin {"model_path", "total_slots"} => pa2 = pb2
  BY <1>2 DEF Fields
<1>11. f \in {"chat_template", "add_bos_token", "bos_token"} => pa3 = pb3
  BY <1>2, <1>10 DEF Fields
<1>12. f \in {"add_bos_token", "bos_token"} => pa4 = pb4
  BY <1>2, <1>11 DEF Fields
<1>13. f = "bos_token" => pa5 = pb5
  BY <1>2, <1>12 DEF Fields
<1>14. CASE f = "model_path"
  <2>1. va("model_path") \o va("total_slots") = vb("model_path") \o va("total_slots")
    BY <1>2, <1>9, <1>14 DEF Fields, pa2, pb2
  <2>2. va("model_path") = vb("model_path")
    BY <2>1, <1>3, CancelRight
  <2> QED BY <2>2, <1>14 DEF va, vb
<1>15. CASE f = "total_slots"
  BY <1>9, <1>15, <1>2, <1>3, CancelLeft DEF Fields, va, vb
<1>16. CASE f = "n_ctx"
  <2>1. pa3 = pb3 /\ pa2 = pb2
    BY <1>8, <1>10, <1>16
  <2> HIDE DEF pa2, pb2
  <2> QED BY <2>1, <1>3, <1>5, <1>16, CancelLeft DEF va, vb
<1>17. CASE f = "chat_template"
  <2>1. pa4 = pb4 /\ pa3 = pb3
    BY <1>7, <1>11, <1>17
  <2> HIDE DEF pa3, pb3
  <2> QED BY <2>1, <1>3, <1>5, <1>17, CancelLeft DEF va, vb
<1>18. CASE f = "add_bos_token"
  <2>1. pa5 = pb5 /\ pa4 = pb4
    BY <1>6, <1>12, <1>18
  <2> HIDE DEF pa4, pb4
  <2> QED BY <2>1, <1>3, <1>5, <1>18, CancelLeft DEF va, vb
<1>19. CASE f = "bos_token"
  <2>1. pa5 = pb5
    BY <1>13, <1>19
  <2> HIDE DEF pa5, pb5
  <2> QED BY <2>1, <1>3, <1>4, <1>5, <1>19, CancelLeft DEF va, vb
<1> QED BY <1>14, <1>15, <1>16, <1>17, <1>18, <1>19 DEF Fields

\* "Mismatch means cold prefill, always": when the proxy starts with its
\* backend and is answered, no lookup finds a file saved under a backend that
\* differs in one value of the signature, whatever the values are.
THEOREM BackendsKeptApart == Upsets = {} => (Spec => []BackendApart)
<1> SUFFICES ASSUME Upsets = {} PROVE Spec => []BackendApart
  OBVIOUS
<1>1. KeyInv /\ SignedInv => BackendApart
  BY FoundSigned, OneFieldApart DEF BackendApart
<1> QED BY <1>1, KeyInvariant, SignedInvariant, PTL

\* Turns of one conversation have one key.
LEMMA OneConversation ==
    ASSUME NEW q \in Requests, NEW r \in Requests, q.conv = r.conv
    PROVE  KeyOf(q) = KeyOf(r)
BY ConversationsAssumption DEF KeyOf, SessionKey, Readable

\* "Every turn of one conversation maps to the same session": under the same
\* hypothesis on restarts, a turn finds the file of its conversation, saved
\* under a backend with the same values.
THEOREM OwnFileFound == Upsets = {} => (Spec => []Sticky)
<1> SUFFICES ASSUME Upsets = {} PROVE Spec => []Sticky
  OBVIOUS
<1>1. KeyInv /\ SignedInv => Sticky
  <2> SUFFICES ASSUME KeyInv, SignedInv, NEW b \in blobs, pc = "keyed",
                      b.by.conv = request.conv, SameOn(Fields, b.under, backend)
               PROVE  b \in Found
    BY DEF Sticky
  <2>1. KeyOf(b.by) = SessionKey(request, out)
    BY KeyOfName, OneConversation DEF KeyInv, NameInv
  <2>2. b.name[2] = sig
    BY SameValues DEF SignedInv
  <2>3. b.name = Name
    BY <2>1, <2>2 DEF KeyInv, Name
  <2> QED BY <2>3 DEF Found
<1> QED BY <1>1, KeyInvariant, SignedInvariant, PTL

=============================================================================
