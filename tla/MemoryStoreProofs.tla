-------------------------- MODULE MemoryStoreProofs --------------------------
(***************************************************************************)
(* The two stores agree, for any events, keys and scopes, any limits and   *)
(* times to live, and any number of calls.                                 *)
(*                                                                         *)
(* Agreement is not inductive: that they answer alike now says nothing of  *)
(* later.  StoresInv couples what they store.  The lists are handled by    *)
(* the places of their items, which are ranks in finite sets of indices.   *)
(***************************************************************************)
EXTENDS MemoryStore, FiniteSetTheorems, TLAPS

\* The number of members of I below i.
Below(I, i) == Cardinality({j \in I : j < i})

\* The further back a member is, the more members are below it.
LEMMA BelowRises ==
  ASSUME NEW I \in SUBSET Nat, IsFiniteSet(I), NEW i \in I
  PROVE  /\ Below(I, i) \in 0 .. Cardinality(I) - 1
         /\ \A j \in I : i < j => Below(I, i) < Below(I, j)
  <1>1. ASSUME NEW A, NEW B, A \subseteq B, IsFiniteSet(B), i \in B \ A
        PROVE  /\ Cardinality(A) \in Nat /\ Cardinality(B) \in Nat
               /\ Cardinality(A) < Cardinality(B)
    <2>1. IsFiniteSet(A) /\ Cardinality(A) <= Cardinality(B) /\ Cardinality(A) # Cardinality(B)
      BY <1>1, FS_Subset
    <2>2. Cardinality(A) \in Nat /\ Cardinality(B) \in Nat
      BY <1>1, <2>1, FS_CardinalityType
    <2> QED BY <2>1, <2>2
  <1>2. Below(I, i) \in 0 .. Cardinality(I) - 1
    <2>1. {j \in I : j < i} \subseteq I /\ i \in I \ {j \in I : j < i}
      OBVIOUS
    <2>2. /\ Below(I, i) \in Nat /\ Cardinality(I) \in Nat
          /\ Below(I, i) < Cardinality(I)
      BY <1>1, <2>1 DEF Below
    <2> QED BY <2>2
  <1>3. ASSUME NEW j \in I, i < j PROVE Below(I, i) < Below(I, j)
    <2>1. /\ {h \in I : h < i} \subseteq {h \in I : h < j}
          /\ i \in {h \in I : h < j} \ {h \in I : h < i}
      <3>1. \A h \in I : h < i => h < j
        BY <1>3
      <3>2. ~(i < i)
        OBVIOUS
      <3> QED BY <1>3, <3>1, <3>2
    <2>2. IsFiniteSet({h \in I : h < j})
      BY FS_Subset
    <2> QED BY <1>1, <2>1, <2>2 DEF Below
  <1> QED BY <1>2, <1>3

\* Place(I, _) lists I in its order: every member has its place.
LEMMA Enumerated ==
  ASSUME NEW I \in SUBSET Nat, IsFiniteSet(I)
  PROVE  /\ Cardinality(I) \in Nat
         /\ \A n \in 1 .. Cardinality(I) : Place(I, n) \in I /\ Below(I, Place(I, n)) = n - 1
         /\ \A i \in I : \E n \in 1 .. Cardinality(I) : Place(I, n) = i
         /\ \A m, n \in 1 .. Cardinality(I) : m < n <=> Place(I, m) < Place(I, n)
  <1> DEFINE c == Cardinality(I)
             rank == [i \in I |-> Below(I, i)]
  <1>1. c \in Nat
    BY FS_CardinalityType
  <1> HIDE DEF c
  <1>2. \A i \in I : Below(I, i) \in 0 .. c - 1
    BY BelowRises DEF c
  <1>3. \A i, j \in I : i # j => Below(I, i) # Below(I, j)
    <2> SUFFICES ASSUME NEW i \in I, NEW j \in I, i # j
                 PROVE  Below(I, i) # Below(I, j)
      OBVIOUS
    <2>1. i < j \/ j < i
      OBVIOUS
    <2>2. Below(I, i) < Below(I, j) \/ Below(I, j) < Below(I, i)
      BY <2>1, BelowRises
    <2>3. Below(I, i) \in Int /\ Below(I, j) \in Int
      BY <1>2
    <2> QED BY <2>2, <2>3
  <1>4. rank \in Injection(I, 0 .. c - 1)
    BY <1>2, <1>3 DEF Injection, IsInjective
  <1>5. IsFiniteSet(0 .. c - 1) /\ Cardinality(0 .. c - 1) = c
    BY <1>1, FS_Interval
  <1>6. rank \in Surjection(I, 0 .. c - 1)
    BY <1>4, <1>5, FS_Injection DEF c
  <1>7. \A n \in 1 .. c : Place(I, n) \in I /\ Below(I, Place(I, n)) = n - 1
    <2> TAKE n \in 1 .. c
    <2>1. n - 1 \in 0 .. c - 1
      BY <1>1
    <2>2. \E i \in I : Below(I, i) = n - 1
      BY <1>6, <2>1 DEF Surjection
    <2> QED BY <2>2 DEF Place, Below
  <1>8. \A i \in I : \E n \in 1 .. c : Place(I, n) = i
    <2> TAKE i \in I
    <2>1. Below(I, i) + 1 \in 1 .. c /\ (Below(I, i) + 1) - 1 = Below(I, i)
      BY <1>1, <1>2
    <2>2. /\ Place(I, Below(I, i) + 1) \in I
          /\ Below(I, Place(I, Below(I, i) + 1)) = Below(I, i)
      BY <1>7, <2>1
    <2>3. Place(I, Below(I, i) + 1) = i
      BY <1>3, <2>2
    <2> QED BY <2>1, <2>3
  <1>9. \A m, n \in 1 .. c : m < n => Place(I, m) < Place(I, n)
    <2> SUFFICES ASSUME NEW m \in 1 .. c, NEW n \in 1 .. c, m < n,
                        ~(Place(I, m) < Place(I, n))
                 PROVE  FALSE
      OBVIOUS
    <2>1. Place(I, m) \in I /\ Place(I, n) \in I
      BY <1>7
    <2>2. Place(I, n) = Place(I, m) \/ Place(I, n) < Place(I, m)
      <3>1. Place(I, m) \in Nat /\ Place(I, n) \in Nat
        BY <2>1
      <3> QED BY <3>1
    <2>3. Below(I, Place(I, n)) = Below(I, Place(I, m))
            \/ Below(I, Place(I, n)) < Below(I, Place(I, m))
      BY <2>1, <2>2, BelowRises
    <2>4. n - 1 = m - 1 \/ n - 1 < m - 1
      BY <1>7, <2>3
    <2> QED BY <1>1, <2>4
  <1>10. \A m, n \in 1 .. c : Place(I, m) < Place(I, n) => m < n
    <2> SUFFICES ASSUME NEW m \in 1 .. c, NEW n \in 1 .. c,
                        Place(I, m) < Place(I, n), ~(m < n)
                 PROVE  FALSE
      OBVIOUS
    <2>1. n = m \/ n < m
      OBVIOUS
    <2>2. Place(I, n) = Place(I, m) \/ Place(I, n) < Place(I, m)
      BY <1>9, <2>1
    <2>3. Place(I, m) \in Nat /\ Place(I, n) \in Nat
      BY <1>7
    <2> QED BY <2>2, <2>3
  <1> QED BY <1>1, <1>7, <1>8, <1>9, <1>10 DEF c

\* What is sifted out of a list is a list of its items.
LEMMA SiftedType ==
  ASSUME NEW S, NEW list \in Seq(S), NEW I \in SUBSET DOMAIN list
  PROVE  /\ IsFiniteSet(I) /\ I \in SUBSET Nat /\ Cardinality(I) \in Nat
         /\ Sifted(list, I) \in Seq(S)
         /\ Len(Sifted(list, I)) = Cardinality(I)
         /\ DOMAIN Sifted(list, I) = 1 .. Cardinality(I)
         /\ \A n \in 1 .. Cardinality(I) : Sifted(list, I)[n] = list[Place(I, n)]
  <1>1. I \in SUBSET (1 .. Len(list)) /\ Len(list) \in Nat
    OBVIOUS
  <1>2. IsFiniteSet(1 .. Len(list))
    BY FS_Interval
  <1>3. IsFiniteSet(I) /\ I \in SUBSET Nat
    BY <1>1, <1>2, FS_Subset
  <1>4. Cardinality(I) \in Nat /\ \A n \in 1 .. Cardinality(I) : Place(I, n) \in I
    BY <1>3, Enumerated
  <1>5. \A i \in I : list[i] \in S
    BY <1>1
  <1>6. Sifted(list, I) \in [1 .. Cardinality(I) -> S]
    BY <1>4, <1>5 DEF Sifted
  <1>7. Sifted(list, I) \in Seq(S) /\ Len(Sifted(list, I)) = Cardinality(I)
    BY <1>4, <1>6
  <1> QED BY <1>3, <1>4, <1>7 DEF Sifted

\* A rising function takes places to places.
LEMMA PlacesRise ==
  ASSUME NEW J \in SUBSET Nat, IsFiniteSet(J), NEW f \in [J -> Nat],
         \A i, j \in J : i < j => f[i] < f[j]
  PROVE  LET K == {f[j] : j \in J}
         IN  /\ IsFiniteSet(K) /\ K \in SUBSET Nat /\ Cardinality(K) = Cardinality(J)
             /\ \A n \in 1 .. Cardinality(J) : Place(K, n) = f[Place(J, n)]
  <1> DEFINE K == {f[j] : j \in J}
  <1>1. \A i, j \in J : (i < j <=> f[i] < f[j]) /\ (f[i] = f[j] => i = j)
    <2> SUFFICES ASSUME NEW i \in J, NEW j \in J
                 PROVE  (i < j <=> f[i] < f[j]) /\ (f[i] = f[j] => i = j)
      OBVIOUS
    <2>1. i \in Nat /\ j \in Nat /\ f[i] \in Nat /\ f[j] \in Nat
      OBVIOUS
    <2>2. (i < j => f[i] < f[j]) /\ (j < i => f[j] < f[i])
      OBVIOUS
    <2> QED BY <2>1, <2>2
  <1>2. f \in Bijection(J, K)
    BY <1>1 DEF Bijection, Injection, IsInjective, Surjection
  <1>3. IsFiniteSet(K) /\ Cardinality(K) = Cardinality(J)
    <2> HIDE DEF K
    <2> QED BY <1>2, FS_Bijection DEF ExistsBijection
  <1>4. K \in SUBSET Nat
    OBVIOUS
  <1>5. ASSUME NEW j \in J PROVE Below(K, f[j]) = Below(J, j)
    <2> DEFINE A == {i \in J : i < j}
               B == {h \in K : h < f[j]}
               g == [i \in A |-> f[i]]
    <2>1. g \in Bijection(A, B)
      <3>1. \A i \in A : f[i] \in B
        BY <1>1
      <3>2. \A h \in B : \E i \in A : f[i] = h
        BY <1>1
      <3> QED BY <1>1, <3>1, <3>2 DEF Bijection, Injection, IsInjective, Surjection
    <2>2. IsFiniteSet(A)
      BY FS_Subset
    <2> HIDE DEF A, B, g
    <2>3. Cardinality(B) = Cardinality(A)
      BY <2>1, <2>2, FS_Bijection DEF ExistsBijection
    <2> QED BY <2>3 DEF Below, A, B
  <1>6. ASSUME NEW n \in 1 .. Cardinality(J) PROVE Place(K, n) = f[Place(J, n)]
    <2>1. Place(J, n) \in J /\ Below(J, Place(J, n)) = n - 1
      BY Enumerated
    <2>2. f[Place(J, n)] \in K /\ Below(K, f[Place(J, n)]) = n - 1
      BY <1>5, <2>1
    <2>3. Place(K, n) \in K /\ Below(K, Place(K, n)) = n - 1
      <3> HIDE DEF K
      <3> QED BY <1>3, <1>4, Enumerated
    <2>4. PICK i \in J : Place(K, n) = f[i]
      BY <2>3
    <2>5. Below(J, i) = Below(J, Place(J, n))
      BY <1>5, <2>1, <2>3, <2>4
    <2>6. i = Place(J, n)
      <3>1. ~(i < Place(J, n)) /\ ~(Place(J, n) < i)
        <4>1. Below(J, i) \in Int
          BY BelowRises
        <4>2. ~(Below(J, i) < Below(J, Place(J, n))) /\ ~(Below(J, Place(J, n)) < Below(J, i))
          BY <2>5, <4>1
        <4> QED BY <2>1, <4>2, BelowRises
      <3>2. i \in Nat /\ Place(J, n) \in Nat
        BY <2>1
      <3> QED BY <3>1, <3>2
    <2> QED BY <2>4, <2>6
  <1> QED BY <1>3, <1>4, <1>6

\* An interval is in its own order.
LEMMA PlaceInInterval ==
  ASSUME NEW a \in Int, NEW b \in Int, a >= 1, b >= a - 1
  PROVE  /\ IsFiniteSet(a .. b) /\ Cardinality(a .. b) = b - a + 1
         /\ \A n \in 1 .. b - a + 1 : Place(a .. b, n) = a + n - 1
  <1>1. IsFiniteSet(a .. b) /\ Cardinality(a .. b) = b - a + 1
    <2>1. /\ IsFiniteSet(a .. b)
          /\ Cardinality(a .. b) = IF a > b THEN 0 ELSE b - a + 1
      BY FS_Interval
    <2>2. a > b => b - a + 1 = 0
      OBVIOUS
    <2> QED BY <2>1, <2>2
  <1>2. ASSUME NEW i \in a .. b PROVE Below(a .. b, i) = i - a
    <2>1. {j \in a .. b : j < i} = a .. i - 1
      OBVIOUS
    <2>2. Cardinality(a .. i - 1) = i - a
      BY FS_Interval
    <2> QED BY <2>1, <2>2 DEF Below
  <1>3. ASSUME NEW n \in 1 .. b - a + 1 PROVE Place(a .. b, n) = a + n - 1
    <2>1. a .. b \in SUBSET Nat
      OBVIOUS
    <2>2. Place(a .. b, n) \in a .. b /\ Below(a .. b, Place(a .. b, n)) = n - 1
      BY <1>1, <2>1, Enumerated
    <2> QED BY <1>2, <2>2
  <1> QED BY <1>1, <1>3

\* Sifting twice is sifting once.
LEMMA SiftedTwice ==
  ASSUME NEW S, NEW list \in Seq(S), NEW I \in SUBSET DOMAIN list,
         NEW J \in SUBSET (1 .. Cardinality(I))
  PROVE  LET K == {Place(I, j) : j \in J}
         IN  K \in SUBSET I /\ Sifted(Sifted(list, I), J) = Sifted(list, K)
  <1> DEFINE K == {Place(I, j) : j \in J}
             f == [j \in J |-> Place(I, j)]
  <1>1. /\ IsFiniteSet(I) /\ I \in SUBSET Nat /\ Cardinality(I) \in Nat
        /\ Sifted(list, I) \in Seq(S) /\ DOMAIN Sifted(list, I) = 1 .. Cardinality(I)
        /\ \A n \in 1 .. Cardinality(I) : Sifted(list, I)[n] = list[Place(I, n)]
    BY SiftedType
  <1>2. /\ \A n \in 1 .. Cardinality(I) : Place(I, n) \in I
        /\ \A m, n \in 1 .. Cardinality(I) : m < n <=> Place(I, m) < Place(I, n)
    BY <1>1, Enumerated
  <1>3. /\ IsFiniteSet(J) /\ J \in SUBSET Nat /\ Cardinality(J) \in Nat
        /\ DOMAIN Sifted(Sifted(list, I), J) = 1 .. Cardinality(J)
        /\ \A n \in 1 .. Cardinality(J) :
              Sifted(Sifted(list, I), J)[n] = Sifted(list, I)[Place(J, n)]
    <2> DEFINE once == Sifted(list, I)
    <2>1. once \in Seq(S) /\ J \in SUBSET DOMAIN once
      BY <1>1
    <2> HIDE DEF once
    <2>2. /\ IsFiniteSet(J) /\ J \in SUBSET Nat /\ Cardinality(J) \in Nat
          /\ DOMAIN Sifted(once, J) = 1 .. Cardinality(J)
          /\ \A n \in 1 .. Cardinality(J) : Sifted(once, J)[n] = once[Place(J, n)]
      BY <2>1, SiftedType
    <2> QED BY <2>2 DEF once
  <1>4. f \in [J -> Nat] /\ \A i, j \in J : i < j => f[i] < f[j]
    BY <1>1, <1>2
  <1>5. K = {f[j] : j \in J}
    OBVIOUS
  <1>6. K \in SUBSET I
    BY <1>2
  <1> HIDE DEF f, K
  <1>7. /\ Cardinality(K) = Cardinality(J)
        /\ \A n \in 1 .. Cardinality(J) : Place(K, n) = f[Place(J, n)]
    BY <1>3, <1>4, <1>5, PlacesRise
  <1>8. \A n \in 1 .. Cardinality(J) : Place(J, n) \in J
    BY <1>3, Enumerated
  <1>9. \A n \in 1 .. Cardinality(J) :
            Sifted(list, I)[Place(J, n)] = list[Place(K, n)]
    BY <1>1, <1>7, <1>8 DEF f
  <1>10. Sifted(Sifted(list, I), J) = Sifted(list, K)
    BY <1>3, <1>7, <1>9 DEF Sifted
  <1> QED BY <1>6, <1>10 DEF K

\* What is sifted by a final interval is the end of the list.
LEMMA SiftedInterval ==
  ASSUME NEW S, NEW list \in Seq(S), NEW a \in 1 .. Len(list) + 1
  PROVE  Sifted(list, a .. Len(list)) = SubSeq(list, a, Len(list))
  <1>1. /\ Cardinality(a .. Len(list)) = Len(list) - a + 1
        /\ \A n \in 1 .. Len(list) - a + 1 : Place(a .. Len(list), n) = a + n - 1
    BY PlaceInInterval
  <1>2. 1 .. Len(list) - a + 1 = 1 .. 1 + Len(list) - a
    OBVIOUS
  <1>3. \A n \in 1 .. Len(list) - a + 1 : list[Place(a .. Len(list), n)] = list[a + n - 1]
    BY <1>1
  <1>4. SubSeq(list, a, Len(list)) = [n \in 1 .. 1 + Len(list) - a |-> list[n + a - 1]]
    OBVIOUS
  <1>5. \A n \in 1 .. Len(list) - a + 1 : a + n - 1 = n + a - 1
    OBVIOUS
  <1> QED BY <1>1, <1>2, <1>3, <1>4, <1>5 DEF Sifted


-------------------------------------------------------------------------------
(* Requests: both stores count as many in every window that still matters. *)
(* A call with an older reading opens an older window, from which both have *)
(* left out what the call with the newest reading did not count.           *)

Since(list, c) == {i \in DOMAIN list : list[i] > c}

Young(table, s, c) == {r \in table : r.scope = s /\ r.at > c}

\* Leaving out what is older than a window takes nothing from the window, and from
\* a longer one what the two do not share.
LEMMA AfterCounts ==
  ASSUME NEW list \in Seq(Nat), NEW cutoff \in Int, NEW c \in Int
  PROVE  /\ After(cutoff, list) \in Seq(Nat)
         /\ Len(After(cutoff, list)) = Cardinality(Since(list, cutoff))
         /\ Cardinality(Since(After(cutoff, list), c))
              = Cardinality(Since(list, Older(c, cutoff)))
  <1> DEFINE I == Since(list, cutoff)
             since == Since(list, Older(c, cutoff))
             young == {n \in 1 .. Cardinality(I) : list[Place(I, n)] > c}
             place == [n \in young |-> Place(I, n)]
  <1>1. I \in SUBSET DOMAIN list /\ After(cutoff, list) = Sifted(list, I)
    BY DEF Since, After
  <1>2. \A i \in DOMAIN list : list[i] \in Nat
    OBVIOUS
  <1>3. since = {i \in I : list[i] > c}
    <2>1. \A i \in DOMAIN list : list[i] > Older(c, cutoff) <=> list[i] > cutoff /\ list[i] > c
      BY <1>2 DEF Older
    <2> QED BY <2>1 DEF Since
  <1> HIDE DEF I, since
  <1>4. /\ IsFiniteSet(I) /\ I \in SUBSET Nat /\ Cardinality(I) \in Nat
        /\ After(cutoff, list) \in Seq(Nat)
        /\ Len(After(cutoff, list)) = Cardinality(I)
        /\ DOMAIN After(cutoff, list) = 1 .. Cardinality(I)
        /\ \A n \in 1 .. Cardinality(I) : After(cutoff, list)[n] = list[Place(I, n)]
    BY <1>1, SiftedType
  <1>5. Since(After(cutoff, list), c) = young
    BY <1>4 DEF Since
  <1>6. /\ \A n \in 1 .. Cardinality(I) : Place(I, n) \in I
        /\ \A i \in I : \E n \in 1 .. Cardinality(I) : Place(I, n) = i
        /\ \A m, n \in 1 .. Cardinality(I) : m < n <=> Place(I, m) < Place(I, n)
    BY <1>4, Enumerated
  <1>7. place \in Bijection(young, since)
    <2>1. \A n \in young : Place(I, n) \in since
      BY <1>3, <1>6
    <2>2. \A m, n \in young : Place(I, m) = Place(I, n) => m = n
      <3> SUFFICES ASSUME NEW m \in young, NEW n \in young, Place(I, m) = Place(I, n)
                   PROVE  m = n
        OBVIOUS
      <3>1. m \in 1 .. Cardinality(I) /\ n \in 1 .. Cardinality(I)
        OBVIOUS
      <3>2. Place(I, m) \in Nat /\ Place(I, n) \in Nat
        BY <1>4, <1>6, <3>1
      <3>3. ~(Place(I, m) < Place(I, n)) /\ ~(Place(I, n) < Place(I, m))
        BY <3>2
      <3>4. ~(m < n) /\ ~(n < m)
        BY <1>6, <3>1, <3>3
      <3> QED BY <1>4, <3>1, <3>4
    <2>3. \A i \in since : \E n \in young : Place(I, n) = i
      BY <1>3, <1>6
    <2> QED BY <2>1, <2>2, <2>3 DEF Bijection, Injection, IsInjective, Surjection
  <1>8. IsFiniteSet(young)
    <2>1. IsFiniteSet(1 .. Cardinality(I))
      BY <1>4, FS_Interval
    <2> QED BY <2>1, FS_Subset
  <1> HIDE DEF young, place
  <1>9. Cardinality(since) = Cardinality(young)
    BY <1>7, <1>8, FS_Bijection DEF ExistsBijection
  <1> QED BY <1>4, <1>5, <1>9 DEF I, since

\* The times since a moment can be counted.
LEMMA SinceFinite ==
  ASSUME NEW list \in Seq(Nat), NEW c \in Int
  PROVE  IsFiniteSet(Since(list, c)) /\ Cardinality(Since(list, c)) \in Nat
  <1>1. IsFiniteSet(1 .. Len(list)) /\ DOMAIN list = 1 .. Len(list)
    BY FS_Interval
  <1>2. Since(list, c) \in SUBSET (1 .. Len(list))
    BY <1>1 DEF Since
  <1> QED BY <1>1, <1>2, FS_Subset, FS_CardinalityType

\* A time that is noted is counted in the windows it belongs to.
LEMMA AppendCounts ==
  ASSUME NEW list \in Seq(Nat), NEW now \in Nat, NEW c \in Int
  PROVE  /\ Append(list, now) \in Seq(Nat)
         /\ Cardinality(Since(Append(list, now), c))
              = Cardinality(Since(list, c)) + IF now > c THEN 1 ELSE 0
  <1> DEFINE longer == Append(list, now)
             n == Len(list) + 1
  <1>1. /\ longer \in Seq(Nat) /\ n \in Nat /\ DOMAIN longer = DOMAIN list \cup {n}
        /\ n \notin DOMAIN list /\ longer[n] = now
        /\ \A i \in DOMAIN list : longer[i] = list[i]
    OBVIOUS
  <1> HIDE DEF longer, n
  <1>2. n \notin Since(list, c)
    BY <1>1 DEF Since
  <1>3. IsFiniteSet(Since(list, c)) /\ Cardinality(Since(list, c)) \in Nat
    BY SinceFinite
  <1>4. CASE now > c
    <2>1. Since(longer, c) = Since(list, c) \cup {n}
      BY <1>1, <1>4 DEF Since
    <2>2. Cardinality(Since(longer, c)) = Cardinality(Since(list, c)) + 1
      BY <1>2, <1>3, <2>1, FS_AddElement
    <2> QED BY <1>1, <1>4, <2>2 DEF longer
  <1>5. CASE ~(now > c)
    <2>1. Since(longer, c) = Since(list, c)
      BY <1>1, <1>5 DEF Since
    <2> QED BY <1>1, <1>3, <1>5, <2>1 DEF longer
  <1> QED BY <1>4, <1>5

\* There is always an id no rate row has among the first Cardinality + 1.
LEMMA UnusedIdIsUnused ==
  ASSUME NEW rows, IsFiniteSet(rows)
  PROVE  UnusedId(rows) \in Nat /\ \A r \in rows : r.id # UnusedId(rows)
  <1> DEFINE n == Cardinality(rows)
             ids == {r.id : r \in rows}
  <1>1. n \in Nat
    BY FS_CardinalityType
  <1>2. IsFiniteSet(ids) /\ Cardinality(ids) <= n /\ Cardinality(ids) \in Nat
    <2> DEFINE f == [r \in rows |-> r.id]
    <2>1. f \in Surjection(rows, ids)
      BY DEF Surjection
    <2>2. IsFiniteSet(ids) /\ Cardinality(ids) <= n
      BY <2>1, FS_Surjection
    <2> QED BY <2>2, FS_CardinalityType
  <1> HIDE DEF n, ids
  <1>3. Cardinality(0 .. n) = n + 1
    BY <1>1, FS_Interval
  <1>4. ~ (0 .. n \subseteq ids)
    <2> SUFFICES ASSUME 0 .. n \subseteq ids PROVE FALSE
      OBVIOUS
    <2>1. Cardinality(0 .. n) <= Cardinality(ids)
      BY <1>2, FS_Subset
    <2> QED BY <1>1, <1>2, <1>3, <2>1
  <1>5. PICK i \in 0 .. n : i \notin ids
    BY <1>4
  <1>6. \A r \in rows : r.id # i
    BY <1>5 DEF ids
  <1>7. UnusedId(rows) \in 0 .. n /\ \A r \in rows : r.id # UnusedId(rows)
    BY <1>6 DEF UnusedId, n
  <1> QED BY <1>1, <1>7

\* A request leaves the rows of the other scopes alone, and adds one row at most.
LEMMA AfterRateElsewhere ==
  ASSUME NEW table, NEW s, NEW now, NEW c, NEW t, t # s
  PROVE  Young(AfterRate(table, s, Limit, Window, now), t, c) = Young(table, t, c)
  <1> DEFINE row == [id |-> UnusedId(Pruned(table, s, Window, now)), scope |-> s, at |-> now]
  <1>1. row.scope # t
    OBVIOUS
  <1>2. AfterRate(table, s, Limit, Window, now)
          \in {Pruned(table, s, Window, now), Pruned(table, s, Window, now) \cup {row}}
    BY DEF AfterRate
  <1> HIDE DEF row
  <1> QED BY <1>1, <1>2 DEF Young, Pruned

\* SQLiteStore counts a request in the same windows, when it lets it pass.
LEMMA AfterRateCounts ==
  ASSUME NEW table \in SUBSET [id : Nat, scope : Scopes, at : Nat], IsFiniteSet(table),
         NEW s \in Scopes, NEW now \in Nat, NEW c \in Int
  PROVE  /\ AfterRate(table, s, Limit, Window, now) \in SUBSET [id : Nat, scope : Scopes, at : Nat]
         /\ IsFiniteSet(AfterRate(table, s, Limit, Window, now))
         /\ Cardinality(Young(AfterRate(table, s, Limit, Window, now), s, c))
              = Cardinality(Young(table, s, Older(c, now - Window)))
                  + IF RateAllows(table, s, Limit, Window, now) /\ now > c THEN 1 ELSE 0
  <1> USE MemoryAssumption
  <1> DEFINE after == AfterRate(table, s, Limit, Window, now)
             kept == Pruned(table, s, Window, now)
             row == [id |-> UnusedId(kept), scope |-> s, at |-> now]
             young == Young(table, s, Older(c, now - Window))
  <1>1. kept \subseteq table /\ IsFiniteSet(kept)
    BY FS_Subset DEF Pruned
  <1>2. UnusedId(kept) \in Nat /\ \A r \in kept : r.id # UnusedId(kept)
    <2> HIDE DEF kept
    <2> QED BY <1>1, UnusedIdIsUnused
  <1>3. row \in [id : Nat, scope : Scopes, at : Nat] /\ row \notin kept
        /\ row.scope = s /\ row.at = now
    BY <1>2
  <1>4. Young(kept, s, c) = young
    <2>1. \A r \in table : r.at > Older(c, now - Window) <=> r.at > c /\ r.at > now - Window
      <3> TAKE r \in table
      <3>1. r.at \in Nat
        OBVIOUS
      <3> QED BY <3>1 DEF Older
    <2> QED BY <2>1 DEF Young, Pruned
  <1>5. IsFiniteSet(Young(kept, s, c)) /\ Cardinality(Young(kept, s, c)) \in Nat
    <2>1. Young(kept, s, c) \in SUBSET kept
      BY DEF Young
    <2> QED BY <1>1, <2>1, FS_Subset, FS_CardinalityType
  <1>6. after = IF RateAllows(table, s, Limit, Window, now) THEN kept \cup {row} ELSE kept
    BY DEF AfterRate
  <1> HIDE DEF after, kept, row, young
  <1>7. IsFiniteSet(kept \cup {row})
    BY <1>1, FS_AddElement
  <1>8. Cardinality(Young(after, s, c)) = Cardinality(young)
            + IF RateAllows(table, s, Limit, Window, now) /\ now > c THEN 1 ELSE 0
    <2>1. CASE RateAllows(table, s, Limit, Window, now) /\ now > c
      <3>1. Young(after, s, c) = Young(kept, s, c) \cup {row} /\ row \notin Young(kept, s, c)
        BY <1>3, <1>6, <2>1 DEF Young
      <3>2. Cardinality(Young(after, s, c)) = Cardinality(Young(kept, s, c)) + 1
        BY <1>5, <3>1, FS_AddElement
      <3> QED BY <1>4, <2>1, <3>2
    <2>2. CASE ~(RateAllows(table, s, Limit, Window, now) /\ now > c)
      <3>1. Young(after, s, c) = Young(kept, s, c)
        BY <1>3, <1>6, <2>2 DEF Young
      <3> QED BY <1>4, <1>5, <2>2, <3>1
    <2> QED BY <2>1, <2>2
  <1>9. after \subseteq [id : Nat, scope : Scopes, at : Nat] /\ IsFiniteSet(after)
    BY <1>1, <1>3, <1>6, <1>7
  <1> QED BY <1>8, <1>9 DEF after, young


-------------------------------------------------------------------------------
(* Turns: the list of a conversation mirrors its rows. *)

TurnRecords == [role : Roles, event : Events, at : Nat]

\* When the question was asked to which a turn belongs: what SQLite dates it.
Asked(turn) == IF turn.role = "assistant" THEN turn.at - 1 ELSE turn.at

RowOf(k, turn, i) ==
    [id |-> i, key |-> k, role |-> turn.role, event |-> turn.event, at |-> Asked(turn)]

\* An answer whose question had expired at `now`, or before.
Outlived(turn, now) ==
    ConversationTTL > 0 /\ turn.role = "assistant" /\ Asked(turn) <= now - ConversationTTL

\* The list holds the rows of k in the order of their ids and times, and nothing
\* else, except that it may begin with answers that have outlived their questions.
Mirrors(k, list, table, seq, now) ==
    \E ids \in [DOMAIN list -> 1 .. seq] :
        LET Held(i) == RowOf(k, list[i], ids[i]) \in OfKey(table, k)
        IN  /\ \A i, j \in DOMAIN list : i < j =>
                  /\ ids[i] < ids[j] /\ Asked(list[i]) <= Asked(list[j])
                  /\ Held(i) => Held(j)
            /\ \A i \in DOMAIN list : Asked(list[i]) \in 0 .. now
            /\ \A i \in DOMAIN list : Held(i) \/ Outlived(list[i], now)
            /\ \A r \in OfKey(table, k) :
                  \E i \in DOMAIN list : r = RowOf(k, list[i], ids[i])

\* What other conversations do, and time, leave a mirror as it is.
LEMMA MirrorsKept ==
  ASSUME NEW k, NEW list, NEW table, NEW table2, NEW seq \in Nat, NEW seq2 \in Nat,
         NEW now \in Nat, NEW now2 \in Nat,
         Mirrors(k, list, table, seq, now),
         OfKey(table2, k) = OfKey(table, k), seq <= seq2, now <= now2
  PROVE  Mirrors(k, list, table2, seq2, now2)
  <1>1. PICK ids \in [DOMAIN list -> 1 .. seq] :
            LET Held(i) == RowOf(k, list[i], ids[i]) \in OfKey(table, k)
            IN  /\ \A i, j \in DOMAIN list : i < j =>
                      /\ ids[i] < ids[j] /\ Asked(list[i]) <= Asked(list[j])
                      /\ Held(i) => Held(j)
                /\ \A i \in DOMAIN list : Asked(list[i]) \in 0 .. now
                /\ \A i \in DOMAIN list : Held(i) \/ Outlived(list[i], now)
                /\ \A r \in OfKey(table, k) :
                      \E i \in DOMAIN list : r = RowOf(k, list[i], ids[i])
    BY DEF Mirrors
  <1>2. ids \in [DOMAIN list -> 1 .. seq2]
    BY 1 .. seq \subseteq 1 .. seq2
  <1>3. \A i \in DOMAIN list : Asked(list[i]) \in 0 .. now2
    BY <1>1
  <1>4. \A i \in DOMAIN list : Outlived(list[i], now) => Outlived(list[i], now2)
    <2> SUFFICES ASSUME NEW i \in DOMAIN list, Outlived(list[i], now)
                 PROVE  Asked(list[i]) <= now2 - ConversationTTL
      BY DEF Outlived
    <2>1. Asked(list[i]) \in Int /\ Asked(list[i]) <= now - ConversationTTL
      BY <1>1 DEF Outlived
    <2> QED BY <2>1, StoreAssumption
  <1> QED BY <1>1, <1>2, <1>3, <1>4 DEF Mirrors

\* Both stores forget what has expired, by any reading of the clock so far.
LEMMA MirrorsFresh ==
  ASSUME NEW k, NEW list \in Seq(TurnRecords), NEW table, NEW table2,
         NEW seq \in Nat, NEW now \in Nat, NEW past \in 0 .. now,
         Mirrors(k, list, table, seq, now),
         OfKey(table2, k) = {r \in OfKey(table, k) : ~Expired(r, past)}
  PROVE  /\ Fresh(list, past) \in Seq(TurnRecords)
         /\ Mirrors(k, Fresh(list, past), table2, seq, now)
  <1>1. PICK ids \in [DOMAIN list -> 1 .. seq] :
            LET Held(i) == RowOf(k, list[i], ids[i]) \in OfKey(table, k)
            IN  /\ \A i, j \in DOMAIN list : i < j =>
                      /\ ids[i] < ids[j] /\ Asked(list[i]) <= Asked(list[j])
                      /\ Held(i) => Held(j)
                /\ \A i \in DOMAIN list : Asked(list[i]) \in 0 .. now
                /\ \A i \in DOMAIN list : Held(i) \/ Outlived(list[i], now)
                /\ \A r \in OfKey(table, k) :
                      \E i \in DOMAIN list : r = RowOf(k, list[i], ids[i])
    BY DEF Mirrors
  <1>2. CASE ConversationTTL = 0
    <2>1. Fresh(list, past) = list
      BY <1>2 DEF Fresh
    <2>2. OfKey(table2, k) = OfKey(table, k)
      BY <1>2 DEF Expired
    <2>3. seq <= seq /\ now <= now
      OBVIOUS
    <2> QED BY <2>1, <2>2, <2>3, MirrorsKept
  <1>3. CASE ConversationTTL # 0
    <2> DEFINE I == {i \in DOMAIN list : list[i].at > past - ConversationTTL}
               fresh == Fresh(list, past)
               numbers == [n \in 1 .. Cardinality(I) |-> ids[Place(I, n)]]
               Row(i) == RowOf(k, list[i], ids[i])
               Copy(n) == RowOf(k, fresh[n], numbers[n])
    <2>1. fresh = Sifted(list, I) /\ I \in SUBSET DOMAIN list
      BY <1>3 DEF Fresh
    <2>2. ASSUME NEW i \in DOMAIN list
          PROVE  /\ Row(i).at = Asked(list[i]) /\ Asked(list[i]) \in Int
                 /\ Expired(Row(i), past) <=> Asked(list[i]) <= past - ConversationTTL
                 /\ i \notin I => Expired(Row(i), past)
                 /\ i \in I /\ Expired(Row(i), past) => Outlived(list[i], now)
      <3> DEFINE at == Asked(list[i])
      <3>1. list[i] \in TurnRecords
        OBVIOUS
      <3>2. list[i].at \in Nat /\ list[i].role \in Roles
        BY <3>1 DEF TurnRecords
      <3>3. at = (IF list[i].role = "assistant" THEN list[i].at - 1 ELSE list[i].at)
        BY DEF Asked
      <3>4. Row(i).at = at
        BY DEF RowOf
      <3> HIDE DEF at
      <3>5. ConversationTTL \in Nat /\ ConversationTTL > 0 /\ at \in Int
        BY <1>3, <3>2, <3>3, StoreAssumption
      <3>6. Expired(Row(i), past) <=> at <= past - ConversationTTL
        BY <3>4, <3>5 DEF Expired
      <3>7. i \in I <=> list[i].at > past - ConversationTTL
        OBVIOUS
      <3> HIDE DEF I, Row
      <3>8. i \notin I => at <= past - ConversationTTL
        BY <3>2, <3>3, <3>5, <3>7
      <3>9. ASSUME i \in I, at <= past - ConversationTTL
            PROVE  list[i].role = "assistant" /\ at <= now - ConversationTTL
        BY <3>2, <3>3, <3>5, <3>7, <3>9
      <3> QED BY <3>4, <3>5, <3>6, <3>8, <3>9 DEF Outlived, at
    <2> HIDE DEF I, fresh
    <2>3. /\ IsFiniteSet(I) /\ I \in SUBSET Nat /\ Cardinality(I) \in Nat
          /\ fresh \in Seq(TurnRecords)
          /\ DOMAIN fresh = 1 .. Cardinality(I)
          /\ \A n \in 1 .. Cardinality(I) : fresh[n] = list[Place(I, n)]
      BY <2>1, SiftedType
    <2>4. /\ \A n \in 1 .. Cardinality(I) : Place(I, n) \in I
          /\ \A i \in I : \E n \in 1 .. Cardinality(I) : Place(I, n) = i
          /\ \A m, n \in 1 .. Cardinality(I) : m < n <=> Place(I, m) < Place(I, n)
      BY <2>3, Enumerated
    <2>5. \A n \in DOMAIN fresh : Place(I, n) \in DOMAIN list /\ Place(I, n) \in I
      BY <2>1, <2>3, <2>4
    <2>6. \A n \in DOMAIN fresh : Copy(n) = Row(Place(I, n)) /\ numbers[n] = ids[Place(I, n)]
      BY <2>3
    <2>7. numbers \in [DOMAIN fresh -> 1 .. seq]
      BY <1>1, <2>3, <2>5
    <2> HIDE DEF numbers, Copy, Row
    <2>8. \A i \in DOMAIN list : Row(i) \in OfKey(table2, k)
                                    <=> Row(i) \in OfKey(table, k) /\ ~Expired(Row(i), past)
      OBVIOUS
    <2>9. \A i, j \in DOMAIN list : i < j =>
              /\ ids[i] < ids[j] /\ Asked(list[i]) <= Asked(list[j])
              /\ Row(i) \in OfKey(table2, k) => Row(j) \in OfKey(table2, k)
      <3> SUFFICES ASSUME NEW i \in DOMAIN list, NEW j \in DOMAIN list, i < j
                   PROVE  /\ ids[i] < ids[j] /\ Asked(list[i]) <= Asked(list[j])
                          /\ Row(i) \in OfKey(table2, k) => Row(j) \in OfKey(table2, k)
        OBVIOUS
      <3>1. /\ ids[i] < ids[j] /\ Asked(list[i]) <= Asked(list[j])
            /\ Row(i) \in OfKey(table, k) => Row(j) \in OfKey(table, k)
        BY <1>1 DEF Row
      <3>2. Expired(Row(j), past) => Expired(Row(i), past)
        <4>1. /\ Expired(Row(j), past) <=> Asked(list[j]) <= past - ConversationTTL
              /\ Expired(Row(i), past) <=> Asked(list[i]) <= past - ConversationTTL
              /\ Asked(list[i]) \in Int /\ Asked(list[j]) \in Int
          BY <2>2
        <4> QED BY <3>1, <4>1, StoreAssumption
      <3> QED BY <2>8, <3>1, <3>2
    <2>10. ASSUME NEW m \in DOMAIN fresh, NEW n \in DOMAIN fresh, m < n
           PROVE  /\ numbers[m] < numbers[n] /\ Asked(fresh[m]) <= Asked(fresh[n])
                  /\ Copy(m) \in OfKey(table2, k) => Copy(n) \in OfKey(table2, k)
      <3>1. Place(I, m) < Place(I, n) /\ Place(I, m) \in DOMAIN list /\ Place(I, n) \in DOMAIN list
        BY <2>3, <2>4, <2>5, <2>10
      <3> QED BY <2>3, <2>6, <2>9, <3>1
    <2>11. \A n \in DOMAIN fresh : Asked(fresh[n]) \in 0 .. now
      BY <1>1, <2>3, <2>5
    <2>12. ASSUME NEW n \in DOMAIN fresh
           PROVE  Copy(n) \in OfKey(table2, k) \/ Outlived(fresh[n], now)
      <3> DEFINE i == Place(I, n)
      <3>1. i \in DOMAIN list /\ i \in I /\ fresh[n] = list[i] /\ Copy(n) = Row(i)
        BY <2>3, <2>5, <2>6
      <3>2. Row(i) \in OfKey(table, k) \/ Outlived(list[i], now)
        BY <1>1, <3>1 DEF Row
      <3> HIDE DEF i
      <3>3. Expired(Row(i), past) => Outlived(list[i], now)
        BY <2>2, <3>1
      <3> QED BY <2>8, <3>1, <3>2, <3>3
    <2>13. \A r \in OfKey(table2, k) : \E n \in DOMAIN fresh : r = Copy(n)
      <3> TAKE r \in OfKey(table2, k)
      <3>1. PICK i \in DOMAIN list : r = Row(i)
        BY <1>1 DEF Row
      <3>2. i \in I
        BY <2>2, <2>8, <3>1
      <3> QED BY <2>3, <2>4, <2>6, <3>1, <3>2
    <2>14. Mirrors(k, fresh, table2, seq, now)
      BY <2>7, <2>10, <2>11, <2>12, <2>13 DEF Mirrors, Copy
    <2> QED BY <2>3, <2>14 DEF fresh
  <1> QED BY <1>2, <1>3

\* Among rows that grow newer with their index, as many are newer as come later.
LEMMA NewerOfRising ==
  ASSUME NEW N \in Nat, NEW V \in SUBSET (1 .. N), NEW row,
         \A i \in V, j \in 1 .. N : i < j => j \in V,
         \A i, j \in V : Newer(row[j], row[i]) <=> i < j,
         NEW i \in V
  PROVE  Cardinality({s \in {row[j] : j \in V} : Newer(s, row[i])}) = N - i
  <1> DEFINE later == i + 1 .. N
             newer == {s \in {row[j] : j \in V} : Newer(s, row[i])}
             f == [j \in later |-> row[j]]
  <1>1. i \in 1 .. N /\ \A j \in later : j \in V /\ i < j
    OBVIOUS
  <1>2. \A j \in later : f[j] \in newer
    BY <1>1
  <1>3. \A s \in newer : \E j \in later : f[j] = s
    <2> TAKE s \in newer
    <2>1. PICK j \in V : s = row[j]
      OBVIOUS
    <2>2. i < j /\ j \in 1 .. N
      BY <2>1
    <2>3. j \in later
      BY <1>1, <2>2
    <2> QED BY <2>1, <2>3
  <1>4. \A j, h \in later : f[j] = f[h] => j = h
    <2> SUFFICES ASSUME NEW j \in later, NEW h \in later, row[j] = row[h]
                 PROVE  j = h
      OBVIOUS
    <2>1. j \in V /\ h \in V /\ ~(j < j)
      BY <1>1
    <2>2. ~Newer(row[j], row[j])
      BY <2>1
    <2>3. ~(j < h) /\ ~(h < j)
      BY <2>1, <2>2
    <2> QED BY <2>3
  <1>5. f \in Bijection(later, newer)
    BY <1>2, <1>3, <1>4 DEF Bijection, Injection, IsInjective, Surjection
  <1>6. IsFiniteSet(later) /\ Cardinality(later) = N - i
    <2>1. i + 1 \in Int /\ N \in Int /\ i + 1 >= 1 /\ N >= (i + 1) - 1
      BY <1>1
    <2>2. IsFiniteSet(later) /\ Cardinality(later) = N - (i + 1) + 1
      BY <2>1, PlaceInInterval
    <2> QED BY <1>1, <2>2
  <1> HIDE DEF later, newer, f
  <1>7. Cardinality(newer) = N - i
    BY <1>5, <1>6, FS_Bijection DEF ExistsBijection
  <1> QED BY <1>7 DEF newer

\* The rows of a result in the order in which they grow newer.
LEMMA InOrder ==
  ASSUME NEW W \in SUBSET Nat, IsFiniteSet(W), NEW row,
         \A i, j \in W : Newer(row[j], row[i]) <=> i < j
  PROVE  LET rows == {row[i] : i \in W}
         IN  /\ Cardinality(rows) = Cardinality(W)
             /\ \A n \in 1 .. Cardinality(W) :
                   (CHOOSE r \in rows : Cardinality({s \in rows : Newer(r, s)}) = n - 1)
                      = row[Place(W, n)]
  <1> DEFINE rows == {row[i] : i \in W}
             f == [i \in W |-> row[i]]
             Rank(r) == Cardinality({s \in rows : Newer(r, s)})
  <1>1. \A i, j \in W : row[i] = row[j] => i = j
    <2> SUFFICES ASSUME NEW i \in W, NEW j \in W, row[i] = row[j]
                 PROVE  i = j
      OBVIOUS
    <2>1. ~(i < i)
      OBVIOUS
    <2>2. ~Newer(row[i], row[i])
      BY <2>1
    <2>3. ~(i < j) /\ ~(j < i)
      BY <2>2
    <2> QED BY <2>3
  <1>2. f \in Bijection(W, rows)
    BY <1>1 DEF Bijection, Injection, IsInjective, Surjection
  <1>3. Cardinality(rows) = Cardinality(W)
    <2> HIDE DEF rows, f
    <2> QED BY <1>2, FS_Bijection DEF ExistsBijection
  <1>4. ASSUME NEW i \in W PROVE Rank(row[i]) = Below(W, i)
    <2> DEFINE A == {j \in W : j < i}
               B == {s \in rows : Newer(row[i], s)}
               g == [j \in A |-> row[j]]
    <2>1. g \in Bijection(A, B)
      <3>1. \A j \in A : row[j] \in B
        OBVIOUS
      <3>2. \A s \in B : \E j \in A : row[j] = s
        OBVIOUS
      <3> QED BY <1>1, <3>1, <3>2 DEF Bijection, Injection, IsInjective, Surjection
    <2>2. IsFiniteSet(A)
      BY FS_Subset
    <2> HIDE DEF A, B, g
    <2>3. Cardinality(B) = Cardinality(A)
      BY <2>1, <2>2, FS_Bijection DEF ExistsBijection
    <2> QED BY <2>3 DEF Below, A, B
  <1>5. ASSUME NEW n \in 1 .. Cardinality(W)
        PROVE  (CHOOSE r \in rows : Rank(r) = n - 1) = row[Place(W, n)]
    <2>1. Place(W, n) \in W /\ Below(W, Place(W, n)) = n - 1
      BY Enumerated
    <2>2. row[Place(W, n)] \in rows /\ Rank(row[Place(W, n)]) = n - 1
      BY <1>4, <2>1
    <2>3. \A r \in rows : Rank(r) = n - 1 => r = row[Place(W, n)]
      <3> SUFFICES ASSUME NEW i \in W, Rank(row[i]) = n - 1
                   PROVE  i = Place(W, n)
        OBVIOUS
      <3>1. Below(W, i) = n - 1
        BY <1>4
      <3>2. Below(W, i) \in Int
        BY BelowRises
      <3>3. ~(Below(W, i) < Below(W, Place(W, n))) /\ ~(Below(W, Place(W, n)) < Below(W, i))
        BY <2>1, <3>1, <3>2
      <3>4. ~(i < Place(W, n)) /\ ~(Place(W, n) < i)
        BY <2>1, <3>3, BelowRises
      <3>5. i \in Nat /\ Place(W, n) \in Nat
        BY <2>1
      <3> QED BY <3>4, <3>5
    <2> HIDE DEF rows, Rank
    <2> QED BY <2>2, <2>3
  <1> QED BY <1>3, <1>5

-------------------------------------------------------------------------------
(* What load_turns returns. *)

\* The turns that Fresh keeps, and those of some turns that the model gets.
Kept(list, now) ==
    {i \in DOMAIN list : ConversationTTL = 0 \/ list[i].at > now - ConversationTTL}

Last(list, V) == {i \in V : Len(list) - i < 2 * HistoryTurns}

LEMMA FreshIsSifted ==
  ASSUME NEW list \in Seq(TurnRecords), NEW now
  PROVE  Fresh(list, now) = Sifted(list, Kept(list, now))
  <1>1. CASE ConversationTTL = 0
    <2>1. SubSeq(list, 1, Len(list)) = list /\ 1 \in 1 .. Len(list) + 1
      OBVIOUS
    <2>2. Sifted(list, 1 .. Len(list)) = list
      BY <2>1, SiftedInterval
    <2>3. Kept(list, now) = 1 .. Len(list)
      BY <1>1 DEF Kept
    <2> QED BY <1>1, <2>2, <2>3 DEF Fresh
  <1>2. CASE ConversationTTL # 0
    <2>1. Kept(list, now) = {i \in DOMAIN list : list[i].at > now - ConversationTTL}
      BY <1>2 DEF Kept
    <2> QED BY <1>2, <2>1 DEF Fresh
  <1> QED BY <1>1, <1>2

\* Members of an interval with all that come after them are its end.
LEMMA EndOfInterval ==
  ASSUME NEW c \in Nat, NEW J \in SUBSET (1 .. c),
         \A i \in J, j \in 1 .. c : i < j => j \in J
  PROVE  Cardinality(J) \in 0 .. c /\ J = c - Cardinality(J) + 1 .. c
  <1>1. IsFiniteSet(J) /\ J \in SUBSET Nat /\ Cardinality(J) \in Nat
    <2>1. IsFiniteSet(1 .. c)
      BY FS_Interval
    <2>2. IsFiniteSet(J)
      BY <2>1, FS_Subset
    <2>3. Cardinality(J) \in Nat
      BY <2>2, FS_CardinalityType
    <2> QED BY <2>2, <2>3
  <1>2. CASE J = {}
    <2>1. Cardinality(J) = 0
      BY <1>2, FS_EmptySet
    <2> QED BY <1>2, <2>1
  <1>3. CASE J # {}
    <2>1. Cardinality(J) # 0
      BY <1>1, <1>3, FS_EmptySet
    <2> DEFINE first == Place(J, 1)
    <2>2. first \in J /\ Below(J, first) = 0
      <3>1. 1 \in 1 .. Cardinality(J)
        BY <1>1, <2>1
      <3>2. Place(J, 1) \in J /\ Below(J, Place(J, 1)) = 1 - 1
        BY <1>1, <3>1, Enumerated
      <3> QED BY <3>2
    <2> HIDE DEF first
    <2>3. \A j \in J : ~(j < first)
      <3> SUFFICES ASSUME NEW j \in J, j < first PROVE FALSE
        OBVIOUS
      <3>1. Below(J, j) \in 0 .. Cardinality(J) - 1 /\ Below(J, j) < Below(J, first)
        BY <1>1, <2>2, BelowRises
      <3> QED BY <1>1, <2>2, <3>1
    <2>4. J = first .. c /\ first \in 1 .. c
      <3>1. \A j \in J : j \in first .. c
        BY <2>2, <2>3
      <3>2. \A j \in first .. c : j \in J
        BY <2>2
      <3> QED BY <2>2, <3>1, <3>2
    <2>5. Cardinality(first .. c) = c - first + 1
      BY <2>4, PlaceInInterval
    <2>6. Cardinality(J) = c - first + 1
      BY <2>4, <2>5
    <2> QED BY <2>4, <2>6
  <1> QED BY <1>2, <1>3

\* When what is given is the end of what Fresh keeps, MemoryStore returns the last of
\* it, and before it only turns that are kept and not given.
LEMMA LoadedEnds ==
  ASSUME NEW k, NEW now \in Nat, lists[k] \in Seq(TurnRecords),
         NEW V \in SUBSET Kept(lists[k], now),
         \A i \in V, j \in DOMAIN lists[k] : i < j => j \in V
  PROVE  LET loaded == Loaded(k, now)
             W == Last(lists[k], V)
             more == Len(loaded) - Cardinality(W)
         IN  /\ loaded \in Seq(TurnRecords) /\ more \in Nat
             /\ SubSeq(loaded, more + 1, Len(loaded)) = Sifted(lists[k], W)
             /\ \A m \in 1 .. more : \E i \in Kept(lists[k], now) \ V : loaded[m] = lists[k][i]
  <1> DEFINE list == lists[k]
             N == Len(list)
             H == 2 * HistoryTurns
             I == Kept(list, now)
             fresh == Fresh(list, now)
             W == Last(list, V)
  <1>1. fresh = Sifted(list, I) /\ I \in SUBSET DOMAIN list
    BY FreshIsSifted DEF Kept
  <1>2. N \in Nat /\ DOMAIN list = 1 .. N /\ list \in Seq(TurnRecords)
    OBVIOUS
  <1>3. H \in Nat
    BY StoreAssumption
  <1>V. V \in SUBSET I /\ \A i \in V, j \in DOMAIN list : i < j => j \in V
    OBVIOUS
  <1>W. W = {i \in V : N - i < H}
    BY DEF Last
  <1> DEFINE n == Cardinality(I)
             a == IF n <= H THEN 1 ELSE n - H + 1
             kept == {Place(I, m) : m \in a .. n}
  <1> HIDE DEF N, H, I, W, fresh
  <1>4. /\ IsFiniteSet(I) /\ I \in SUBSET Nat /\ n \in Nat
        /\ fresh \in Seq(TurnRecords) /\ Len(fresh) = n
    BY <1>1, <1>2, SiftedType
  <1>5. /\ \A m \in 1 .. n : Place(I, m) \in I /\ Below(I, Place(I, m)) = m - 1
        /\ \A i \in I : \E m \in 1 .. n : Place(I, m) = i
    BY <1>4, Enumerated
  <1>6. Loaded(k, now) = IF n <= H THEN fresh ELSE SubSeq(fresh, n - H + 1, n)
    BY <1>4 DEF Loaded, H, fresh
  <1>7. a \in 1 .. n + 1 /\ a .. n \in SUBSET (1 .. n)
    <2> HIDE DEF n
    <2> QED BY <1>3, <1>4
  <1>8. Loaded(k, now) = Sifted(fresh, a .. n)
    <2>1. Sifted(fresh, a .. n) = SubSeq(fresh, a, n)
      BY <1>4, <1>7, SiftedInterval
    <2>2. SubSeq(fresh, 1, n) = fresh
      BY <1>4
    <2> HIDE DEF n
    <2> QED BY <1>6, <2>1, <2>2
  <1>9. kept \in SUBSET I /\ Loaded(k, now) = Sifted(list, kept)
    <2> DEFINE J == a .. n
    <2>1. J \in SUBSET (1 .. Cardinality(I))
      BY <1>7
    <2>2. kept = {Place(I, m) : m \in J} /\ Loaded(k, now) = Sifted(fresh, J)
      BY <1>8
    <2> HIDE DEF J, kept, a, n, list
    <2>3. /\ {Place(I, m) : m \in J} \in SUBSET I
          /\ Sifted(Sifted(list, I), J) = Sifted(list, {Place(I, m) : m \in J})
      BY <1>1, <1>2, <2>1, SiftedTwice
    <2> QED BY <1>1, <2>2, <2>3
  <1> DEFINE loaded == Loaded(k, now)
             c == Cardinality(kept)
             given == {m \in 1 .. c : Place(kept, m) \in V}
             f == [m \in given |-> Place(kept, m)]
             K == {Place(kept, m) : m \in given}
  <1> HIDE DEF kept, list
  <1>10. kept \in SUBSET DOMAIN list
    BY <1>1, <1>9
  <1>11. /\ IsFiniteSet(kept) /\ kept \in SUBSET Nat /\ c \in Nat
         /\ loaded \in Seq(TurnRecords) /\ DOMAIN loaded = 1 .. c /\ Len(loaded) = c
         /\ \A m \in 1 .. c : loaded[m] = list[Place(kept, m)]
    BY <1>2, <1>9, <1>10, SiftedType
  <1>12. /\ \A m \in 1 .. c : Place(kept, m) \in kept
         /\ \A i \in kept : \E m \in 1 .. c : Place(kept, m) = i
         /\ \A m, h \in 1 .. c : m < h <=> Place(kept, m) < Place(kept, h)
    BY <1>11, Enumerated
  <1>13. given \in SUBSET (1 .. Cardinality(kept))
    OBVIOUS
  <1>14. ASSUME NEW i \in V PROVE i \in kept <=> N - i < H
    <2>1. i \in I /\ i \in 1 .. N
      BY <1>1, <1>2, <1>V
    <2>2. PICK m \in 1 .. n : Place(I, m) = i
      BY <1>5, <2>1
    <2>3. Below(I, i) = m - 1
      BY <1>5, <2>2
    <2>4. n = Below(I, i) + (N - i + 1)
      <3> DEFINE A == {j \in I : j < i}
      <3>1. \A j \in i .. N : j \in I
        <4> TAKE j \in i .. N
        <4>1. j \in DOMAIN list /\ (i = j \/ i < j)
          BY <1>2, <2>1
        <4> QED BY <1>V, <4>1
      <3>2. I = A \cup (i .. N) /\ A \cap (i .. N) = {}
        <4>1. \A j \in I : j < i \/ j \in i .. N
          BY <1>1, <1>2, <2>1
        <4>2. \A j \in A : j \notin i .. N
          BY <1>4, <2>1
        <4> QED BY <3>1, <4>1, <4>2
      <3>3. IsFiniteSet(A)
        BY <1>4, FS_Subset
      <3>4. IsFiniteSet(i .. N) /\ Cardinality(i .. N) = N - i + 1
        BY <1>2, <2>1, PlaceInInterval
      <3>5. Cardinality(A) = Below(I, i)
        BY DEF Below
      <3> HIDE DEF A
      <3>6. Cardinality(A \cup (i .. N)) = Cardinality(A) + Cardinality(i .. N)
                                            - Cardinality(A \cap (i .. N))
        BY <3>3, <3>4, FS_Union
      <3>7. Cardinality(A \cap (i .. N)) = 0 /\ Cardinality(A) \in Nat
        BY <3>2, <3>3, FS_EmptySet, FS_CardinalityType
      <3> QED BY <1>2, <2>1, <3>2, <3>4, <3>5, <3>6, <3>7
    <2>5. n - m = N - i
      <3> HIDE DEF n
      <3> QED BY <1>2, <1>4, <2>1, <2>2, <2>3, <2>4
    <2>6. i \in kept <=> m \in a .. n
      <3>1. \A h \in 1 .. n : Place(I, h) = i => h = m
        <4> SUFFICES ASSUME NEW h \in 1 .. n, Place(I, h) = i PROVE h = m
          OBVIOUS
        <4>1. h - 1 = m - 1
          BY <1>5, <2>3
        <4> QED BY <4>1, <1>4
      <3> HIDE DEF n, a
      <3> QED BY <1>7, <2>2, <3>1 DEF kept
    <2>7. m \in a .. n <=> n - m < H
      <3> HIDE DEF n
      <3> QED BY <1>3, <1>4
    <2> QED BY <2>5, <2>6, <2>7
  <1>15. K = W
    <2>1. K = {i \in kept : i \in V}
      BY <1>12
    <2>2. {i \in kept : i \in V} = {i \in V : N - i < H}
      BY <1>14
    <2> HIDE DEF K
    <2> QED BY <1>W, <2>1, <2>2
  <1>16. Cardinality(W) = Cardinality(given)
    <2>1. f \in [given -> Nat] /\ \A i, j \in given : i < j => f[i] < f[j]
      BY <1>11, <1>12
    <2>2. K = {f[m] : m \in given}
      OBVIOUS
    <2>3. IsFiniteSet(given) /\ given \in SUBSET Nat
      <3>1. IsFiniteSet(1 .. c)
        BY <1>11, FS_Interval
      <3>2. given \in SUBSET (1 .. c)
        OBVIOUS
      <3>3. c \in Nat
        BY <1>11
      <3> HIDE DEF given, c
      <3>4. IsFiniteSet(given)
        BY <3>1, <3>2, FS_Subset
      <3> QED BY <3>2, <3>3, <3>4
    <2> HIDE DEF f, K, given
    <2>4. Cardinality({f[m] : m \in given}) = Cardinality(given)
      BY <2>1, <2>3, PlacesRise
    <2> QED BY <1>15, <2>2, <2>4
  <1>17. \A i \in given, j \in 1 .. c : i < j => j \in given
    <2> SUFFICES ASSUME NEW i \in given, NEW j \in 1 .. c, i < j
                 PROVE  Place(kept, j) \in V
      OBVIOUS
    <2>1. Place(kept, i) \in V /\ Place(kept, i) < Place(kept, j) /\ Place(kept, j) \in kept
      BY <1>12
    <2> QED BY <1>10, <1>V, <2>1
  <1>18. Sifted(loaded, given) = Sifted(list, W)
    <2>1. Sifted(loaded, given) = Sifted(list, K)
      <3> HIDE DEF given
      <3> QED BY <1>2, <1>9, <1>10, <1>13, SiftedTwice
    <2> QED BY <1>15, <2>1
  <1> DEFINE more == Len(loaded) - Cardinality(W)
  <1>19. c \in Nat /\ given \in SUBSET (1 .. c)
    BY <1>11
  <1>20. Cardinality(given) \in 0 .. c /\ given = c - Cardinality(given) + 1 .. c
    <2> HIDE DEF given, c
    <2> QED BY <1>17, <1>19, EndOfInterval
  <1>21. more \in Nat /\ more <= c /\ given = more + 1 .. Len(loaded) /\ Len(loaded) = c
    <2> HIDE DEF given, c, loaded
    <2> QED BY <1>11, <1>16, <1>20
  <1>22. SubSeq(loaded, more + 1, Len(loaded)) = Sifted(list, W)
    <2>1. more + 1 \in 1 .. Len(loaded) + 1
      BY <1>19, <1>21
    <2> HIDE DEF given, c, loaded, more
    <2>2. Sifted(loaded, more + 1 .. Len(loaded)) = SubSeq(loaded, more + 1, Len(loaded))
      BY <1>11, <2>1, SiftedInterval
    <2> QED BY <1>18, <1>21, <2>2
  <1>23. ASSUME NEW m \in 1 .. more PROVE \E i \in I \ V : loaded[m] = list[i]
    <2>1. m \in 1 .. c /\ m \notin given
      <3> HIDE DEF given, c, loaded, more
      <3> QED BY <1>19, <1>21
    <2>2. Place(kept, m) \in kept /\ Place(kept, m) \notin V
      BY <1>12, <2>1
    <2> QED BY <1>9, <1>11, <2>1, <2>2
  <1> HIDE DEF loaded
  <1> QED BY <1>11, <1>21, <1>22, <1>23 DEF list, W, I, loaded

\* SQLiteStore returns such turns; those it has lost and the list has not are answers
\* that have outlived their questions.
LEMMA RowsAreGiven ==
  ASSUME NEW k, NEW now \in Nat, NEW past \in 0 .. now, NEW seq \in Nat,
         lists[k] \in Seq(TurnRecords), Mirrors(k, lists[k], turns, seq, now)
  PROVE  \E V \in SUBSET Kept(lists[k], past) :
            /\ \A i \in V, j \in DOMAIN lists[k] : i < j => j \in V
            /\ \A i \in Kept(lists[k], past) \ V : Outlived(lists[k][i], now)
            /\ Len(Rows(k, past)) = Cardinality(Last(lists[k], V))
            /\ Contents(Rows(k, past)) = Contents(Sifted(lists[k], Last(lists[k], V)))
  <1> DEFINE list == lists[k]
             N == Len(list)
  <1>1. PICK ids \in [DOMAIN list -> 1 .. seq] :
            LET Held(i) == RowOf(k, list[i], ids[i]) \in OfKey(turns, k)
            IN  /\ \A i, j \in DOMAIN list : i < j =>
                      /\ ids[i] < ids[j] /\ Asked(list[i]) <= Asked(list[j])
                      /\ Held(i) => Held(j)
                /\ \A i \in DOMAIN list : Asked(list[i]) \in 0 .. now
                /\ \A i \in DOMAIN list : Held(i) \/ Outlived(list[i], now)
                /\ \A r \in OfKey(turns, k) :
                      \E i \in DOMAIN list : r = RowOf(k, list[i], ids[i])
    BY DEF Mirrors
  <1> DEFINE row == [i \in DOMAIN list |-> RowOf(k, list[i], ids[i])]
             V == {i \in DOMAIN list : row[i] \in OfKey(turns, k) /\ ~Expired(row[i], past)}
             W == Last(list, V)
  <1>2. N \in Nat /\ DOMAIN list = 1 .. N
    OBVIOUS
  <1>3. 2 * HistoryTurns \in Nat /\ ConversationTTL \in Nat
    BY StoreAssumption
  <1>4. \A i \in DOMAIN list : /\ row[i].id = ids[i] /\ row[i].at = Asked(list[i])
                               /\ row[i].role = list[i].role /\ row[i].event = list[i].event
    BY DEF RowOf
  <1>5. ASSUME NEW i \in DOMAIN list
        PROVE  /\ Asked(list[i]) \in Int
               /\ Expired(row[i], past)
                    <=> ConversationTTL > 0 /\ Asked(list[i]) <= past - ConversationTTL
               /\ i \notin Kept(list, past) => Expired(row[i], past)
               /\ i \in Kept(list, past) /\ Expired(row[i], past) => Outlived(list[i], now)
    <2> DEFINE at == Asked(list[i])
    <2>1. list[i] \in TurnRecords
      OBVIOUS
    <2>2. list[i].at \in Nat /\ list[i].role \in Roles
      BY <2>1 DEF TurnRecords
    <2>3. at = (IF list[i].role = "assistant" THEN list[i].at - 1 ELSE list[i].at)
      BY DEF Asked
    <2>4. row[i].at = at
      BY <1>4
    <2>5. i \in Kept(list, past) <=> ConversationTTL = 0 \/ list[i].at > past - ConversationTTL
      BY DEF Kept
    <2> HIDE DEF at, row, list
    <2>6. at \in Int
      BY <2>2, <2>3
    <2>7. Expired(row[i], past) <=> ConversationTTL > 0 /\ at <= past - ConversationTTL
      BY <2>4 DEF Expired
    <2>8. ASSUME i \notin Kept(list, past) PROVE ConversationTTL > 0 /\ at <= past - ConversationTTL
      <3>1. ConversationTTL # 0 /\ ~(list[i].at > past - ConversationTTL) /\ past \in Int
        BY <2>5, <2>8
      <3>2. at \in Int /\ at <= list[i].at
        BY <2>2, <2>3
      <3> QED BY <1>3, <2>2, <3>1, <3>2
    <2>9. ASSUME i \in Kept(list, past), ConversationTTL > 0, at <= past - ConversationTTL
          PROVE  list[i].role = "assistant" /\ at <= now - ConversationTTL
      BY <1>3, <2>2, <2>3, <2>5, <2>9
    <2> QED BY <2>6, <2>7, <2>8, <2>9 DEF Outlived, at
  <1>6. V \in SUBSET Kept(list, past)
    BY <1>5
  <1>7. OfKey(AfterLoad(turns, k, past), k) = {row[i] : i \in V}
    <2>1. OfKey(AfterLoad(turns, k, past), k) = {r \in OfKey(turns, k) : ~Expired(r, past)}
      BY DEF OfKey, AfterLoad
    <2>2. \A r \in OfKey(turns, k) : \E i \in DOMAIN list : r = row[i]
      BY <1>1
    <2> HIDE DEF row
    <2> QED BY <2>1, <2>2
  <1>8. \A i, j \in DOMAIN list : Newer(row[j], row[i]) <=> i < j
    <2> SUFFICES ASSUME NEW i \in DOMAIN list, NEW j \in DOMAIN list
                 PROVE  Newer(row[j], row[i]) <=> i < j
      OBVIOUS
    <2> DEFINE ti == Asked(list[i])
               tj == Asked(list[j])
    <2>1. ti \in Nat /\ tj \in Nat /\ ids[i] \in Nat /\ ids[j] \in Nat
      BY <1>1
    <2>2. (i < j => ids[i] < ids[j] /\ ti <= tj) /\ (j < i => ids[j] < ids[i] /\ tj <= ti)
      BY <1>1
    <2>3. Newer(row[j], row[i]) <=> tj > ti \/ (tj = ti /\ ids[j] > ids[i])
      BY <1>4 DEF Newer
    <2>4. i < j \/ j < i \/ i = j
      OBVIOUS
    <2>5. i \in Nat /\ j \in Nat
      OBVIOUS
    <2> HIDE DEF ti, tj, row
    <2>6. CASE i = j
      BY <2>1, <2>3, <2>5, <2>6 DEF ti, tj
    <2>7. CASE i # j
      BY <2>1, <2>2, <2>3, <2>4, <2>5, <2>7
    <2> QED BY <2>6, <2>7
  <1>9. V \in SUBSET (1 .. N) /\ \A i \in V, j \in 1 .. N : i < j => j \in V
    <2> SUFFICES ASSUME NEW i \in V, NEW j \in 1 .. N, i < j PROVE j \in V
      BY <1>2
    <2>1. i \in DOMAIN list /\ j \in DOMAIN list /\ row[i] \in OfKey(turns, k)
          /\ ~Expired(row[i], past)
      BY <1>2
    <2>2. row[j] \in OfKey(turns, k) /\ Asked(list[i]) <= Asked(list[j])
      BY <1>1, <2>1
    <2>3. /\ Asked(list[i]) \in Int /\ Asked(list[j]) \in Int
          /\ Expired(row[i], past) <=> ConversationTTL > 0 /\ Asked(list[i]) <= past - ConversationTTL
          /\ Expired(row[j], past) <=> ConversationTTL > 0 /\ Asked(list[j]) <= past - ConversationTTL
      BY <1>5, <2>1
    <2> DEFINE ti == Asked(list[i])
               tj == Asked(list[j])
    <2> HIDE DEF ti, tj, row
    <2>4. ~Expired(row[j], past)
      BY <1>3, <2>1, <2>2, <2>3 DEF ti, tj
    <2> QED BY <2>1, <2>2, <2>4
  <1>10. ASSUME NEW i \in Kept(list, past) \ V PROVE Outlived(list[i], now)
    <2>1. i \in DOMAIN list
      BY DEF Kept
    <2>2. row[i] \in OfKey(turns, k) \/ Outlived(list[i], now)
      BY <1>1, <2>1
    <2>3. row[i] \notin OfKey(turns, k) \/ Expired(row[i], past)
      BY <2>1
    <2> HIDE DEF row
    <2> QED BY <1>5, <2>1, <2>2, <2>3
  <1> HIDE DEF V, N, row
  <1>W. W = {i \in V : N - i < 2 * HistoryTurns}
    BY DEF Last, N
  <1>11. LoadTurns(turns, k, past) = {row[i] : i \in W}
    <2>1. \A i, j \in V : Newer(row[j], row[i]) <=> i < j
      BY <1>2, <1>8, <1>9
    <2> DEFINE live == {row[i] : i \in V}
               Rank(r) == Cardinality({s \in live : Newer(s, r)})
    <2> HIDE DEF W, list
    <2>2. \A i \in V : Rank(row[i]) = N - i
      BY <1>2, <1>9, <2>1, NewerOfRising
    <2>3. LoadTurns(turns, k, past) = {r \in live : Rank(r) < 2 * HistoryTurns}
      BY <1>7 DEF LoadTurns, Newest
    <2> HIDE DEF Rank
    <2> QED BY <1>W, <2>2, <2>3
  <1>12. W \in SUBSET DOMAIN list
    BY <1>2, <1>9, <1>W
  <1> HIDE DEF W
  <1>13. /\ IsFiniteSet(W) /\ W \in SUBSET Nat /\ Cardinality(W) \in Nat
         /\ DOMAIN Sifted(list, W) = 1 .. Cardinality(W)
         /\ \A n \in 1 .. Cardinality(W) : Sifted(list, W)[n] = list[Place(W, n)]
    BY <1>12, SiftedType
  <1>14. \A n \in 1 .. Cardinality(W) : Place(W, n) \in W
    BY <1>13, Enumerated
  <1>15. Rows(k, past) = [n \in 1 .. Cardinality(W) |-> row[Place(W, n)]]
    <2> DEFINE rows == {row[i] : i \in W}
    <2>1. \A i, j \in W : Newer(row[j], row[i]) <=> i < j
      BY <1>8, <1>12
    <2>2. /\ Cardinality(rows) = Cardinality(W)
          /\ \A n \in 1 .. Cardinality(W) :
                (CHOOSE r \in rows : Cardinality({s \in rows : Newer(r, s)}) = n - 1)
                   = row[Place(W, n)]
      BY <1>13, <2>1, InOrder
    <2>3. LoadTurns(turns, k, past) = rows
      BY <1>11
    <2> HIDE DEF rows
    <2> QED BY <2>2, <2>3 DEF Rows
  <1>16. \A n \in 1 .. Cardinality(W) : /\ row[Place(W, n)].role = Sifted(list, W)[n].role
                                        /\ row[Place(W, n)].event = Sifted(list, W)[n].event
    BY <1>4, <1>12, <1>13, <1>14
  <1>17. Len(Rows(k, past)) = Cardinality(W)
    <2>1. Rows(k, past) \in [1 .. Cardinality(W) -> {row[i] : i \in W}]
      BY <1>14, <1>15
    <2> QED BY <1>13, <2>1
  <1>18. Contents(Rows(k, past)) = Contents(Sifted(list, W))
    BY <1>13, <1>15, <1>16 DEF Contents
  <1>19. \A i \in V, j \in DOMAIN list : i < j => j \in V
    BY <1>2, <1>9
  <1> QED BY <1>6, <1>10, <1>17, <1>18, <1>19 DEF W

-------------------------------------------------------------------------------
(* The coupling invariant. *)

\* Both stores hold the same claims.
ClaimsCoupled ==
    /\ \A e \in DOMAIN events : events[e] \in Nat
    /\ claims = {[event |-> e, expires |-> events[e]] : e \in DOMAIN events}

\* Every window that ends at the last purge or later holds as many rows as times.
RatesCoupled ==
    /\ rates \subseteq [id : Nat, scope : Scopes, at : Nat] /\ IsFiniteSet(rates)
    /\ times \in [Scopes -> Seq(Nat)]
    /\ \A s \in Scopes, c \in swept - Window .. MaxTime :
          Cardinality(Young(rates, s, c)) = Cardinality(Since(times[s], c))

TurnsCoupled ==
    /\ turnSeq \in Nat
    /\ lists \in [Keys -> Seq(TurnRecords)]
    /\ \A k \in Keys : Mirrors(k, lists[k], turns, turnSeq, clock)

ReadingsInv == clock \in 0 .. MaxTime /\ swept \in 0 .. clock

StoresInv == ReadingsInv /\ ClaimsCoupled /\ RatesCoupled /\ TurnsCoupled

\* Two empty stores are coupled.
LEMMA InitStoresInv == Init => StoresInv
  <1> SUFFICES ASSUME Init PROVE StoresInv
    OBVIOUS
  <1> USE MemoryAssumption DEF Init
  <1>1. ReadingsInv
    BY DEF ReadingsInv
  <1>2. ClaimsCoupled
    BY DEF ClaimsCoupled
  <1>3. RatesCoupled
    <2>1. \A s \in Scopes : times[s] = <<>> /\ DOMAIN times[s] = {}
      OBVIOUS
    <2>2. \A s \in Scopes, c \in swept - Window .. MaxTime :
              Young(rates, s, c) = {} /\ Since(times[s], c) = {}
      BY <2>1 DEF Young, Since
    <2>3. rates = {} /\ IsFiniteSet(rates) /\ times \in [Scopes -> Seq(Nat)]
      BY FS_EmptySet
    <2>4. rates \subseteq [id : Nat, scope : Scopes, at : Nat]
      OBVIOUS
    <2> QED BY <2>2, <2>3, <2>4 DEF RatesCoupled
  <1>4. TurnsCoupled
    <2>1. \A k \in Keys : lists[k] = <<>> /\ OfKey(turns, k) = {}
      BY DEF OfKey
    <2>2. \A k \in Keys : Mirrors(k, lists[k], turns, turnSeq, clock)
      <3> TAKE k \in Keys
      <3>1. DOMAIN lists[k] = {} /\ lists[k] \in [DOMAIN lists[k] -> 1 .. turnSeq]
        BY <2>1
      <3> QED BY <2>1, <3>1 DEF Mirrors
    <2> QED BY <2>2 DEF TurnsCoupled
  <1> QED BY <1>1, <1>2, <1>3, <1>4 DEF StoresInv

\* What a reading of the clock may be.
LEMMA ReadingsType ==
  ASSUME ReadingsInv
  PROVE  /\ clock \in Nat /\ swept \in Nat
         /\ \A now \in Readings : now \in Nat /\ now \in 0 .. clock /\ now <= MaxTime
                                  /\ swept <= now /\ now - Window \in swept - Window .. MaxTime
  BY MemoryAssumption DEF ReadingsInv, Readings

\* A claim is won in the one store iff it is won in the other.
LEMMA ClaimedAlike ==
  ASSUME ClaimsCoupled, NEW e, NEW now
  PROVE  ClaimWins(claims, e, now) <=> e \notin {f \in DOMAIN events : events[f] > now}
  <1> USE DEF ClaimsCoupled
  <1>1. ASSUME NEW c \in claims, c.expires > now, c.event = e
        PROVE  e \in DOMAIN events /\ events[e] > now
    BY <1>1
  <1>2. ASSUME e \in DOMAIN events, events[e] > now
        PROVE  \E c \in claims : c.expires > now /\ c.event = e
    <2>1. [event |-> e, expires |-> events[e]] \in claims
      BY <1>2
    <2> QED BY <1>2, <2>1
  <1> QED BY <1>1, <1>2 DEF ClaimWins, LiveClaims

\* A request passes the one store iff it passes the other.
LEMMA AllowedAlike ==
  ASSUME ReadingsInv, RatesCoupled, NEW s \in Scopes, NEW now \in Readings
  PROVE  RateAllows(rates, s, Limit, Window, now) <=> Len(Current(s, now)) < Limit
  <1> USE MemoryAssumption
  <1> DEFINE c == now - Window
  <1>1. c \in Int /\ c \in swept - Window .. MaxTime
    BY ReadingsType
  <1>2. Cardinality(Young(rates, s, c)) = Cardinality(Since(times[s], c))
    BY <1>1 DEF RatesCoupled
  <1>3. times[s] \in Seq(Nat)
    BY DEF RatesCoupled
  <1>4. Len(After(c, times[s])) = Cardinality(Since(times[s], c))
    BY <1>1, <1>3, AfterCounts
  <1>5. InWindow(rates, s, Window, now) = Young(rates, s, c)
    BY DEF InWindow, Young
  <1> QED BY <1>2, <1>4, <1>5 DEF RateAllows, Current

\* The inductive invariant says more than the agreement of the answers.
LEMMA CoupledAgree == StoresInv => StoresAgree
  <1> SUFFICES ASSUME StoresInv, NEW now \in Readings
               PROVE  ClaimsAgree(now) /\ RatesAgree(now) /\ TurnsAgree(now)
    BY DEF StoresAgree
  <1>1. /\ clock \in Nat /\ now \in 0 .. clock /\ now \in Nat
        /\ ReadingsInv /\ ClaimsCoupled /\ RatesCoupled /\ TurnsCoupled
    BY ReadingsType DEF StoresInv
  <1>2. ClaimsAgree(now)
    BY <1>1, ClaimedAlike DEF ClaimsAgree, LiveEvents
  <1>3. RatesAgree(now)
    BY <1>1, AllowedAlike DEF RatesAgree
  <1>4. ASSUME NEW k \in Keys
        PROVE  LET list == Loaded(k, now)
                   more == Len(list) - Len(Rows(k, now))
               IN  /\ more >= 0
                   /\ Contents(SubSeq(list, more + 1, Len(list))) = Contents(Rows(k, now))
                   /\ \A i \in 1 .. more : LeftOver(list[i])
    <2>1. lists[k] \in Seq(TurnRecords) /\ turnSeq \in Nat
          /\ Mirrors(k, lists[k], turns, turnSeq, clock)
      BY <1>1 DEF TurnsCoupled
    <2>2. PICK V \in SUBSET Kept(lists[k], now) :
              /\ \A i \in V, j \in DOMAIN lists[k] : i < j => j \in V
              /\ \A i \in Kept(lists[k], now) \ V : Outlived(lists[k][i], clock)
              /\ Len(Rows(k, now)) = Cardinality(Last(lists[k], V))
              /\ Contents(Rows(k, now)) = Contents(Sifted(lists[k], Last(lists[k], V)))
      BY <1>1, <2>1, RowsAreGiven
    <2> DEFINE loaded == Loaded(k, now)
               more == Len(loaded) - Cardinality(Last(lists[k], V))
    <2>3. /\ more \in Nat
          /\ SubSeq(loaded, more + 1, Len(loaded)) = Sifted(lists[k], Last(lists[k], V))
          /\ \A m \in 1 .. more : \E i \in Kept(lists[k], now) \ V : loaded[m] = lists[k][i]
      BY <1>1, <2>1, <2>2, LoadedEnds
    <2>4. \A turn : Outlived(turn, clock) => LeftOver(turn)
      BY DEF Outlived, LeftOver, Asked
    <2> HIDE DEF loaded
    <2>5. \A m \in 1 .. more : LeftOver(loaded[m])
      BY <2>2, <2>3, <2>4
    <2>6. more = Len(loaded) - Len(Rows(k, now)) /\ more >= 0
      BY <2>2, <2>3
    <2> QED BY <2>2, <2>3, <2>5, <2>6 DEF loaded
  <1> QED BY <1>2, <1>3, <1>4 DEF TurnsAgree

\* The clock goes on, and no call changes the time of the last purge but a purge.
LEMMA NextReadings ==
  ASSUME ReadingsInv, [Next]_vars
  PROVE  ReadingsInv'
  <1> USE MemoryAssumption DEF ReadingsInv
  <1>1. CASE UNCHANGED <<clock, swept>>
    BY <1>1
  <1>2. CASE Purge
    <2>1. swept' = clock /\ clock' = clock
      BY <1>2 DEF Purge
    <2> QED BY <2>1
  <1>3. CASE Tick
    <2>1. clock' = clock + 1 /\ clock < MaxTime /\ swept' = swept
      BY <1>3 DEF Tick
    <2> QED BY <2>1
  <1> QED BY <1>1, <1>2, <1>3
      DEF Next, ClaimEvent, AllowRequest, Load, ResetTurns, AppendTurns, vars

\* Each call leaves the same events claimed in both stores.
LEMMA NextClaims ==
  ASSUME StoresInv, [Next]_vars
  PROVE  ClaimsCoupled'
  <1> USE StoreAssumption DEF ClaimsCoupled
  <1>1. ReadingsInv /\ ClaimsCoupled /\ EventTTL \in Nat
    BY DEF StoresInv
  <1>2. ASSUME NEW e \in Events, NEW now \in Readings, ClaimEvent(e, now) PROVE ClaimsCoupled'
    <2> DEFINE live == {f \in DOMAIN events : events[f] > now}
               row == [event |-> e, expires |-> now + EventTTL]
               New(f) == IF f \in live THEN events[f] ELSE now + EventTTL
    <2>1. /\ claims' = LiveClaims(claims, now) \cup {c \in {row} : ClaimWins(claims, e, now)}
          /\ events' = [f \in live \cup {e} |-> New(f)]
      BY <1>2 DEF ClaimEvent, AfterClaim, LiveEvents
    <2>2. ClaimWins(claims, e, now) <=> e \notin live
      BY <1>1, ClaimedAlike
    <2>3. now + EventTTL \in Nat
      BY <1>1, ReadingsType
    <2>4. LiveClaims(claims, now) = {[event |-> f, expires |-> events[f]] : f \in live}
      BY <1>1 DEF LiveClaims
    <2>5. \A f \in live \cup {e} : New(f) \in Nat
      BY <1>1, <2>3
    <2> HIDE DEF live
    <2>6. claims' = {[event |-> f, expires |-> New(f)] : f \in live \cup {e}}
      <3>1. CASE e \in live
        <4>1. claims' = LiveClaims(claims, now) /\ live \cup {e} = live
          BY <2>1, <2>2, <3>1
        <4> QED BY <2>4, <4>1
      <3>2. CASE e \notin live
        <4>1. claims' = LiveClaims(claims, now) \cup {row} /\ row = [event |-> e, expires |-> New(e)]
          BY <2>1, <2>2, <3>2
        <4>2. \A f \in live : New(f) = events[f]
          OBVIOUS
        <4> HIDE DEF New, row
        <4> QED BY <2>4, <4>1, <4>2
      <3> QED BY <3>1, <3>2
    <2> HIDE DEF New
    <2> QED BY <2>1, <2>5, <2>6
  <1>3. CASE Purge
    <2>1. /\ claims' = {c \in claims : c.expires > clock}
          /\ events' = [f \in {g \in DOMAIN events : events[g] > clock} |-> events[f]]
      BY <1>3 DEF Purge, LiveClaims, LiveEvents
    <2> QED BY <1>1, <2>1
  <1>4. CASE UNCHANGED <<claims, events>>
    BY <1>1, <1>4
  <1>5. Tick \/ UNCHANGED vars => UNCHANGED <<claims, events>>
    BY DEF Tick, vars, sqlite, memory
  <1> QED BY <1>2, <1>3, <1>4, <1>5 DEF Next, AppendTurns, AllowRequest, Load, ResetTurns

\* Each call leaves as many requests in the windows of both stores.
LEMMA NextRates ==
  ASSUME StoresInv, [Next]_vars
  PROVE  RatesCoupled'
  <1> USE MemoryAssumption
  <1>1. /\ ReadingsInv /\ RatesCoupled /\ Window \in Nat
        /\ clock \in 0 .. MaxTime /\ clock \in Nat /\ swept \in Nat /\ swept <= clock
    BY ReadingsType DEF StoresInv, ReadingsInv
  <1>2. /\ rates \in SUBSET [id : Nat, scope : Scopes, at : Nat] /\ IsFiniteSet(rates)
        /\ times \in [Scopes -> Seq(Nat)]
        /\ \A s \in Scopes, c \in swept - Window .. MaxTime :
              Cardinality(Young(rates, s, c)) = Cardinality(Since(times[s], c))
    BY <1>1 DEF RatesCoupled
  <1>3. ASSUME NEW s \in Scopes, NEW now \in Readings, AllowRequest(s, now) PROVE RatesCoupled'
    <2> DEFINE cut == now - Window
               allowed == RateAllows(rates, s, Limit, Window, now)
               kept == After(cut, times[s])
               longer == IF allowed THEN Append(kept, now) ELSE kept
    <2>1. times[s] \in Seq(Nat) /\ now \in Nat /\ cut \in Int /\ cut \in swept - Window .. MaxTime
      BY <1>1, <1>2, ReadingsType
    <2>2. kept \in Seq(Nat)
      BY <2>1, AfterCounts
    <2>3. allowed <=> Len(Current(s, now)) < Limit
      BY <1>1, AllowedAlike
    <2>4. Len(kept) \in Nat /\ Limit \in Nat /\ kept = Current(s, now)
      BY <2>2 DEF Current
    <2>5. /\ swept' = swept /\ rates' = AfterRate(rates, s, Limit, Window, now)
          /\ times' = [times EXCEPT ![s] = longer]
      <3>1. allowed <=> ~(Len(Current(s, now)) >= Limit)
        <4> HIDE DEF allowed, kept
        <4> QED BY <2>3, <2>4
      <3>2. longer = IF Len(Current(s, now)) >= Limit THEN Current(s, now)
                     ELSE Append(Current(s, now), now)
        <4> HIDE DEF allowed, kept
        <4> QED BY <2>4, <3>1
      <3> HIDE DEF longer
      <3> QED BY <1>3, <3>2 DEF AllowRequest
    <2>6. longer \in Seq(Nat)
      BY <2>1, <2>2, AppendCounts
    <2>7. ASSUME NEW c \in swept - Window .. MaxTime
          PROVE  Cardinality(Young(rates', s, c)) = Cardinality(Since(longer, c))
      <3>1. c \in Int
        BY <1>1
      <3>2. Older(c, cut) \in swept - Window .. MaxTime /\ Older(c, cut) \in Int
        BY <2>1, <3>1 DEF Older
      <3>3. Cardinality(Young(rates', s, c))
              = Cardinality(Young(rates, s, Older(c, cut))) + IF allowed /\ now > c THEN 1 ELSE 0
        BY <1>2, <2>1, <2>5, <3>1, AfterRateCounts
      <3>4. Cardinality(Since(kept, c)) = Cardinality(Since(times[s], Older(c, cut)))
        BY <2>1, <3>1, AfterCounts
      <3>5. Cardinality(Since(Append(kept, now), c))
              = Cardinality(Since(kept, c)) + IF now > c THEN 1 ELSE 0
        BY <2>1, <2>2, <3>1, AppendCounts
      <3>6. Cardinality(Since(kept, c)) \in Nat
        BY <2>2, <3>1, SinceFinite
      <3>7. Cardinality(Young(rates, s, Older(c, cut))) = Cardinality(Since(kept, c))
        BY <1>2, <3>2, <3>4
      <3> HIDE DEF allowed, kept
      <3> QED BY <3>3, <3>5, <3>6, <3>7
    <2>8. ASSUME NEW r \in Scopes \ {s}, NEW c \in swept - Window .. MaxTime
          PROVE  Cardinality(Young(rates', r, c)) = Cardinality(Since(times[r], c))
      <3>1. Young(rates', r, c) = Young(rates, r, c)
        BY <2>5, AfterRateElsewhere
      <3> QED BY <1>2, <3>1
    <2>9. rates' \subseteq [id : Nat, scope : Scopes, at : Nat] /\ IsFiniteSet(rates')
      BY <1>2, <2>1, <2>5, AfterRateCounts
    <2> HIDE DEF longer
    <2>10. /\ times' \in [Scopes -> Seq(Nat)] /\ times'[s] = longer
           /\ \A r \in Scopes \ {s} : times'[r] = times[r]
      BY <1>2, <2>5, <2>6
    <2>11. \A r \in Scopes, c \in swept' - Window .. MaxTime :
              Cardinality(Young(rates', r, c)) = Cardinality(Since(times'[r], c))
      BY <2>5, <2>7, <2>8, <2>10
    <2> QED BY <2>9, <2>10, <2>11 DEF RatesCoupled, Young, Since
  <1>4. CASE Purge
    <2> DEFINE cut == clock - Older(EventTTL, Day)
    <2>1. EventTTL \in Nat /\ Day \in Nat /\ Window <= Day /\ Older(EventTTL, Day) \in Nat
          /\ Day <= Older(EventTTL, Day)
      BY StoreAssumption DEF Older
    <2>2. /\ swept' = clock /\ rates' = {r \in rates : r.at > clock - Day}
          /\ times' = [s \in Scopes |-> After(cut, times[s])]
      BY <1>4 DEF Purge, PurgedRates
    <2>3. ASSUME NEW s \in Scopes
          PROVE  /\ After(cut, times[s]) \in Seq(Nat)
                 /\ \A c \in clock - Window .. MaxTime :
                       Cardinality(Young(rates', s, c)) = Cardinality(Since(After(cut, times[s]), c))
      <3>1. times[s] \in Seq(Nat) /\ cut \in Int
        BY <1>1, <1>2, <2>1
      <3> SUFFICES ASSUME NEW c \in clock - Window .. MaxTime
                   PROVE  Cardinality(Young(rates', s, c))
                            = Cardinality(Since(After(cut, times[s]), c))
        BY <3>1, AfterCounts
      <3>2. c \in Int /\ cut <= c /\ clock - Day <= c /\ c \in swept - Window .. MaxTime
        <4> DEFINE older == Older(EventTTL, Day)
        <4>1. older \in Nat /\ Day <= older
          BY <2>1
        <4> HIDE DEF older
        <4>2. /\ c \in Int /\ clock - older <= c /\ clock - Day <= c
              /\ c \in swept - Window .. MaxTime
          BY <1>1, <2>1, <4>1
        <4> QED BY <4>2 DEF older
      <3> HIDE DEF cut
      <3>3. Older(c, cut) = c
        BY <3>1, <3>2 DEF Older
      <3>4. Cardinality(Since(After(cut, times[s]), c)) = Cardinality(Since(times[s], c))
        BY <3>1, <3>2, <3>3, AfterCounts
      <3>5. Young(rates', s, c) = Young(rates, s, c)
        <4>1. \A r \in rates : r.at > c => r.at > clock - Day
          <5> TAKE r \in rates
          <5>1. r.at \in Nat
            BY <1>2
          <5> QED BY <1>1, <2>1, <3>2, <5>1
        <4> QED BY <2>2, <4>1 DEF Young
      <3> QED BY <1>2, <3>2, <3>4, <3>5
    <2>4. rates' \subseteq [id : Nat, scope : Scopes, at : Nat] /\ IsFiniteSet(rates')
      BY <1>2, <2>2, FS_Subset
    <2> HIDE DEF cut
    <2>5. times' \in [Scopes -> Seq(Nat)] /\ \A s \in Scopes : times'[s] = After(cut, times[s])
      BY <2>2, <2>3
    <2>6. \A s \in Scopes, c \in swept' - Window .. MaxTime :
              Cardinality(Young(rates', s, c)) = Cardinality(Since(times'[s], c))
      BY <2>2, <2>3, <2>5
    <2> QED BY <2>4, <2>5, <2>6 DEF RatesCoupled, Young, Since
  <1>5. CASE UNCHANGED <<rates, times, swept>>
    BY <1>2, <1>5 DEF RatesCoupled, Young, Since
  <1>6. Tick \/ UNCHANGED vars => UNCHANGED <<rates, times, swept>>
    BY DEF Tick, vars, sqlite, memory
  <1> QED BY <1>3, <1>4, <1>5, <1>6 DEF Next, ClaimEvent, AppendTurns, Load, ResetTurns

\* An exchange makes two rows and two turns.
LEMMA MirrorsAppended ==
  ASSUME NEW k, NEW e \in Events, NEW list \in Seq(TurnRecords), NEW table,
         NEW seq \in Nat, NEW now \in Nat, Mirrors(k, list, table, seq, now)
  PROVE  LET longer == list \o << [role |-> "user", event |-> e, at |-> now],
                                  [role |-> "assistant", event |-> e, at |-> now + 1] >>
         IN  /\ longer \in Seq(TurnRecords)
             /\ Mirrors(k, longer, AppendExchange(table, seq, k, e, now), seq + 2, now)
  <1> DEFINE user == [role |-> "user", event |-> e, at |-> now]
             assistant == [role |-> "assistant", event |-> e, at |-> now + 1]
             longer == list \o <<user, assistant>>
             after == AppendExchange(table, seq, k, e, now)
             N == Len(list)
  <1>1. PICK ids \in [DOMAIN list -> 1 .. seq] :
            LET Held(i) == RowOf(k, list[i], ids[i]) \in OfKey(table, k)
            IN  /\ \A i, j \in DOMAIN list : i < j =>
                      /\ ids[i] < ids[j] /\ Asked(list[i]) <= Asked(list[j])
                      /\ Held(i) => Held(j)
                /\ \A i \in DOMAIN list : Asked(list[i]) \in 0 .. now
                /\ \A i \in DOMAIN list : Held(i) \/ Outlived(list[i], now)
                /\ \A r \in OfKey(table, k) :
                      \E i \in DOMAIN list : r = RowOf(k, list[i], ids[i])
    BY DEF Mirrors
  <1>2. /\ user \in TurnRecords /\ assistant \in TurnRecords
        /\ Asked(user) = now /\ Asked(assistant) = now
    BY DEF TurnRecords, Roles, Asked
  <1>3. /\ N \in Nat /\ DOMAIN list = 1 .. N
        /\ longer \in Seq(TurnRecords) /\ DOMAIN longer = 1 .. N + 2
        /\ longer[N + 1] = user /\ longer[N + 2] = assistant
        /\ \A i \in 1 .. N : longer[i] = list[i]
    <2> HIDE DEF user, assistant
    <2> QED BY <1>2
  <1>4. OfKey(after, k) = OfKey(table, k) \cup {RowOf(k, user, seq + 1), RowOf(k, assistant, seq + 2)}
    <2>1. /\ RowOf(k, user, seq + 1)
               = [id |-> seq + 1, key |-> k, role |-> "user", event |-> e, at |-> now]
          /\ RowOf(k, assistant, seq + 2)
               = [id |-> seq + 2, key |-> k, role |-> "assistant", event |-> e, at |-> now]
      BY <1>2 DEF RowOf
    <2> QED BY <2>1 DEF OfKey, AppendExchange
  <1> DEFINE numbers == [i \in 1 .. N + 2 |-> IF i <= N THEN ids[i] ELSE seq + (i - N)]
  <1> HIDE DEF N, longer, user, assistant, after
  <1>5. /\ \A i \in 1 .. N : numbers[i] = ids[i]
        /\ numbers[N + 1] = seq + 1 /\ numbers[N + 2] = seq + 2
        /\ numbers \in [1 .. N + 2 -> 1 .. seq + 2]
    <2>1. \A i \in 1 .. N : i \in 1 .. N + 2 /\ i <= N
      BY <1>3
    <2>2. /\ N + 1 \in 1 .. N + 2 /\ N + 2 \in 1 .. N + 2
          /\ ~(N + 1 <= N) /\ ~(N + 2 <= N) /\ (N + 1) - N = 1 /\ (N + 2) - N = 2
      BY <1>3
    <2>3. \A i \in 1 .. N + 2 : numbers[i] \in 1 .. seq + 2
      <3> TAKE i \in 1 .. N + 2
      <3>1. CASE i <= N
        <4>1. i \in DOMAIN list
          BY <1>3, <3>1
        <4> QED BY <1>1, <3>1, <4>1
      <3>2. CASE ~(i <= N)
        BY <1>3, <3>2
      <3> QED BY <3>1, <3>2
    <2> QED BY <2>1, <2>2, <2>3
  <1> HIDE DEF numbers
  <1>6. \A i \in 1 .. N + 2 : i \in 1 .. N \/ i = N + 1 \/ i = N + 2
    BY <1>3
  <1>7. \A i \in 1 .. N : ids[i] \in 1 .. seq /\ Asked(list[i]) \in 0 .. now
    BY <1>1, <1>3
  <1>8. \A i \in 1 .. N : RowOf(k, longer[i], numbers[i]) = RowOf(k, list[i], ids[i])
    BY <1>3, <1>5
  <1>9. /\ RowOf(k, longer[N + 1], numbers[N + 1]) = RowOf(k, user, seq + 1)
        /\ RowOf(k, longer[N + 2], numbers[N + 2]) = RowOf(k, assistant, seq + 2)
    BY <1>3, <1>5
  <1> DEFINE Row(i) == RowOf(k, longer[i], numbers[i])
  <1>10. /\ \A i \in 1 .. N : Row(i) \in OfKey(after, k) \/ Outlived(longer[i], now)
         /\ \A i \in {N + 1, N + 2} : Row(i) \in OfKey(after, k)
    BY <1>1, <1>3, <1>4, <1>8, <1>9
  <1>11. ASSUME NEW i \in 1 .. N, NEW j \in 1 .. N, i < j, Row(i) \in OfKey(after, k)
         PROVE  Row(j) \in OfKey(after, k)
    <2>1. Row(i) = RowOf(k, list[i], ids[i]) /\ Row(j) = RowOf(k, list[j], ids[j])
      BY <1>8
    <2>2. Row(i).id \in 1 .. seq
      BY <1>7, <2>1 DEF RowOf
    <2>3. RowOf(k, user, seq + 1).id = seq + 1 /\ RowOf(k, assistant, seq + 2).id = seq + 2
      BY DEF RowOf
    <2> HIDE DEF Row
    <2>4. Row(i) \in OfKey(table, k)
      BY <1>4, <1>11, <2>2, <2>3
    <2>5. Row(j) \in OfKey(table, k)
      <3>1. i \in DOMAIN list /\ j \in DOMAIN list /\ i < j
        BY <1>3, <1>11
      <3>2. RowOf(k, list[i], ids[i]) \in OfKey(table, k)
        BY <2>1, <2>4
      <3>3. RowOf(k, list[j], ids[j]) \in OfKey(table, k)
        BY <1>1, <3>1, <3>2
      <3> QED BY <2>1, <3>3
    <2> QED BY <1>4, <2>5
  <1>12. ASSUME NEW i \in 1 .. N + 2, NEW j \in 1 .. N + 2, i < j
         PROVE  /\ numbers[i] < numbers[j] /\ Asked(longer[i]) <= Asked(longer[j])
                /\ Row(i) \in OfKey(after, k) => Row(j) \in OfKey(after, k)
    <2> HIDE DEF Row
    <2>1. CASE i \in 1 .. N /\ j \in 1 .. N
      BY <1>1, <1>3, <1>5, <1>11, <1>12, <2>1
    <2>2. CASE i \in 1 .. N /\ j \in {N + 1, N + 2}
      <3>1. numbers[i] \in 1 .. seq /\ Asked(longer[i]) \in 0 .. now
        BY <1>3, <1>5, <1>7, <2>2
      <3>2. numbers[j] \in {seq + 1, seq + 2} /\ Asked(longer[j]) = now
        BY <1>2, <1>3, <1>5, <2>2
      <3>3. Row(j) \in OfKey(after, k)
        BY <1>10, <2>2
      <3> QED BY <3>1, <3>2, <3>3
    <2>3. CASE i = N + 1 /\ j = N + 2
      BY <1>2, <1>3, <1>5, <1>10, <2>3
    <2>4. ~(i = N + 2) /\ ~(i = N + 1 /\ j \in 1 .. N + 1)
      BY <1>3, <1>12
    <2>5. i = N + 1 => j = N + 2
      BY <1>3, <1>6, <2>4
    <2> QED BY <1>6, <2>1, <2>2, <2>3, <2>4, <2>5
  <1>13. \A i \in 1 .. N + 2 : Asked(longer[i]) \in 0 .. now
    <2>1. now \in 0 .. now
      OBVIOUS
    <2>2. \A i \in 1 .. N : Asked(longer[i]) \in 0 .. now
      BY <1>3, <1>7
    <2>3. Asked(longer[N + 1]) = now /\ Asked(longer[N + 2]) = now
      BY <1>2, <1>3
    <2> QED BY <1>6, <2>1, <2>2, <2>3
  <1>14. \A i \in 1 .. N + 2 : Row(i) \in OfKey(after, k) \/ Outlived(longer[i], now)
    BY <1>6, <1>10
  <1>15. \A r \in OfKey(after, k) : \E i \in 1 .. N + 2 : r = Row(i)
    <2> TAKE r \in OfKey(after, k)
    <2>1. CASE r \in OfKey(table, k)
      <3>1. PICK i \in 1 .. N : r = RowOf(k, list[i], ids[i])
        BY <1>1, <1>3, <2>1
      <3>2. i \in 1 .. N + 2
        BY <1>3
      <3> QED BY <1>8, <3>1, <3>2
    <2>2. N + 1 \in 1 .. N + 2 /\ N + 2 \in 1 .. N + 2
      BY <1>3
    <2> QED BY <1>4, <1>9, <2>1, <2>2
  <1>16. Mirrors(k, longer, after, seq + 2, now)
    BY <1>3, <1>5, <1>12, <1>13, <1>14, <1>15 DEF Mirrors
  <1> QED BY <1>3, <1>16 DEF longer, user, assistant, after

\* Each call leaves every list a mirror of the rows of its conversation.
LEMMA NextTurns ==
  ASSUME StoresInv, [Next]_vars
  PROVE  TurnsCoupled'
  <1>1. /\ clock \in Nat /\ turnSeq \in Nat /\ lists \in [Keys -> Seq(TurnRecords)]
        /\ \A k \in Keys : Mirrors(k, lists[k], turns, turnSeq, clock)
    BY MemoryAssumption, ReadingsType DEF StoresInv, TurnsCoupled
  <1>2. clock <= clock /\ turnSeq <= turnSeq
    BY <1>1
  <1>3. ASSUME turnSeq' \in Nat, lists' \in [Keys -> Seq(TurnRecords)],
               \A k \in Keys : Mirrors(k, lists'[k], turns', turnSeq', clock')
        PROVE  TurnsCoupled'
    BY <1>3 DEF TurnsCoupled, Mirrors, OfKey, Outlived
  <1>4. ASSUME NEW k \in Keys, NEW e \in Events, AppendTurns(k, e) PROVE TurnsCoupled'
    <2> DEFINE longer == lists[k] \o << [role |-> "user", event |-> e, at |-> clock],
                                       [role |-> "assistant", event |-> e, at |-> clock + 1] >>
    <2>1. /\ turns' = AppendExchange(turns, turnSeq, k, e, clock) /\ clock' = clock
          /\ turnSeq' = turnSeq + 2 /\ lists' = [lists EXCEPT ![k] = longer]
      BY <1>4 DEF AppendTurns
    <2>2. /\ longer \in Seq(TurnRecords)
          /\ Mirrors(k, longer, AppendExchange(turns, turnSeq, k, e, clock), turnSeq + 2, clock)
      BY <1>1, MirrorsAppended
    <2> HIDE DEF longer
    <2>3. lists' \in [Keys -> Seq(TurnRecords)] /\ turnSeq' \in Nat
      BY <1>1, <2>1, <2>2
    <2>4. ASSUME NEW q \in Keys PROVE Mirrors(q, lists'[q], turns', turnSeq', clock')
      <3>1. CASE q = k
        BY <1>1, <2>1, <2>2, <3>1
      <3>2. CASE q # k
        <4>1. lists'[q] = lists[q] /\ turnSeq <= turnSeq'
          BY <1>1, <2>1, <3>2
        <4>2. OfKey(turns', q) = OfKey(turns, q)
          BY <2>1, <3>2 DEF OfKey, AppendExchange
        <4> QED BY <1>1, <1>2, <2>1, <2>3, <4>1, <4>2, MirrorsKept
      <3> QED BY <3>1, <3>2
    <2> QED BY <1>3, <2>3, <2>4
  <1>5. ASSUME NEW k \in Keys, NEW now \in Readings, Load(k, now) PROVE TurnsCoupled'
    <2>1. /\ turns' = AfterLoad(turns, k, now) /\ clock' = clock /\ turnSeq' = turnSeq
          /\ lists' = [lists EXCEPT ![k] = Fresh(lists[k], now)]
      BY <1>5 DEF Load
    <2>2. OfKey(turns', k) = {r \in OfKey(turns, k) : ~Expired(r, now)}
      BY <2>1 DEF OfKey, AfterLoad
    <2>3. /\ Fresh(lists[k], now) \in Seq(TurnRecords)
          /\ Mirrors(k, Fresh(lists[k], now), turns', turnSeq, clock)
      <3>1. now \in 0 .. clock
        BY ReadingsType DEF StoresInv
      <3> QED BY <1>1, <2>2, <3>1, MirrorsFresh
    <2>4. lists' \in [Keys -> Seq(TurnRecords)]
      BY <1>1, <2>1, <2>3
    <2>5. ASSUME NEW q \in Keys PROVE Mirrors(q, lists'[q], turns', turnSeq', clock')
      <3>1. CASE q = k
        BY <1>1, <2>1, <2>3, <3>1
      <3>2. CASE q # k
        <4>1. lists'[q] = lists[q]
          BY <1>1, <2>1, <3>2
        <4>2. OfKey(turns', q) = OfKey(turns, q)
          BY <2>1, <3>2 DEF OfKey, AfterLoad
        <4> QED BY <1>1, <1>2, <2>1, <4>1, <4>2, MirrorsKept
      <3> QED BY <3>1, <3>2
    <2> QED BY <1>1, <1>3, <2>1, <2>4, <2>5
  <1>6. ASSUME NEW k \in Keys, ResetTurns(k) PROVE TurnsCoupled'
    <2>1. /\ turns' = Reset(turns, k) /\ clock' = clock /\ turnSeq' = turnSeq
          /\ lists' = [lists EXCEPT ![k] = <<>>]
      BY <1>6 DEF ResetTurns
    <2>2. lists' \in [Keys -> Seq(TurnRecords)]
      BY <1>1, <2>1
    <2>3. ASSUME NEW q \in Keys PROVE Mirrors(q, lists'[q], turns', turnSeq', clock')
      <3>1. CASE q = k
        <4>1. lists'[q] = <<>> /\ OfKey(turns', q) = {}
          BY <1>1, <2>1, <3>1 DEF OfKey, Reset
        <4>2. DOMAIN lists'[q] = {} /\ lists'[q] \in [DOMAIN lists'[q] -> 1 .. turnSeq']
          BY <4>1
        <4> QED BY <4>1, <4>2 DEF Mirrors
      <3>2. CASE q # k
        <4>1. lists'[q] = lists[q]
          BY <1>1, <2>1, <3>2
        <4>2. OfKey(turns', q) = OfKey(turns, q)
          BY <2>1, <3>2 DEF OfKey, Reset
        <4> QED BY <1>1, <1>2, <2>1, <4>1, <4>2, MirrorsKept
      <3> QED BY <3>1, <3>2
    <2> QED BY <1>1, <1>3, <2>1, <2>2, <2>3
  <1>7. CASE Purge
    <2>1. /\ turns' = PurgedTurns(turns, clock) /\ clock' = clock /\ turnSeq' = turnSeq
          /\ lists' = [k \in Keys |-> Fresh(lists[k], clock)]
      BY <1>7 DEF Purge
    <2>2. ASSUME NEW k \in Keys
          PROVE  /\ Fresh(lists[k], clock) \in Seq(TurnRecords)
                 /\ Mirrors(k, Fresh(lists[k], clock), turns', turnSeq, clock)
      <3>1. OfKey(turns', k) = {r \in OfKey(turns, k) : ~Expired(r, clock)}
        BY <2>1 DEF OfKey, PurgedTurns
      <3>2. clock \in 0 .. clock
        BY <1>1
      <3> QED BY <1>1, <3>1, <3>2, MirrorsFresh
    <2>3. lists' \in [Keys -> Seq(TurnRecords)]
      BY <2>1, <2>2
    <2> QED BY <1>1, <1>3, <2>1, <2>2, <2>3
  <1>8. CASE UNCHANGED <<turns, turnSeq, lists>> /\ clock' \in {clock, clock + 1}
    <2>1. clock' \in Nat /\ clock <= clock'
      BY <1>1, <1>8
    <2>2. \A k \in Keys : Mirrors(k, lists[k], turns, turnSeq, clock')
      BY <1>1, <1>2, <2>1, MirrorsKept
    <2> QED BY <1>1, <1>3, <1>8, <2>2
  <1>9. \A e \in Events, now \in Readings : ClaimEvent(e, now) => UNCHANGED <<turns, turnSeq, lists, clock>>
    BY DEF ClaimEvent
  <1>10. \A s \in Scopes, now \in Readings : AllowRequest(s, now) => UNCHANGED <<turns, turnSeq, lists, clock>>
    BY DEF AllowRequest
  <1>11. Tick => UNCHANGED <<turns, turnSeq, lists>> /\ clock' = clock + 1
    BY DEF Tick, sqlite, memory
  <1>12. UNCHANGED vars => UNCHANGED <<turns, turnSeq, lists, clock>>
    BY DEF vars, sqlite, memory
  <1> QED BY <1>4, <1>5, <1>6, <1>7, <1>8, <1>9, <1>10, <1>11, <1>12 DEF Next

\* Whatever calls they are given, in whatever order and with whatever readings of the
\* clock since the last purge, the two stores give the same answers, for all limits and
\* all times to live (stores/memory.py, stores/sqlite.py).
THEOREM StoresAlike == Spec => []StoresAgree
  <1>1. StoresInv /\ [Next]_vars => StoresInv'
    BY NextReadings, NextClaims, NextRates, NextTurns DEF StoresInv
  <1> QED BY <1>1, InitStoresInv, CoupledAgree, PTL DEF Spec
===============================================================================
