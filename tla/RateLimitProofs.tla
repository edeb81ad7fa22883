---------------------------- MODULE RateLimitProofs ----------------------------
(***************************************************************************)
(* Theorems about RateLimit, for any finite set of threads, any number of  *)
(* users and any limits and windows.                                       *)
(***************************************************************************)
EXTENDS RateLimit, FiniteSetTheorems, TLAPS

\* The rows that a scope has in a table.
RowsOf(rows, s) == {r \in rows : r.scope = s}

BoundedInv == IsFiniteSet(rates) /\ TableBounded

\* allow_request leaves other scopes alone, and its own within the limit: what
\* it adds it adds to fewer rows than the limit, those of the window.
LEMMA AfterRateBounded ==
  ASSUME NEW rows, IsFiniteSet(rows), NEW scope, NEW limit \in Nat, NEW window, NEW n
  PROVE  LET after == AfterRate(rows, scope, limit, window, n)
         IN  /\ IsFiniteSet(after)
             /\ \A s : s # scope => RowsOf(after, s) = RowsOf(rows, s)
             /\ Cardinality(RowsOf(rows, scope)) <= limit
                  => Cardinality(RowsOf(after, scope)) <= limit
  <1> DEFINE after == AfterRate(rows, scope, limit, window, n)
             kept == Pruned(rows, scope, window, n)
             young == InWindow(rows, scope, window, n)
             row == [id |-> UnusedId(kept), scope |-> scope, at |-> n]
  <1>1. kept \subseteq rows /\ young \subseteq RowsOf(rows, scope)
    BY DEF Pruned, InWindow, RowsOf
  <1>2. RowsOf(kept, scope) = young
    BY DEF Pruned, InWindow, RowsOf
  <1>3. \A s : s # scope => RowsOf(kept, s) = RowsOf(rows, s)
    BY DEF Pruned, RowsOf
  <1>4. RowsOf(rows, scope) \subseteq rows
    BY DEF RowsOf
  <1>5. /\ IsFiniteSet(kept) /\ IsFiniteSet(young) /\ IsFiniteSet(RowsOf(rows, scope))
        /\ Cardinality(young) <= Cardinality(RowsOf(rows, scope))
        /\ Cardinality(young) \in Nat /\ Cardinality(RowsOf(rows, scope)) \in Nat
    <2>1. IsFiniteSet(kept) /\ IsFiniteSet(RowsOf(rows, scope))
      BY <1>1, <1>4, FS_Subset
    <2>2. IsFiniteSet(young) /\ Cardinality(young) <= Cardinality(RowsOf(rows, scope))
      BY <1>1, <2>1, FS_Subset
    <2> QED BY <2>1, <2>2, FS_CardinalityType
  <1>6. row.scope = scope
    OBVIOUS
  <1> HIDE DEF row
  <1>7. CASE RateAllows(rows, scope, limit, window, n)
    <2>1. after = kept \cup {row}
      BY <1>7 DEF AfterRate, row
    <2>2. Cardinality(young) < limit
      BY <1>7 DEF RateAllows
    <2>3. RowsOf(after, scope) = young \cup {row}
      BY <1>2, <1>6, <2>1 DEF RowsOf
    <2>4. \A s : s # scope => RowsOf(after, s) = RowsOf(kept, s)
      BY <1>6, <2>1 DEF RowsOf
    <2>5. IsFiniteSet(after)
      BY <1>5, <2>1, FS_AddElement
    <2>6. Cardinality(young \cup {row}) <= Cardinality(young) + 1
      BY <1>5, FS_AddElement
    <2>7. Cardinality(young \cup {row}) \in Nat
      BY <1>5, FS_AddElement, FS_CardinalityType
    <2>8. Cardinality(RowsOf(after, scope)) <= limit
      BY <1>5, <2>2, <2>3, <2>6, <2>7
    <2> QED BY <1>3, <2>4, <2>5, <2>8
  <1>8. CASE ~RateAllows(rows, scope, limit, window, n)
    <2>1. after = kept
      BY <1>8 DEF AfterRate
    <2>2. /\ IsFiniteSet(after) /\ \A s : s # scope => RowsOf(after, s) = RowsOf(rows, s)
          /\ RowsOf(after, scope) = young
      BY <1>2, <1>3, <1>5, <2>1
    <2>3. Cardinality(RowsOf(rows, scope)) <= limit => Cardinality(young) <= limit
      BY <1>5
    <2> QED BY <2>2, <2>3
  <1> QED BY <1>7, <1>8

\* Every scope has a limit.
LEMMA LimitType == \A s : LimitOf(s) \in Nat
  BY RateAssumption DEF LimitOf

\* A charge keeps the table of every scope within its limit.
LEMMA ChargeBounded ==
  ASSUME BoundedInv, NEW scope, NEW window, NEW n,
         rates' = AfterRate(rates, scope, LimitOf(scope), window, n)
  PROVE  BoundedInv'
  <1>1. /\ IsFiniteSet(rates')
        /\ \A s : s # scope => RowsOf(rates', s) = RowsOf(rates, s)
        /\ Cardinality(RowsOf(rates, scope)) <= LimitOf(scope)
             => Cardinality(RowsOf(rates', scope)) <= LimitOf(scope)
    BY LimitType, AfterRateBounded DEF BoundedInv
  <1>2. ASSUME NEW s \in Scopes
        PROVE  Cardinality(RowsOf(rates', s)) <= LimitOf(s)
    <2>1. Cardinality(RowsOf(rates, s)) <= LimitOf(s)
      BY DEF BoundedInv, TableBounded, RowsOf
    <2> QED BY <1>1, <2>1
  <1> QED BY <1>1, <1>2 DEF BoundedInv, TableBounded, RowsOf

\* A table that has lost rows is within its limits.
LEMMA FewerBounded ==
  ASSUME BoundedInv, rates' \subseteq rates
  PROVE  BoundedInv'
  <1>1. IsFiniteSet(rates) /\ IsFiniteSet(rates')
    BY FS_Subset DEF BoundedInv
  <1>2. ASSUME NEW s \in Scopes
        PROVE  Cardinality(RowsOf(rates', s)) <= LimitOf(s)
    <2>1. RowsOf(rates', s) \subseteq RowsOf(rates, s) /\ RowsOf(rates, s) \subseteq rates
      BY DEF RowsOf
    <2>2. IsFiniteSet(RowsOf(rates, s))
      BY <1>1, <2>1, FS_Subset
    <2>3. /\ IsFiniteSet(RowsOf(rates', s))
          /\ Cardinality(RowsOf(rates', s)) <= Cardinality(RowsOf(rates, s))
      BY <2>1, <2>2, FS_Subset
    <2>4. Cardinality(RowsOf(rates', s)) \in Nat /\ Cardinality(RowsOf(rates, s)) \in Nat
      BY <2>2, <2>3, FS_CardinalityType
    <2>5. Cardinality(RowsOf(rates, s)) <= LimitOf(s)
      BY DEF BoundedInv, TableBounded, RowsOf
    <2> QED BY <2>3, <2>4, <2>5, LimitType
  <1> QED BY <1>1, <1>2 DEF BoundedInv, TableBounded, RowsOf

\* However many threads there are and however old their readings of the clock,
\* rate_events holds no more rows of a scope than its limit: it cannot grow with
\* the traffic, whether or not the purge job runs.
THEOREM RateTableBounded == Spec => []TableBounded
  <1>1. Init => BoundedInv
    <2> SUFFICES ASSUME Init PROVE BoundedInv
      OBVIOUS
    <2>1. rates = {} /\ \A s : RowsOf(rates, s) = {}
      BY DEF Init, RowsOf
    <2>2. IsFiniteSet({}) /\ Cardinality({}) = 0
      BY FS_EmptySet
    <2> QED BY <2>1, <2>2, LimitType DEF BoundedInv, TableBounded, RowsOf
  <1>2. BoundedInv /\ [Next]_vars => BoundedInv'
    <2> SUFFICES ASSUME BoundedInv, [Next]_vars PROVE BoundedInv'
      OBVIOUS
    <2>1. ASSUME NEW t \in Threads, ChargeUser(t) \/ ChargeDay(t)
          PROVE  BoundedInv'
      BY <2>1, ChargeBounded DEF ChargeUser, ChargeDay, Charge
    <2>2. CASE Purge
      BY <2>2, FewerBounded DEF Purge, PurgedRates
    <2>3. CASE UNCHANGED rates
      BY <2>3, FewerBounded
    <2>4. \/ \E t \in Threads : ChargeUser(t) \/ ChargeDay(t)
          \/ Purge \/ UNCHANGED rates
      BY DEF Next, Begin, Tick, Quiet, vars
    <2> QED BY <2>1, <2>2, <2>3, <2>4
  <1>3. BoundedInv => TableBounded
    BY DEF BoundedInv
  <1> QED BY <1>1, <1>2, <1>3, PTL DEF Spec

-------------------------------------------------------------------------------
(* Which rows are new. *)

\* There is always an id no rate row has among the first Cardinality + 1.
LEMMA UnusedIdIsUnused ==
  ASSUME NEW rows, IsFiniteSet(rows)
  PROVE  UnusedId(rows) \in Nat /\ \A r \in rows : r.id # UnusedId(rows)
  <1> DEFINE n == Cardinality(rows)
             ids == {r.id : r \in rows}
  <1>1. n \in Nat
    BY FS_CardinalityType
  <1>2. IsFiniteSet(ids) /\ Cardinality(ids) <= n
    <2> DEFINE f == [r \in rows |-> r.id]
    <2>1. f \in Surjection(rows, ids)
      BY DEF Surjection
    <2> QED BY <2>1, FS_Surjection
  <1>3. IsFiniteSet(0 .. n) /\ Cardinality(0 .. n) = n + 1
    BY <1>1, FS_Interval
  <1>4. ~ (0 .. n \subseteq ids)
    <2>1. SUFFICES ASSUME 0 .. n \subseteq ids PROVE FALSE
      OBVIOUS
    <2>2. Cardinality(0 .. n) <= Cardinality(ids)
      BY <1>2, <2>1, FS_Subset
    <2>3. Cardinality(ids) \in Nat
      BY <1>2, FS_CardinalityType
    <2> HIDE DEF n, ids
    <2> QED BY <1>1, <1>2, <1>3, <2>2, <2>3
  <1>5. PICK i \in 0 .. n : \A r \in rows : r.id # i
    BY <1>4
  <1>6. UnusedId(rows) \in 0 .. n /\ \A r \in rows : r.id # UnusedId(rows)
    BY <1>5 DEF UnusedId
  <1> QED BY <1>1, <1>6

-------------------------------------------------------------------------------
(* How far a window can be exceeded. *)

RateTypes ==
    /\ rates \subseteq [id : Nat, scope : Scopes, at : 0 .. MaxTime]
    /\ \A r \in rates : r.at <= clock
    /\ IsFiniteSet(rates)
    /\ pc \in [Threads -> {"idle", "user_limit", "day_limit"}]
    /\ actor \in [Threads -> Actors]
    /\ now \in [Threads -> Nat]
    /\ \A t \in Threads : now[t] <= clock
    /\ granted \in [Scopes -> [0 .. MaxTime -> Nat]]
    /\ clock \in 0 .. MaxTime

\* The rows of a scope in the window that ends at n, however old or new others are.
RowsIn(s, n) == {r \in rates : r.scope = s /\ n - WindowOf(s) < r.at /\ r.at <= n}

\* The threads that may still pass a request in that window.
Pending(s, n) ==
    {t \in Threads : now[t] <= n /\ pc[t] \in IF s = DayScope THEN {"user_limit", "day_limit"}
                                              ELSE {"user_limit"}}

Stale == Cardinality(Threads) - IF PurgeRuns THEN 0 ELSE 1

\* A window is complete while all that passed in it is still in the table.
Complete(s, n) ==
    /\ PassedInWindow(s, n) <= Cardinality(RowsIn(s, n))
    /\ PassedInWindow(s, n) <= LimitOf(s)

\* A window loses rows only after its end; from then on each thread that read the clock
\* before its end can pass one request more, and none can join them.
Lost(s, n) ==
    /\ n < clock
    /\ PassedInWindow(s, n) + Cardinality(Pending(s, n)) <= LimitOf(s) + Stale

WindowInv ==
    /\ RateTypes
    /\ \A r \in rates : granted[r.scope][r.at] >= 1
    /\ \A s \in Scopes, n \in 0 .. MaxTime :
          IsFiniteSet(Passed(s, n)) /\ (Complete(s, n) \/ Lost(s, n))

\* Numbers are numbers.
LEMMA WindowNumbers ==
  ASSUME RateTypes, NEW s \in Scopes, NEW n \in 0 .. MaxTime, IsFiniteSet(Passed(s, n))
  PROVE  /\ PassedInWindow(s, n) \in Nat
         /\ IsFiniteSet(RowsIn(s, n)) /\ Cardinality(RowsIn(s, n)) \in Nat
         /\ IsFiniteSet(Pending(s, n)) /\ Cardinality(Pending(s, n)) \in Nat
         /\ Cardinality(Pending(s, n)) <= Cardinality(Threads)
         /\ Cardinality(Threads) \in Nat /\ Stale \in Nat /\ Stale <= Cardinality(Threads)
         /\ LimitOf(s) \in Nat \ {0} /\ WindowOf(s) \in Nat \ {0} /\ WindowOf(s) <= Day
         /\ Day \in Nat /\ MaxTime \in Nat /\ n \in Nat /\ clock \in Nat
  <1>1. RowsIn(s, n) \subseteq rates /\ Pending(s, n) \subseteq Threads
    BY DEF RowsIn, Pending
  <1>2. /\ IsFiniteSet(RowsIn(s, n)) /\ IsFiniteSet(Pending(s, n))
        /\ Cardinality(Pending(s, n)) <= Cardinality(Threads)
    BY <1>1, FS_Subset, RateAssumption DEF RateTypes
  <1>3. /\ PassedInWindow(s, n) \in Nat /\ Cardinality(RowsIn(s, n)) \in Nat
        /\ Cardinality(Pending(s, n)) \in Nat /\ Cardinality(Threads) \in Nat
    BY <1>2, FS_CardinalityType, RateAssumption DEF PassedInWindow
  <1>4. Cardinality(Threads) # 0
    BY FS_EmptySet, RateAssumption
  <1>5. Stale \in Nat /\ Stale <= Cardinality(Threads)
    BY <1>3, <1>4, RateAssumption DEF Stale
  <1>6. LimitOf(s) \in Nat \ {0} /\ WindowOf(s) \in Nat \ {0} /\ WindowOf(s) <= Day
    BY RateAssumption DEF LimitOf, WindowOf
  <1>7. Day \in Nat /\ MaxTime \in Nat /\ n \in Nat /\ clock \in Nat
    BY RateAssumption DEF RateTypes
  <1> QED BY <1>2, <1>3, <1>5, <1>6, <1>7

\* A step that touches neither what passed nor the rows of a window leaves it as it is,
\* unless it lets a thread join those that may still pass.
LEMMA WindowStays ==
  ASSUME WindowInv, RateTypes', NEW s \in Scopes, NEW n \in 0 .. MaxTime,
         Passed(s, n)' = Passed(s, n), RowsIn(s, n) \subseteq RowsIn(s, n)',
         clock <= clock', n < clock => Pending(s, n)' \subseteq Pending(s, n)
  PROVE  IsFiniteSet(Passed(s, n)') /\ (Complete(s, n)' \/ Lost(s, n)')
  <1>1. IsFiniteSet(Passed(s, n)) /\ IsFiniteSet(Passed(s, n)') /\ RateTypes
    BY DEF WindowInv
  <1>2. /\ PassedInWindow(s, n) \in Nat /\ PassedInWindow(s, n)' = PassedInWindow(s, n)
        /\ Cardinality(RowsIn(s, n)) \in Nat /\ Cardinality(Pending(s, n)) \in Nat
        /\ IsFiniteSet(Pending(s, n)) /\ LimitOf(s) \in Nat /\ Stale \in Nat
        /\ clock \in Nat /\ n \in Nat
    BY <1>1, WindowNumbers DEF PassedInWindow
  <1>3. /\ IsFiniteSet(RowsIn(s, n)') /\ clock' \in Nat
        /\ Cardinality(RowsIn(s, n)') \in Nat /\ Cardinality(Pending(s, n)') \in Nat
        /\ IsFiniteSet(Pending(s, n)')
    <2>1. RowsIn(s, n)' \subseteq rates' /\ Pending(s, n)' \subseteq Threads
      BY DEF RowsIn, Pending
    <2>2. IsFiniteSet(rates') /\ clock' \in Nat
      BY RateAssumption DEF RateTypes
    <2>3. IsFiniteSet(RowsIn(s, n)') /\ IsFiniteSet(Pending(s, n)')
      BY <2>1, <2>2, FS_Subset, RateAssumption
    <2> QED BY <2>2, <2>3, FS_CardinalityType
  <1>4. CASE Complete(s, n)
    <2>1. Cardinality(RowsIn(s, n)) <= Cardinality(RowsIn(s, n)')
      BY <1>3, FS_Subset
    <2>2. Complete(s, n)'
      BY <1>2, <1>3, <1>4, <2>1 DEF Complete
    <2> QED BY <1>1, <2>2
  <1>5. CASE Lost(s, n)
    <2>1. n < clock /\ n < clock'
      BY <1>2, <1>3, <1>5 DEF Lost
    <2>2. Cardinality(Pending(s, n)') <= Cardinality(Pending(s, n))
      BY <1>2, <2>1, FS_Subset
    <2>3. Lost(s, n)'
      BY <1>2, <1>3, <1>5, <2>1, <2>2 DEF Lost, Stale
    <2> QED BY <1>1, <2>3
  <1> QED BY <1>4, <1>5 DEF WindowInv

\* Who removes rows from a window comes after its end.
LEMMA WindowBreaks ==
  ASSUME WindowInv, RateTypes', NEW s \in Scopes, NEW n \in 0 .. MaxTime,
         Passed(s, n)' = Passed(s, n), n < clock, clock <= clock',
         Pending(s, n)' \subseteq Pending(s, n), Cardinality(Pending(s, n)) <= Stale
  PROVE  IsFiniteSet(Passed(s, n)') /\ (Complete(s, n)' \/ Lost(s, n)')
  <1>1. IsFiniteSet(Passed(s, n)) /\ IsFiniteSet(Passed(s, n)') /\ RateTypes
    BY DEF WindowInv
  <1>2. /\ PassedInWindow(s, n) \in Nat /\ PassedInWindow(s, n)' = PassedInWindow(s, n)
        /\ Cardinality(RowsIn(s, n)) \in Nat /\ Cardinality(Pending(s, n)) \in Nat
        /\ IsFiniteSet(Pending(s, n)) /\ LimitOf(s) \in Nat /\ Stale \in Nat
        /\ clock \in Nat /\ n \in Nat
    BY <1>1, WindowNumbers DEF PassedInWindow
  <1>3. Cardinality(Pending(s, n)') \in Nat /\ clock' \in Nat
    <2>1. Pending(s, n)' \subseteq Threads
      BY DEF Pending
    <2>2. IsFiniteSet(Pending(s, n)')
      BY <2>1, FS_Subset, RateAssumption
    <2> QED BY <2>2, FS_CardinalityType, RateAssumption DEF RateTypes
  <1>4. PassedInWindow(s, n) + Cardinality(Pending(s, n)) <= LimitOf(s) + Stale
    BY <1>2 DEF WindowInv, Complete, Lost
  <1>5. Cardinality(Pending(s, n)') <= Cardinality(Pending(s, n))
    BY <1>2, FS_Subset
  <1>6. Lost(s, n)'
    BY <1>2, <1>3, <1>4, <1>5 DEF Lost, Stale
  <1> QED BY <1>1, <1>6

\* The counts of a window change only with the counters of its scope.
LEMMA PassedSame ==
  ASSUME NEW s, NEW n, \A i \in 0 .. MaxTime :
            n - WindowOf(s) < i /\ i <= n => granted'[s][i] = granted[s][i]
  PROVE  Passed(s, n)' = Passed(s, n)
  BY DEF Passed, WindowOf

\* A request at time m of the window is one more pair.
LEMMA PassedGrows ==
  ASSUME RateTypes, NEW s \in Scopes, NEW n \in 0 .. MaxTime, NEW m \in 0 .. MaxTime,
         n - WindowOf(s) < m, m <= n, IsFiniteSet(Passed(s, n)),
         granted' = [granted EXCEPT ![s][m] = @ + 1]
  PROVE  /\ IsFiniteSet(Passed(s, n)')
         /\ PassedInWindow(s, n)' = PassedInWindow(s, n) + 1
  <1> DEFINE pair == <<m, granted[s][m] + 1>>
  <1>1. /\ granted[s][m] \in Nat /\ granted'[s][m] = granted[s][m] + 1
        /\ \A i \in 0 .. MaxTime : i # m => granted'[s][i] = granted[s][i]
    BY DEF RateTypes
  <1>2. \A k \in Nat : 1 .. k + 1 = (1 .. k) \cup {k + 1}
    OBVIOUS
  <1>3. Passed(s, n)' = Passed(s, n) \cup {pair}
    <2> DEFINE times == {i \in 0 .. MaxTime : n - WindowOf(s) < i /\ i <= n}
               of(g) == UNION {{i} \X (1 .. g[s][i]) : i \in times}
    <2>1. Passed(s, n) = of(granted) /\ Passed(s, n)' = of(granted')
      BY DEF Passed, WindowOf
    <2>2. m \in times
      OBVIOUS
    <2>3. ASSUME NEW i \in times
          PROVE  1 .. granted'[s][i] = (1 .. granted[s][i]) \cup
                                          {k \in {granted[s][m] + 1} : i = m}
      <3>1. CASE i = m
        <4>1. 1 .. granted'[s][i] = 1 .. granted[s][m] + 1
          BY <1>1, <3>1
        <4> QED BY <1>1, <1>2, <3>1, <4>1
      <3>2. CASE i # m
        BY <1>1, <2>3, <3>2
      <3> QED BY <3>1, <3>2
    <2>4. ASSUME NEW x PROVE x \in of(granted') <=> x \in of(granted) \cup {pair}
      <3> HIDE DEF times
      <3>1. x \in of(granted') <=>
              \E i \in times : \E k \in (1 .. granted[s][i]) \cup
                              {k \in {granted[s][m] + 1} : i = m} : x = <<i, k>>
        BY <2>3
      <3>2. x \in of(granted) <=> \E i \in times : \E k \in 1 .. granted[s][i] : x = <<i, k>>
        OBVIOUS
      <3> QED BY <2>2, <3>1, <3>2
    <2> QED BY <2>1, <2>4
  <1>4. pair \notin Passed(s, n)
    <2>1. granted[s][m] + 1 \notin 1 .. granted[s][m]
      BY <1>1
    <2> QED BY <2>1 DEF Passed
  <1>5. /\ IsFiniteSet(Passed(s, n) \cup {pair})
        /\ Cardinality(Passed(s, n) \cup {pair}) = Cardinality(Passed(s, n)) + 1
    BY <1>4, FS_AddElement
  <1> QED BY <1>3, <1>5 DEF PassedInWindow

\* One thread is charged in one scope.
Charges(t, scope) ==
    \/ scope = <<"user", actor[t]>> /\ ChargeUser(t)
    \/ scope = DayScope /\ ChargeDay(t)

\* What a charge does to the table.
LEMMA ChargeRows ==
  ASSUME RateTypes, NEW t \in Threads, NEW scope, Charges(t, scope)
  PROVE  /\ scope \in Scopes /\ UNCHANGED <<actor, now, clock, arrived>>
         /\ rates' = AfterRate(rates, scope, LimitOf(scope), WindowOf(scope), now[t])
         /\ granted' = IF RateAllows(rates, scope, LimitOf(scope), WindowOf(scope), now[t])
                         THEN [granted EXCEPT ![scope][now[t]] = @ + 1] ELSE granted
  BY DEF Charges, ChargeUser, ChargeDay, Charge, Scopes, RateTypes

\* A charged thread is through with the scope, and nobody else moves.
LEMMA ChargePending ==
  ASSUME RateTypes, NEW t \in Threads, NEW scope, Charges(t, scope)
  PROVE  /\ pc' \in [Threads -> {"idle", "user_limit", "day_limit"}]
         /\ \A s, n : Pending(s, n)' \subseteq Pending(s, n)
         /\ \A n : t \notin Pending(scope, n)' /\ (now[t] <= n => t \in Pending(scope, n))
  <1>1. /\ now' = now
        /\ \/ /\ scope = <<"user", actor[t]>> /\ pc[t] = "user_limit"
              /\ pc' \in {[pc EXCEPT ![t] = "day_limit"], [pc EXCEPT ![t] = "idle"]}
           \/ /\ scope = DayScope /\ pc[t] = "day_limit"
              /\ pc' = [pc EXCEPT ![t] = "idle"]
    BY DEF Charges, ChargeUser, ChargeDay, Charge
  <1>2. <<"user", actor[t]>> # DayScope
    BY DEF DayScope
  <1> QED BY <1>1, <1>2 DEF Pending, RateTypes

\* A request that passes is a new row.
LEMMA NewRow ==
  ASSUME NEW rows, IsFiniteSet(rows), NEW scope, NEW limit, NEW window, NEW n,
         RateAllows(rows, scope, limit, window, n)
  PROVE  \E row : /\ row = [id |-> row.id, scope |-> scope, at |-> n]
                  /\ row.id \in Nat /\ row \notin Pruned(rows, scope, window, n)
                  /\ AfterRate(rows, scope, limit, window, n) =
                        Pruned(rows, scope, window, n) \cup {row}
  <1> DEFINE kept == Pruned(rows, scope, window, n)
             row == [id |-> UnusedId(kept), scope |-> scope, at |-> n]
  <1>1. IsFiniteSet(kept)
    BY FS_Subset DEF Pruned
  <1>2. UnusedId(kept) \in Nat /\ \A r \in kept : r.id # UnusedId(kept)
    BY <1>1, UnusedIdIsUnused
  <1>3. row.id = UnusedId(kept) /\ row \notin kept
    BY <1>2
  <1>4. AfterRate(rows, scope, limit, window, n) = kept \cup {row}
    BY DEF AfterRate
  <1> QED BY <1>2, <1>3, <1>4

\* A charge keeps the types.
LEMMA ChargeTypes ==
  ASSUME RateTypes, NEW t \in Threads, NEW scope, Charges(t, scope),
         \A r \in rates : granted[r.scope][r.at] >= 1
  PROVE  RateTypes' /\ \A r \in rates' : granted'[r.scope][r.at] >= 1
  <1> DEFINE m == now[t]
             kept == Pruned(rates, scope, WindowOf(scope), m)
  <1>1. /\ m \in Nat /\ m <= clock /\ clock \in Nat /\ clock <= MaxTime /\ m \in 0 .. MaxTime
    BY RateAssumption DEF RateTypes
  <1>2. /\ scope \in Scopes /\ UNCHANGED <<actor, now, clock, arrived>>
        /\ pc' \in [Threads -> {"idle", "user_limit", "day_limit"}]
    BY ChargeRows, ChargePending
  <1>3. kept \subseteq rates /\ IsFiniteSet(kept)
    BY FS_Subset DEF Pruned, RateTypes
  <1>4. CASE RateAllows(rates, scope, LimitOf(scope), WindowOf(scope), m)
    <2>1. PICK row : /\ row = [id |-> row.id, scope |-> scope, at |-> m]
                     /\ row.id \in Nat /\ rates' = kept \cup {row}
      BY <1>4, ChargeRows, NewRow DEF RateTypes
    <2>2. row.scope = scope /\ row.at = m
      BY <2>1
    <2>3. row \in [id : Nat, scope : Scopes, at : 0 .. MaxTime]
      BY <1>1, <1>2, <2>1
    <2>4. IsFiniteSet(rates')
      BY <1>3, <2>1, FS_AddElement
    <2>5. granted' = [granted EXCEPT ![scope][m] = @ + 1]
      BY <1>4, ChargeRows
    <2>6. /\ granted' \in [Scopes -> [0 .. MaxTime -> Nat]]
          /\ granted'[scope][m] >= 1
          /\ \A s \in Scopes, i \in 0 .. MaxTime : granted'[s][i] >= granted[s][i]
      <3>1. granted \in [Scopes -> [0 .. MaxTime -> Nat]] /\ granted[scope][m] \in Nat
        BY <1>1, <1>2 DEF RateTypes
      <3>2. granted' \in [Scopes -> [0 .. MaxTime -> Nat]]
        BY <1>1, <1>2, <2>5, <3>1
      <3>3. ASSUME NEW s \in Scopes, NEW i \in 0 .. MaxTime
            PROVE  granted'[s][i] = IF s = scope /\ i = m THEN granted[s][i] + 1
                                    ELSE granted[s][i]
        BY <1>1, <1>2, <2>5, <3>1
      <3>4. \A s \in Scopes, i \in 0 .. MaxTime : granted[s][i] \in Nat
        BY <3>1
      <3> HIDE DEF m
      <3> QED BY <1>1, <1>2, <3>1, <3>2, <3>3, <3>4
    <2>7. \A r \in rates' : r.at <= clock
      BY <1>1, <1>3, <2>1, <2>2 DEF RateTypes
    <2>8. rates' \subseteq [id : Nat, scope : Scopes, at : 0 .. MaxTime]
      BY <1>3, <2>1, <2>3 DEF RateTypes
    <2>9. RateTypes'
      BY <1>2, <2>4, <2>6, <2>7, <2>8 DEF RateTypes
    <2>10. ASSUME NEW r \in kept PROVE granted'[r.scope][r.at] >= 1
      <3>1. r \in rates /\ r.scope \in Scopes /\ r.at \in 0 .. MaxTime
        BY <1>3 DEF RateTypes
      <3>2. granted[r.scope][r.at] >= 1 /\ granted'[r.scope][r.at] >= granted[r.scope][r.at]
        BY <2>6, <3>1
      <3>3. granted[r.scope][r.at] \in Nat /\ granted'[r.scope][r.at] \in Nat
        BY <2>6, <3>1 DEF RateTypes
      <3> QED BY <3>2, <3>3
    <2> QED BY <2>1, <2>2, <2>6, <2>9, <2>10
  <1>5. CASE ~RateAllows(rates, scope, LimitOf(scope), WindowOf(scope), m)
    <2>1. rates' = kept /\ granted' = granted
      BY <1>5, ChargeRows DEF AfterRate
    <2>2. RateTypes'
      BY <1>2, <1>3, <2>1 DEF RateTypes
    <2> QED BY <1>3, <2>1, <2>2
  <1> QED BY <1>4, <1>5

\* A charge keeps every window.
LEMMA ChargeKeeps ==
  ASSUME WindowInv, NEW t \in Threads, NEW scope, Charges(t, scope)
  PROVE  WindowInv'
  <1> DEFINE m == now[t]
             W == WindowOf(scope)
             kept == Pruned(rates, scope, W, m)
  <1>1. /\ RateTypes /\ RateTypes' /\ \A r \in rates' : granted'[r.scope][r.at] >= 1
        /\ m \in Nat /\ m <= clock /\ clock \in 0 .. MaxTime /\ m \in 0 .. MaxTime
    <2>1. RateTypes /\ RateTypes' /\ \A r \in rates' : granted'[r.scope][r.at] >= 1
      BY ChargeTypes DEF WindowInv
    <2>2. MaxTime \in Nat /\ m \in Nat /\ m <= clock /\ clock \in 0 .. MaxTime
      BY <2>1, RateAssumption DEF RateTypes
    <2> HIDE DEF m
    <2>3. m \in 0 .. MaxTime
      BY <2>2
    <2> QED BY <2>1, <2>2, <2>3
  <1>2. /\ scope \in Scopes /\ clock' = clock
        /\ rates' = AfterRate(rates, scope, LimitOf(scope), W, m)
        /\ \A s, n : Pending(s, n)' \subseteq Pending(s, n)
        /\ \A n : t \notin Pending(scope, n)' /\ (m <= n => t \in Pending(scope, n))
    BY <1>1, ChargeRows, ChargePending
  <1>3. SUFFICES ASSUME NEW s \in Scopes, NEW n \in 0 .. MaxTime
                 PROVE  IsFiniteSet(Passed(s, n)') /\ (Complete(s, n)' \/ Lost(s, n)')
    BY <1>1 DEF WindowInv
  <1>4. /\ IsFiniteSet(Passed(s, n)) /\ (Complete(s, n) \/ Lost(s, n))
        /\ n \in Nat /\ clock \in Nat /\ W \in Nat /\ MaxTime \in Nat
    BY <1>1, <1>2, RateAssumption DEF WindowInv, WindowOf
  <1>5. \A i \in 0 .. MaxTime : s # scope \/ i # m => granted'[s][i] = granted[s][i]
    <2>1. granted' = granted \/ granted' = [granted EXCEPT ![scope][m] = @ + 1]
      BY <1>1, ChargeRows
    <2>2. granted \in [Scopes -> [0 .. MaxTime -> Nat]]
      BY <1>1 DEF RateTypes
    <2> HIDE DEF m
    <2>3. ASSUME NEW i \in 0 .. MaxTime, s # scope
          PROVE  granted'[s][i] = granted[s][i]
      BY <1>2, <2>1, <2>2, <2>3
    <2>4. ASSUME NEW i \in 0 .. MaxTime, i # m
          PROVE  granted'[s][i] = granted[s][i]
      BY <1>2, <2>1, <2>2, <2>4
    <2> QED BY <2>3, <2>4
  <1>6. \A r \in rates : r.at \in Nat
    BY <1>1 DEF RateTypes
  <1>7. CASE s # scope
    <2>1. Passed(s, n)' = Passed(s, n)
      BY <1>5, <1>7, PassedSame
    <2>2. RowsIn(s, n) \subseteq RowsIn(s, n)'
      BY <1>2, <1>7 DEF RowsIn, AfterRate, Pruned, WindowOf
    <2> QED BY <1>1, <1>2, <1>4, <2>1, <2>2, WindowStays
  <1>8. CASE s = scope /\ n < m
    <2>1. Passed(s, n)' = Passed(s, n)
      <3>1. \A i \in 0 .. MaxTime : i <= n => granted'[s][i] = granted[s][i]
        BY <1>1, <1>4, <1>5, <1>8
      <3> QED BY <3>1, PassedSame
    <2>2. Pending(s, n) \subseteq Threads \ {t}
      BY <1>1, <1>4, <1>8 DEF Pending
    <2>3. Cardinality(Pending(s, n)) <= Stale
      <3>1. IsFiniteSet(Threads \ {t}) /\ Cardinality(Threads \ {t}) = Cardinality(Threads) - 1
        BY FS_RemoveElement, RateAssumption
      <3>2. Cardinality(Pending(s, n)) <= Cardinality(Threads \ {t})
        BY <2>2, <3>1, FS_Subset
      <3>3. Cardinality(Pending(s, n)) \in Nat /\ Cardinality(Threads) \in Nat
        BY <1>1, <1>4, WindowNumbers
      <3> QED BY <3>1, <3>2, <3>3 DEF Stale
    <2> QED BY <1>1, <1>2, <1>4, <1>8, <2>1, <2>3, WindowBreaks
  <1>9. CASE s = scope /\ m <= n
    <2>1. RowsIn(s, n) \subseteq kept
      BY <1>1, <1>4, <1>9 DEF RowsIn, Pruned, RateTypes
    <2>2. kept \subseteq rates'
      BY <1>2 DEF AfterRate
    <2>3. RowsIn(s, n) \subseteq RowsIn(s, n)'
      BY <2>1, <2>2 DEF RowsIn, WindowOf
    <2>4. CASE ~RateAllows(rates, scope, LimitOf(scope), W, m)
      <3>1. Passed(s, n)' = Passed(s, n)
        BY <1>1, <2>4, PassedSame, ChargeRows
      <3> QED BY <1>1, <1>2, <1>4, <2>3, <3>1, WindowStays
    <2>5. CASE m <= n - W
      <3>1. Passed(s, n)' = Passed(s, n)
        <4>1. \A i \in 0 .. MaxTime : n - W < i => granted'[s][i] = granted[s][i]
          BY <1>1, <1>4, <1>5, <2>5
        <4> QED BY <1>9, <4>1, PassedSame
      <3> QED BY <1>1, <1>2, <1>4, <2>3, <3>1, WindowStays
    <2>6. CASE n - W < m /\ RateAllows(rates, scope, LimitOf(scope), W, m)
      <3>1. granted' = [granted EXCEPT ![s][m] = @ + 1]
        BY <1>1, <1>9, <2>6, ChargeRows
      <3>2. IsFiniteSet(Passed(s, n)') /\ PassedInWindow(s, n)' = PassedInWindow(s, n) + 1
        BY <1>1, <1>4, <1>9, <2>6, <3>1, PassedGrows
      <3>3. /\ PassedInWindow(s, n) \in Nat /\ LimitOf(s) \in Nat /\ Stale \in Nat
            /\ IsFiniteSet(RowsIn(s, n)) /\ Cardinality(RowsIn(s, n)) \in Nat
            /\ IsFiniteSet(Pending(s, n)) /\ Cardinality(Pending(s, n)) \in Nat
        BY <1>1, <1>4, WindowNumbers
      <3>4. CASE Complete(s, n)
        <4>1. RowsIn(s, n) \subseteq InWindow(rates, s, W, m)
          BY <1>1, <1>4, <1>6, <1>9 DEF RowsIn, InWindow
        <4>2. IsFiniteSet(InWindow(rates, s, W, m))
          BY <1>1, FS_Subset DEF InWindow, RateTypes
        <4>3. /\ Cardinality(RowsIn(s, n)) <= Cardinality(InWindow(rates, s, W, m))
              /\ Cardinality(InWindow(rates, s, W, m)) \in Nat
          BY <4>1, <4>2, FS_Subset, FS_CardinalityType
        <4>4. Cardinality(InWindow(rates, s, W, m)) < LimitOf(s)
          BY <1>9, <2>6 DEF RateAllows
        <4>5. PICK row : /\ row = [id |-> row.id, scope |-> scope, at |-> m]
                         /\ row \notin kept /\ rates' = kept \cup {row}
          <5>1. IsFiniteSet(rates)
            BY <1>1 DEF RateTypes
          <5> QED BY <1>2, <2>6, <5>1, NewRow
        <4>6. row.scope = s /\ row.at = m
          BY <1>9, <4>5
        <4>7. RowsIn(s, n)' = RowsIn(s, n) \cup {row} /\ row \notin RowsIn(s, n)
          BY <1>9, <2>1, <2>6, <4>5, <4>6 DEF RowsIn, WindowOf, Pruned
        <4>8. Cardinality(RowsIn(s, n)') = Cardinality(RowsIn(s, n)) + 1
          BY <3>3, <4>7, FS_AddElement
        <4>9. Complete(s, n)'
          BY <3>2, <3>3, <3>4, <4>3, <4>4, <4>8 DEF Complete, LimitOf
        <4> QED BY <3>2, <4>9
      <3>5. CASE Lost(s, n)
        <4>1. Pending(s, n)' \subseteq Pending(s, n) \ {t} /\ t \in Pending(s, n)
          BY <1>2, <1>9
        <4>2. /\ IsFiniteSet(Pending(s, n) \ {t})
              /\ Cardinality(Pending(s, n) \ {t}) = Cardinality(Pending(s, n)) - 1
          BY <3>3, <4>1, FS_RemoveElement
        <4>3. /\ Cardinality(Pending(s, n)') <= Cardinality(Pending(s, n)) - 1
              /\ Cardinality(Pending(s, n)') \in Nat
          BY <4>1, <4>2, FS_Subset, FS_CardinalityType
        <4>4. Lost(s, n)'
          BY <1>2, <3>2, <3>3, <3>5, <4>3 DEF Lost, LimitOf, Stale
        <4> QED BY <3>2, <4>4
      <3> QED BY <1>4, <3>4, <3>5
    <2> QED BY <1>1, <1>4, <2>4, <2>5, <2>6
  <1> QED BY <1>1, <1>4, <1>7, <1>8, <1>9

\* The purge deletes what is out of every window that has not ended; it is nobody's
\* request, so that every thread may still pass one.
LEMMA PurgeKeeps ==
  ASSUME WindowInv, Purge
  PROVE  WindowInv'
  <1>1. /\ rates' = {r \in rates : r.at > clock - Day} /\ PurgeRuns
        /\ UNCHANGED <<pc, actor, now, granted, clock, arrived>>
    BY DEF Purge, PurgedRates
  <1>2. RateTypes /\ RateTypes' /\ \A r \in rates' : granted'[r.scope][r.at] >= 1
    <2>1. rates' \subseteq rates
      BY <1>1
    <2>2. IsFiniteSet(rates')
      BY <2>1, FS_Subset DEF WindowInv, RateTypes
    <2> QED BY <1>1, <2>1, <2>2 DEF WindowInv, RateTypes
  <1>3. SUFFICES ASSUME NEW s \in Scopes, NEW n \in 0 .. MaxTime
                 PROVE  IsFiniteSet(Passed(s, n)') /\ (Complete(s, n)' \/ Lost(s, n)')
    BY <1>2 DEF WindowInv
  <1>4. Passed(s, n)' = Passed(s, n) /\ Pending(s, n)' = Pending(s, n)
    BY <1>1 DEF Passed, WindowOf, Pending
  <1>5. /\ IsFiniteSet(Passed(s, n)) /\ n \in Nat /\ clock \in Nat
        /\ Cardinality(Pending(s, n)) <= Cardinality(Threads)
        /\ Cardinality(Threads) \in Nat
        /\ WindowOf(s) \in Nat /\ WindowOf(s) <= Day /\ Day \in Nat
    BY <1>2, WindowNumbers DEF WindowInv
  <1>6. CASE n < clock
    <2>1. Stale = Cardinality(Threads)
      BY <1>1, <1>5 DEF Stale
    <2> QED BY <1>1, <1>2, <1>4, <1>5, <1>6, <2>1, WindowBreaks
  <1>7. CASE clock <= n
    <2>1. \A r \in rates : r.at \in Nat
      BY <1>2 DEF RateTypes
    <2>2. RowsIn(s, n) \subseteq RowsIn(s, n)'
      BY <1>1, <1>5, <1>7, <2>1 DEF RowsIn, WindowOf
    <2> QED BY <1>1, <1>2, <1>4, <1>5, <2>2, WindowStays
  <1> QED BY <1>5, <1>6, <1>7

\* A request that arrives has the time of the clock, past the end of every window
\* that may have lost rows.
LEMMA BeginKeeps ==
  ASSUME WindowInv, NEW t \in Threads, NEW a \in Actors, Begin(t, a)
  PROVE  WindowInv'
  <1>1. /\ now' = [now EXCEPT ![t] = clock] /\ actor' = [actor EXCEPT ![t] = a]
        /\ pc' = [pc EXCEPT ![t] = "user_limit"] /\ UNCHANGED <<rates, granted, clock>>
    BY DEF Begin
  <1>2. RateTypes /\ clock \in Nat
    BY RateAssumption DEF WindowInv, RateTypes
  <1>3. RateTypes'
    <2>1. now' \in [Threads -> Nat] /\ \A u \in Threads : now'[u] <= clock
      BY <1>1, <1>2 DEF RateTypes
    <2> QED BY <1>1, <1>2, <2>1 DEF RateTypes
  <1>4. SUFFICES ASSUME NEW s \in Scopes, NEW n \in 0 .. MaxTime
                 PROVE  IsFiniteSet(Passed(s, n)') /\ (Complete(s, n)' \/ Lost(s, n)')
    BY <1>1, <1>3 DEF WindowInv
  <1>5. Passed(s, n)' = Passed(s, n) /\ RowsIn(s, n)' = RowsIn(s, n)
    BY <1>1 DEF Passed, WindowOf, RowsIn
  <1>6. n < clock => Pending(s, n)' \subseteq Pending(s, n)
    <2> SUFFICES ASSUME n < clock, NEW u \in Pending(s, n)' PROVE u \in Pending(s, n)
      OBVIOUS
    <2>1. u \in Threads /\ now'[u] <= n
      BY DEF Pending
    <2>2. u # t
      BY <1>1, <1>2, <2>1 DEF RateTypes
    <2> QED BY <1>1, <1>2, <2>1, <2>2 DEF Pending, RateTypes
  <1> QED BY <1>1, <1>2, <1>3, <1>5, <1>6, WindowStays

\* Time alone costs nothing.
LEMMA TickKeeps ==
  ASSUME WindowInv, Tick \/ UNCHANGED vars
  PROVE  WindowInv'
  <1>1. /\ UNCHANGED <<rates, pc, actor, now, granted>>
        /\ clock' \in 0 .. MaxTime /\ clock <= clock' /\ clock \in Nat /\ clock' \in Nat
    BY RateAssumption DEF Tick, vars, WindowInv, RateTypes
  <1>2. RateTypes /\ (\A r \in rates : r.at \in Nat) /\ \A t \in Threads : now[t] \in Nat
    BY DEF WindowInv, RateTypes
  <1>3. RateTypes'
    <2>1. (\A r \in rates : r.at <= clock') /\ \A t \in Threads : now[t] <= clock'
      BY <1>1, <1>2 DEF RateTypes
    <2> QED BY <1>1, <1>2, <2>1 DEF RateTypes
  <1>4. SUFFICES ASSUME NEW s \in Scopes, NEW n \in 0 .. MaxTime
                 PROVE  IsFiniteSet(Passed(s, n)') /\ (Complete(s, n)' \/ Lost(s, n)')
    BY <1>1, <1>3 DEF WindowInv
  <1>5. /\ Passed(s, n)' = Passed(s, n) /\ RowsIn(s, n)' = RowsIn(s, n)
        /\ Pending(s, n)' = Pending(s, n)
    BY <1>1 DEF Passed, WindowOf, RowsIn, Pending
  <1> QED BY <1>1, <1>3, <1>5, WindowStays

\* Nothing has passed at first, so that every window is complete.
LEMMA WindowInvInit == Init => WindowInv
  <1> SUFFICES ASSUME Init PROVE WindowInv
    OBVIOUS
  <1>1. RateTypes
    <2>1. 0 \in 0 .. MaxTime
      BY RateAssumption
    <2>2. rates = {} /\ IsFiniteSet(rates)
      BY FS_EmptySet DEF Init
    <2> QED BY <2>1, <2>2 DEF Init, RateTypes
  <1>2. ASSUME NEW s \in Scopes, NEW n \in 0 .. MaxTime
        PROVE  IsFiniteSet(Passed(s, n)) /\ Complete(s, n)
    <2>1. \A i \in 0 .. MaxTime : granted[s][i] = 0
      BY DEF Init
    <2>2. Passed(s, n) = {} /\ RowsIn(s, n) = {}
      BY <2>1 DEF Passed, RowsIn, Init
    <2>3. IsFiniteSet(Passed(s, n)) /\ PassedInWindow(s, n) = 0
          /\ Cardinality(RowsIn(s, n)) = 0
      BY <2>2, FS_EmptySet DEF PassedInWindow
    <2> QED BY <2>3, LimitType DEF Complete
  <1> QED BY <1>1, <1>2 DEF WindowInv, Init

\* Every window stays complete, or stays within the bound of what has lost rows.
LEMMA WindowInvStep == WindowInv /\ [Next]_vars => WindowInv'
  <1> SUFFICES ASSUME WindowInv, [Next]_vars PROVE WindowInv'
    OBVIOUS
  <1>1. ASSUME NEW t \in Threads, ChargeUser(t) \/ ChargeDay(t)
        PROVE  WindowInv'
    <2>1. Charges(t, <<"user", actor[t]>>) \/ Charges(t, DayScope)
      BY <1>1 DEF Charges
    <2> QED BY <2>1, ChargeKeeps
  <1>2. ASSUME NEW t \in Threads, NEW a \in Actors, Begin(t, a)
        PROVE  WindowInv'
    BY <1>2, BeginKeeps
  <1>3. CASE Purge
    BY <1>3, PurgeKeeps
  <1>4. CASE Tick \/ Quiet \/ UNCHANGED vars
    BY <1>4, TickKeeps DEF Quiet
  <1> QED BY <1>1, <1>2, <1>3, <1>4 DEF Next

\* No window of a scope lets more requests pass than its limit and, for each thread
\* but the one that removed rows from it, one: a single worker is held to the limit.
THEOREM RateWindowNearly == Spec => []WindowNearlyRespected
  <1>1. WindowInv => WindowNearlyRespected
    <2> SUFFICES ASSUME WindowInv, NEW s \in Scopes, NEW n \in 0 .. MaxTime
                 PROVE  PassedInWindow(s, n) <= LimitOf(s) + Stale
      BY DEF WindowNearlyRespected, Stale
    <2>1. /\ PassedInWindow(s, n) \in Nat /\ LimitOf(s) \in Nat /\ Stale \in Nat
          /\ Cardinality(Pending(s, n)) \in Nat
      BY WindowNumbers DEF WindowInv
    <2> QED BY <2>1 DEF WindowInv, Complete, Lost
  <1> QED BY <1>1, WindowInvInit, WindowInvStep, PTL DEF Spec

\* When nothing that a scope let pass is younger than its window, the next request
\* passes: refusals leave no rows, and every row of the window is of a request that passed.
THEOREM RateRefusalsEnd == Spec => []RefusalsEnd
  <1>1. WindowInv => RefusalsEnd
    <2> SUFFICES ASSUME WindowInv, NEW s \in Scopes, PassedInWindow(s, clock) = 0
                 PROVE  RateAllows(rates, s, LimitOf(s), WindowOf(s), clock)
      BY DEF RefusalsEnd
    <2>1. /\ clock \in 0 .. MaxTime /\ clock \in Nat /\ LimitOf(s) \in Nat \ {0}
          /\ WindowOf(s) \in Nat /\ IsFiniteSet(Passed(s, clock))
      BY RateAssumption DEF WindowInv, RateTypes, LimitOf, WindowOf
    <2>2. Passed(s, clock) = {}
      BY <2>1, FS_EmptySet DEF PassedInWindow
    <2>3. ASSUME NEW r \in InWindow(rates, s, WindowOf(s), clock) PROVE FALSE
      <3>1. /\ r \in rates /\ r.scope = s /\ r.at \in 0 .. MaxTime
            /\ clock - WindowOf(s) < r.at /\ r.at <= clock
        <4>1. r \in rates /\ r.scope = s /\ r.at > clock - WindowOf(s)
          BY DEF InWindow
        <4>2. r.at \in 0 .. MaxTime /\ r.at <= clock
          BY <4>1 DEF WindowInv, RateTypes
        <4> QED BY <2>1, <4>1, <4>2
      <3>2. granted[s][r.at] >= 1 /\ granted[s][r.at] \in Nat
        BY <3>1 DEF WindowInv, RateTypes
      <3>3. 1 \in 1 .. granted[s][r.at]
        BY <3>2
      <3>4. <<r.at, 1>> \in Passed(s, clock)
        BY <3>1, <3>3 DEF Passed
      <3> QED BY <2>2, <3>4
    <2>4. InWindow(rates, s, WindowOf(s), clock) = {}
      BY <2>3
    <2> QED BY <2>1, <2>4, FS_EmptySet DEF RateAllows
  <1> QED BY <1>1, WindowInvInit, WindowInvStep, PTL DEF Spec

-------------------------------------------------------------------------------
(* Types, and a single worker. *)

\* Nothing passes that has not arrived: a scope has let pass, at whatever time, no
\* more than the requests that are not still to be charged in it.
ArrivedInv ==
    /\ arrived \in 0 .. MaxRequests
    /\ \A s \in Scopes, i \in 0 .. MaxTime :
          granted[s][i] + Cardinality(Pending(s, MaxTime)) <= arrived

\* Counts of threads are numbers.
LEMMA PendingCount ==
  ASSUME NEW s, NEW n
  PROVE  /\ IsFiniteSet(Pending(s, n)) /\ Cardinality(Pending(s, n)) \in Nat
         /\ IsFiniteSet(Pending(s, n)') /\ Cardinality(Pending(s, n)') \in Nat
  <1>1. Pending(s, n) \subseteq Threads /\ Pending(s, n)' \subseteq Threads
    BY DEF Pending
  <1> QED BY <1>1, FS_Subset, FS_CardinalityType, RateAssumption

\* A request that passes is one fewer to be charged.
LEMMA ChargeArrived ==
  ASSUME WindowInv, ArrivedInv, NEW t \in Threads, NEW scope, Charges(t, scope)
  PROVE  ArrivedInv'
  <1> DEFINE m == now[t]
  <1>1. RateTypes /\ arrived' = arrived /\ arrived \in 0 .. MaxRequests /\ arrived \in Nat
    BY ChargeRows, RateAssumption DEF WindowInv, ArrivedInv
  <1>2. /\ MaxTime \in Nat /\ m \in 0 .. MaxTime /\ m <= MaxTime /\ scope \in Scopes
        /\ granted \in [Scopes -> [0 .. MaxTime -> Nat]]
        /\ granted' = granted \/ granted' = [granted EXCEPT ![scope][m] = @ + 1]
    <2>1. MaxTime \in Nat /\ m \in Nat /\ m <= clock /\ clock \in 0 .. MaxTime
      BY <1>1, RateAssumption DEF RateTypes
    <2>2. /\ scope \in Scopes
          /\ granted' = granted \/ granted' = [granted EXCEPT ![scope][m] = @ + 1]
      BY <1>1, ChargeRows
    <2> HIDE DEF m
    <2>3. m \in 0 .. MaxTime /\ m <= MaxTime
      BY <2>1
    <2> QED BY <1>1, <2>1, <2>2, <2>3 DEF RateTypes
  <1>3. /\ \A s, n : Pending(s, n)' \subseteq Pending(s, n)
        /\ t \notin Pending(scope, MaxTime)' /\ t \in Pending(scope, MaxTime)
    BY <1>1, <1>2, ChargePending
  <1>4. ASSUME NEW s \in Scopes, NEW i \in 0 .. MaxTime
        PROVE  granted'[s][i] + Cardinality(Pending(s, MaxTime)') <= arrived
    <2> DEFINE before == Cardinality(Pending(s, MaxTime))
               after == Cardinality(Pending(s, MaxTime)')
    <2>1. /\ IsFiniteSet(Pending(s, MaxTime)) /\ before \in Nat /\ after \in Nat
          /\ granted[s][i] \in Nat /\ granted[s][i] + before <= arrived
      BY <1>2, PendingCount DEF ArrivedInv
    <2>2. CASE s = scope
      <3>1. /\ IsFiniteSet(Pending(s, MaxTime) \ {t})
            /\ Cardinality(Pending(s, MaxTime) \ {t}) = before - 1
        BY <1>3, <2>1, <2>2, FS_RemoveElement
      <3>2. after <= before - 1
        <4>1. Pending(s, MaxTime)' \subseteq Pending(s, MaxTime) \ {t}
          BY <1>3, <2>2
        <4> QED BY <3>1, <4>1, FS_Subset
      <3>3. granted'[s][i] \in {granted[s][i], granted[s][i] + 1}
        <4>1. CASE granted' = granted
          BY <4>1
        <4>2. CASE granted' = [granted EXCEPT ![scope][m] = @ + 1]
          <5> HIDE DEF m
          <5>1. CASE i = m
            BY <1>2, <2>2, <4>2, <5>1
          <5>2. CASE i # m
            BY <1>2, <2>2, <4>2, <5>2
          <5> QED BY <5>1, <5>2
        <4> QED BY <1>2, <4>1, <4>2
      <3>4. granted'[s][i] + after <= arrived
        <4> HIDE DEF before, after
        <4> QED BY <1>1, <2>1, <3>2, <3>3
      <3> QED BY <3>4
    <2>3. CASE s # scope
      <3>1. after <= before
        BY <1>3, <2>1, FS_Subset
      <3>2. granted'[s][i] = granted[s][i]
        BY <1>2, <2>3
      <3>3. granted'[s][i] + after <= arrived
        <4> HIDE DEF before, after
        <4> QED BY <1>1, <2>1, <3>1, <3>2
      <3> QED BY <3>3
    <2> QED BY <2>2, <2>3
  <1> QED BY <1>1, <1>4 DEF ArrivedInv

\* A request that arrives is one more to be charged.
LEMMA BeginArrived ==
  ASSUME WindowInv, ArrivedInv, NEW t \in Threads, NEW a \in Actors, Begin(t, a)
  PROVE  ArrivedInv'
  <1>1. /\ pc[t] = "idle" /\ arrived < MaxRequests /\ arrived' = arrived + 1
        /\ now' = [now EXCEPT ![t] = clock] /\ pc' = [pc EXCEPT ![t] = "user_limit"]
        /\ granted' = granted
    BY DEF Begin
  <1>2. RateTypes /\ arrived \in Nat /\ MaxRequests \in Nat /\ arrived' \in 0 .. MaxRequests
    BY <1>1, RateAssumption DEF WindowInv, ArrivedInv
  <1>3. ASSUME NEW s \in Scopes, NEW i \in 0 .. MaxTime
        PROVE  granted'[s][i] + Cardinality(Pending(s, MaxTime)') <= arrived'
    <2> DEFINE before == Cardinality(Pending(s, MaxTime))
               after == Cardinality(Pending(s, MaxTime)')
    <2>1. /\ IsFiniteSet(Pending(s, MaxTime)) /\ before \in Nat /\ after \in Nat
          /\ granted[s][i] \in Nat /\ granted[s][i] + before <= arrived
      BY <1>2, PendingCount DEF ArrivedInv, RateTypes
    <2>2. Pending(s, MaxTime)' \subseteq Pending(s, MaxTime) \cup {t}
      BY <1>1, <1>2 DEF Pending, RateTypes
    <2>3. /\ IsFiniteSet(Pending(s, MaxTime) \cup {t})
          /\ Cardinality(Pending(s, MaxTime) \cup {t}) \in Nat
          /\ Cardinality(Pending(s, MaxTime) \cup {t}) <= before + 1
      <3>1. /\ IsFiniteSet(Pending(s, MaxTime) \cup {t})
            /\ \/ Cardinality(Pending(s, MaxTime) \cup {t}) = before
               \/ Cardinality(Pending(s, MaxTime) \cup {t}) = before + 1
        BY <2>1, FS_AddElement
      <3> HIDE DEF before
      <3> QED BY <2>1, <3>1, FS_CardinalityType
    <2>4. after <= Cardinality(Pending(s, MaxTime) \cup {t})
      BY <2>2, <2>3, FS_Subset
    <2>5. granted'[s][i] + after <= arrived'
      <3> HIDE DEF before, after
      <3> QED BY <1>1, <1>2, <2>1, <2>3, <2>4
    <2> QED BY <2>5
  <1> QED BY <1>2, <1>3 DEF ArrivedInv

\* No step lets more pass than have arrived.
LEMMA ArrivedStep == WindowInv /\ ArrivedInv /\ [Next]_vars => ArrivedInv'
  <1> SUFFICES ASSUME WindowInv, ArrivedInv, [Next]_vars PROVE ArrivedInv'
    OBVIOUS
  <1>1. ASSUME NEW t \in Threads, ChargeUser(t) \/ ChargeDay(t)
        PROVE  ArrivedInv'
    <2>1. Charges(t, <<"user", actor[t]>>) \/ Charges(t, DayScope)
      BY <1>1 DEF Charges
    <2> QED BY <2>1, ChargeArrived
  <1>2. ASSUME NEW t \in Threads, NEW a \in Actors, Begin(t, a)
        PROVE  ArrivedInv'
    BY <1>2, BeginArrived
  <1>3. CASE Purge \/ Tick \/ Quiet \/ UNCHANGED vars
    <2>1. UNCHANGED <<pc, now, granted, arrived>>
      BY <1>3 DEF Purge, Tick, Quiet, vars
    <2> QED BY <2>1 DEF ArrivedInv, Pending
  <1> QED BY <1>1, <1>2, <1>3 DEF Next

\* The invariant holds whenever the service is asked.
LEMMA SpecRateInv == Spec => [](WindowInv /\ ArrivedInv)
  <1>1. Init => ArrivedInv
    <2> SUFFICES ASSUME Init PROVE ArrivedInv
      OBVIOUS
    <2>1. \A s : Pending(s, MaxTime) = {}
      BY DEF Init, Pending
    <2>2. Cardinality({}) = 0
      BY FS_EmptySet
    <2>3. arrived = 0 /\ 0 \in 0 .. MaxRequests
      BY RateAssumption DEF Init
    <2>4. ASSUME NEW s \in Scopes, NEW i \in 0 .. MaxTime
          PROVE  granted[s][i] + Cardinality(Pending(s, MaxTime)) <= arrived
      <3>1. granted[s][i] = 0 /\ Cardinality(Pending(s, MaxTime)) = 0
        BY <2>1, <2>2 DEF Init
      <3> QED BY <2>3, <3>1
    <2> QED BY <2>3, <2>4 DEF ArrivedInv
  <1> QED BY <1>1, WindowInvInit, WindowInvStep, ArrivedStep, PTL DEF Spec

\* The rows name scopes that exist and times that have been, and no scope lets more
\* requests pass in a second than have arrived.
THEOREM RateTypeCorrect == Spec => []TypeOK
  <1>1. WindowInv /\ ArrivedInv => TypeOK
    <2> SUFFICES ASSUME WindowInv, ArrivedInv PROVE TypeOK
      OBVIOUS
    <2>1. /\ RateTypes /\ arrived \in 0 .. MaxRequests /\ arrived \in Nat
          /\ clock \in Nat /\ MaxTime \in Nat
      BY RateAssumption DEF WindowInv, ArrivedInv, RateTypes
    <2>2. rates \subseteq [id : Nat, scope : Scopes, at : 0 .. clock]
      BY <2>1 DEF RateTypes
    <2>3. now \in [Threads -> 0 .. clock]
      BY <2>1 DEF RateTypes
    <2>4. ASSUME NEW s \in Scopes, NEW i \in 0 .. MaxTime
          PROVE  granted[s][i] \in 0 .. arrived
      <3>1. /\ granted[s][i] \in Nat /\ Cardinality(Pending(s, MaxTime)) \in Nat
            /\ granted[s][i] + Cardinality(Pending(s, MaxTime)) <= arrived
        BY <2>1, PendingCount DEF ArrivedInv, RateTypes
      <3> QED BY <2>1, <3>1
    <2>5. granted \in [Scopes -> [0 .. MaxTime -> 0 .. arrived]]
      BY <2>1, <2>4 DEF RateTypes
    <2> QED BY <2>1, <2>2, <2>3, <2>5 DEF TypeOK, RateTypes
  <1> QED BY <1>1, SpecRateInv, PTL

\* A service with one worker and no purge job holds every window to its limit: what
\* breaks the promise of SECURITY.md is parallelism, and the purge.
THEOREM RateSingleWorker ==
  ASSUME Cardinality(Threads) = 1, ~PurgeRuns
  PROVE  Spec => []WindowRespected
  <1>1. WindowInv => WindowRespected
    <2> SUFFICES ASSUME WindowInv, NEW s \in Scopes, NEW n \in 0 .. MaxTime
                 PROVE  PassedInWindow(s, n) <= LimitOf(s)
      BY DEF WindowRespected
    <2>1. Stale = 0
      BY DEF Stale
    <2>2. /\ PassedInWindow(s, n) \in Nat /\ LimitOf(s) \in Nat
          /\ Cardinality(Pending(s, n)) \in Nat
      BY WindowNumbers DEF WindowInv
    <2> QED BY <2>1, <2>2 DEF WindowInv, Complete, Lost
  <1> QED BY <1>1, WindowInvInit, WindowInvStep, PTL DEF Spec
=============================================================================
