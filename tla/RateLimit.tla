------------------------------ MODULE RateLimit ------------------------------
(***************************************************************************)
(* _within_rate_limits, called by worker threads that read the clock when  *)
(* handle was called and may be charged much later: in between they claim  *)
(* the event and wait for the turn of their conversation, which another    *)
(* thread may hold for as long as the provider takes to answer.            *)
(*                                                                         *)
(* A request is counted at the time it arrived: that is what rate_events   *)
(* records and what the windows are about.                                 *)
(***************************************************************************)
EXTENDS StateStore

CONSTANTS
    Threads, Actors,
    UserLimit, UserWindow,   \* requests_per_window, request_window_seconds
    DailyLimit, Day,
    PurgeRuns,               \* whether the daily purge timer is installed
    MaxTime,                 \* bound: the clock stops here
    MaxRequests              \* bound: requests that arrive

\* config.py bounds the user's window to an hour.
ASSUME RateAssumption ==
    /\ {UserLimit, UserWindow, DailyLimit, Day} \subseteq Nat \ {0}
    /\ UserWindow <= Day
    /\ {MaxTime, MaxRequests} \subseteq Nat
    /\ PurgeRuns \in BOOLEAN
    /\ IsFiniteSet(Threads) /\ Threads # {}

VARIABLES
    rates,      \* the table rate_events
    pc, actor, now,     \* locals of handle in each thread
    granted,    \* granted[s][i]: requests at time i that scope s let pass
    clock, arrived

vars == <<rates, pc, actor, now, granted, clock, arrived>>

DayScope == <<"day">>
Scopes == {<<"user", a>> : a \in Actors} \cup {DayScope}
LimitOf(s) == IF s = DayScope THEN DailyLimit ELSE UserLimit
WindowOf(s) == IF s = DayScope THEN Day ELSE UserWindow

Init ==
    /\ rates = {}
    /\ pc = [t \in Threads |-> "idle"]
    /\ actor \in [Threads -> Actors]
    /\ now = [t \in Threads |-> 0]
    /\ granted = [s \in Scopes |-> [i \in 0 .. MaxTime |-> 0]]
    /\ clock = 0 /\ arrived = 0

\* now = self._clock()
Begin(t, a) ==
    /\ pc[t] = "idle" /\ arrived < MaxRequests
    /\ arrived' = arrived + 1
    /\ actor' = [actor EXCEPT ![t] = a]
    /\ now' = [now EXCEPT ![t] = clock]
    /\ pc' = [pc EXCEPT ![t] = "user_limit"]
    /\ UNCHANGED <<rates, granted, clock>>

\* allow_request for one scope: where control goes when it passes or does not.
Charge(t, scope, passed, denied) ==
    LET allows == RateAllows(rates, scope, LimitOf(scope), WindowOf(scope), now[t])
    IN  /\ rates' = AfterRate(rates, scope, LimitOf(scope), WindowOf(scope), now[t])
        /\ pc' = [pc EXCEPT ![t] = IF allows THEN passed ELSE denied]
        /\ granted' = IF allows THEN [granted EXCEPT ![scope][now[t]] = @ + 1]
                      ELSE granted
        /\ UNCHANGED <<actor, now, clock, arrived>>

ChargeUser(t) ==
    /\ pc[t] = "user_limit"
    /\ Charge(t, <<"user", actor[t]>>, "day_limit", "idle")

ChargeDay(t) ==
    /\ pc[t] = "day_limit"
    /\ Charge(t, DayScope, "idle", "idle")

\* The purge job, in another process.
Purge ==
    /\ PurgeRuns
    /\ rates' = PurgedRates(rates, Day, clock)
    /\ UNCHANGED <<pc, actor, now, granted, clock, arrived>>

Tick ==
    /\ clock < MaxTime
    /\ clock' = clock + 1
    /\ UNCHANGED <<rates, pc, actor, now, granted, arrived>>

\* No request need ever come.
Quiet ==
    /\ \A t \in Threads : pc[t] = "idle"
    /\ UNCHANGED vars

Next ==
    \/ \E t \in Threads : ChargeUser(t) \/ ChargeDay(t) \/ \E a \in Actors : Begin(t, a)
    \/ Purge \/ Tick \/ Quiet

Spec == Init /\ [][Next]_vars

-------------------------------------------------------------------------------
\* The rows name scopes that exist and times that have been.
TypeOK ==
    /\ rates \subseteq [id : Nat, scope : Scopes, at : 0 .. clock]
    /\ pc \in [Threads -> {"idle", "user_limit", "day_limit"}]
    /\ actor \in [Threads -> Actors]
    /\ now \in [Threads -> 0 .. clock]
    /\ granted \in [Scopes -> [0 .. MaxTime -> 0 .. arrived]]
    /\ clock \in 0 .. MaxTime
    /\ arrived \in 0 .. MaxRequests

\* What a scope let pass in the window that ends at time n: the requests of a
\* second are counted from 1.
Passed(s, n) ==
    UNION {{i} \X (1 .. granted[s][i]) :
              i \in {i \in 0 .. MaxTime : n - WindowOf(s) < i /\ i <= n}}
PassedInWindow(s, n) == Cardinality(Passed(s, n))

\* "Rate limits and the deployment-wide daily request bound still apply when
\* parallelism is greater than one": no window lets more pass than its limit.
WindowRespected ==
    \A s \in Scopes : \A n \in 0 .. MaxTime : PassedInWindow(s, n) <= LimitOf(s)

\* What parallelism really costs: a thread whose `now` is old is judged by a
\* table from which later requests, or the purge, have removed rows that its
\* own window still contains.  Each thread but the one that removed the rows can
\* slip in one request like this, so that a single worker is held to the limit.
WindowNearlyRespected ==
    LET stale == Cardinality(Threads) - IF PurgeRuns THEN 0 ELSE 1
    IN  \A s \in Scopes : \A n \in 0 .. MaxTime :
            PassedInWindow(s, n) <= LimitOf(s) + stale

\* However many threads there are and however old their clocks, the table holds
\* no more rows of a scope than its limit, so that it cannot grow with traffic.
TableBounded ==
    \A s \in Scopes : Cardinality({r \in rates : r.scope = s}) <= LimitOf(s)

\* A refused request does not prolong the refusal: when nothing a scope let pass
\* is younger than its window, the next request passes.
RefusalsEnd ==
    \A s \in Scopes : PassedInWindow(s, clock) = 0 =>
        RateAllows(rates, s, LimitOf(s), WindowOf(s), clock)
===============================================================================
