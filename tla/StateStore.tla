------------------------------ MODULE StateStore ------------------------------
(***************************************************************************)
(* SQLiteStore: each method of the store as an operator from tables        *)
(* to tables.  A method runs under the store's lock in one transaction, so *)
(* whoever uses this module takes one step per method.                     *)
(*                                                                         *)
(* A table is a set of rows.  The contents of a turn are abstracted to the *)
(* event the exchange belongs to, hashed keys and scopes to themselves.    *)
(***************************************************************************)
EXTENDS Integers, FiniteSets

CONSTANTS EventTTL,         \* seconds a claimed event is remembered
          ConversationTTL,  \* seconds a turn is kept, 0 for ever
          HistoryTurns      \* exchanges handed to the model as context

ASSUME StoreAssumption ==
    /\ EventTTL \in Nat \ {0}
    /\ ConversationTTL \in Nat
    /\ HistoryTurns \in Nat

Roles == {"user", "assistant"}

-------------------------------------------------------------------------------
(* processed_events: rows [event, expires]. *)

\* The claims that `DELETE ... WHERE expires_at <= now` leaves.
LiveClaims(claims, now) == {c \in claims : c.expires > now}

\* INSERT OR IGNORE inserts: nobody holds an unexpired claim.
ClaimWins(claims, e, now) == \A c \in LiveClaims(claims, now) : c.event # e

AfterClaim(claims, e, now) ==
    LiveClaims(claims, now) \cup
        {c \in {[event |-> e, expires |-> now + EventTTL]} :
            ClaimWins(claims, e, now)}

-------------------------------------------------------------------------------
(* rate_events: rows [id, scope, at]. *)

\* The rows of a scope inside the window that ends at `now`.
InWindow(rates, scope, window, now) ==
    {r \in rates : r.scope = scope /\ r.at > now - window}

\* The table after the expired rows of one scope are deleted.
Pruned(rates, scope, window, now) ==
    {r \in rates : r.scope = scope => r.at > now - window}

\* Slip: one request too many.
RateAllowsOneMore(rates, scope, limit, window, now) ==
    Cardinality(InWindow(rates, scope, window, now)) <= limit

RateAllows(rates, scope, limit, window, now) ==
    Cardinality(InWindow(rates, scope, window, now)) < limit

\* An id no row has.  Only the identity of a rate row matters, not its order.
UnusedId(rows) ==
    CHOOSE i \in 0 .. Cardinality(rows) : \A r \in rows : r.id # i

\* Slip: a request that is refused counts as well.
AfterRateCountsRefusals(rates, scope, limit, window, now) ==
    LET kept == Pruned(rates, scope, window, now)
    IN  kept \cup {[id |-> UnusedId(kept), scope |-> scope, at |-> now]}

\* allow_request: a row for each request that passes.
AfterRate(rates, scope, limit, window, now) ==
    LET kept == Pruned(rates, scope, window, now)
    IN  IF RateAllows(rates, scope, limit, window, now)
          THEN kept \cup {[id |-> UnusedId(kept), scope |-> scope, at |-> now]}
          ELSE kept

-------------------------------------------------------------------------------
(* turns: rows [id, key, role, event, at]. *)

OfKey(turns, k) == {r \in turns : r.key = k}

Expired(r, now) == ConversationTTL > 0 /\ r.at <= now - ConversationTTL

\* load_turns deletes what has expired in the conversation it reads ...
AfterLoad(turns, k, now) == {r \in turns : r.key = k => ~Expired(r, now)}

\* ORDER BY created_at DESC, id DESC
Newer(s, r) == s.at > r.at \/ (s.at = r.at /\ s.id > r.id)

Newest(rows, n) == {r \in rows : Cardinality({s \in rows : Newer(s, r)}) < n}

\* Slip: the limit counts rows, not exchanges of two rows.
LoadTurnsByRow(turns, k, now) ==
    Newest(OfKey(AfterLoad(turns, k, now), k), HistoryTurns)

\* ... and returns the newest rows; their order is that of Newer.
LoadTurns(turns, k, now) ==
    Newest(OfKey(AfterLoad(turns, k, now), k), 2 * HistoryTurns)

\* Both rows are inserted by one executemany with one timestamp; seq is the
\* last id AUTOINCREMENT has given out.
AppendExchange(turns, seq, k, e, now) ==
    LET row(i, role) == [id |-> i, key |-> k, role |-> role, event |-> e, at |-> now]
    IN  turns \cup {row(seq + 1, "user"), row(seq + 2, "assistant")}

Reset(turns, k) == {r \in turns : r.key # k}

-------------------------------------------------------------------------------
\* purge: the three tables after the daily clean-up.
PurgedTurns(turns, now) == {r \in turns : ~Expired(r, now)}
PurgedRates(rates, day, now) == {r \in rates : r.at > now - day}
===============================================================================
