----------------------------- MODULE MemoryStore -----------------------------
(***************************************************************************)
(* MemoryStore next to SQLiteStore: both are given the same calls, as      *)
(* the local deployment and the tests give them to the one and production  *)
(* to the other, and have to give the same answers.                        *)
(*                                                                         *)
(* BotService.handle reads the clock once, before its calls, so the reading *)
(* a claim, a request or a load is given may be older than what other      *)
(* calls have already done.  It is not older than the last purge: the      *)
(* program purges before it serves.                                        *)
(*                                                                         *)
(* The unit of time is the microsecond by which MemoryStore dates an       *)
(* answer after its question.                                              *)
(***************************************************************************)
EXTENDS StateStore, Sequences

CONSTANTS Events, Keys, Scopes,
          Limit, Window,   \* of every scope
          Day,
          MaxTime,         \* bound: the clock stops here
          MaxTurns         \* bound: the rows of turns that are ever inserted

ASSUME MemoryAssumption ==
    /\ {Limit, Window, Day} \subseteq Nat \ {0} /\ Window <= Day
    /\ HistoryTurns # 0   \* a slice of the last 0 turns is the whole list
    /\ {MaxTime, MaxTurns} \subseteq Nat

VARIABLES
    claims, rates, turns, turnSeq,   \* SQLiteStore
    events,     \* _events: events[e] is the expiry of a claimed event
    times,      \* _rates: times[s] is a list of timestamps
    lists,      \* _turns: lists[k] is a list of turns
    clock,
    swept       \* when the stores were last purged

sqlite == <<claims, rates, turns, turnSeq>>
memory == <<events, times, lists>>
vars == <<sqlite, memory, clock, swept>>

\* The readings of the clock that a call can be given.
Readings == swept .. clock

Init ==
    /\ claims = {} /\ rates = {} /\ turns = {} /\ turnSeq = 0
    /\ events = <<>>
    /\ times = [s \in Scopes |-> <<>>]
    /\ lists = [k \in Keys |-> <<>>]
    /\ clock = 0 /\ swept = 0

-------------------------------------------------------------------------------
\* [list[i] for i in I], in the order of the list.  SelectSeq would say the same,
\* but it is recursive, and the proofs could not see into it.
Place(I, n) == CHOOSE i \in I : Cardinality({j \in I : j < i}) = n - 1

Sifted(list, I) == [n \in 1 .. Cardinality(I) |-> list[Place(I, n)]]

After(cutoff, list) == Sifted(list, {i \in DOMAIN list : list[i] > cutoff})

Fresh(list, now) ==
    IF ConversationTTL = 0 THEN list
    ELSE Sifted(list, {i \in DOMAIN list : list[i].at > now - ConversationTTL})

\* _events without those that have expired.
LiveEvents(now) == [e \in {f \in DOMAIN events : events[f] > now} |-> events[e]]

\* claim_event
ClaimEvent(e, now) ==
    /\ claims' = AfterClaim(claims, e, now)
    /\ LET live == LiveEvents(now) IN
       events' = [f \in DOMAIN live \cup {e} |->
                    IF f \in DOMAIN live THEN live[f] ELSE now + EventTTL]
    /\ UNCHANGED <<rates, turns, turnSeq, times, lists, clock, swept>>

Current(s, now) == After(now - Window, times[s])

\* Slip: the time is noted before it is decided whether the request passes.
AllowRequestNotesFirst(s, now) ==
    /\ rates' = AfterRate(rates, s, Limit, Window, now)
    /\ times' = [times EXCEPT ![s] = Append(Current(s, now), now)]
    /\ UNCHANGED <<claims, turns, turnSeq, events, lists, clock, swept>>

\* allow_request
AllowRequest(s, now) ==
    /\ rates' = AfterRate(rates, s, Limit, Window, now)
    /\ times' = [times EXCEPT ![s] =
                    IF Len(Current(s, now)) >= Limit THEN Current(s, now)
                    ELSE Append(Current(s, now), now)]
    /\ UNCHANGED <<claims, turns, turnSeq, events, lists, clock, swept>>

\* load_turns, for what it deletes; what it returns is Loaded.
Load(k, now) ==
    /\ turns' = AfterLoad(turns, k, now)
    /\ lists' = [lists EXCEPT ![k] = Fresh(@, now)]
    /\ UNCHANGED <<claims, rates, turnSeq, events, times, clock, swept>>

\* What load_turns returns: the last turns of the list.
Loaded(k, now) ==
    LET list == Fresh(lists[k], now)
        n == Len(list)
    IN  IF n <= 2 * HistoryTurns THEN list
        ELSE SubSeq(list, n - 2 * HistoryTurns + 1, n)

\* append_exchange, with a reading of its own (service.py:445)
AppendTurns(k, e) ==
    /\ turnSeq < MaxTurns
    /\ turns' = AppendExchange(turns, turnSeq, k, e, clock)
    /\ turnSeq' = turnSeq + 2
    /\ lists' = [lists EXCEPT ![k] = @ \o
                    << [role |-> "user", event |-> e, at |-> clock],
                       [role |-> "assistant", event |-> e, at |-> clock + 1] >>]
    /\ UNCHANGED <<claims, rates, events, times, clock, swept>>

\* reset
ResetTurns(k) ==
    /\ turns' = Reset(turns, k)
    /\ lists' = [lists EXCEPT ![k] = <<>>]
    /\ UNCHANGED <<claims, rates, turnSeq, events, times, clock, swept>>

Older(a, b) == IF a < b THEN b ELSE a

\* purge; MemoryStore keeps the times of requests for as long as the events.
Purge ==
    /\ claims' = LiveClaims(claims, clock)
    /\ turns' = PurgedTurns(turns, clock)
    /\ rates' = PurgedRates(rates, Day, clock)
    /\ events' = LiveEvents(clock)
    /\ lists' = [k \in Keys |-> Fresh(lists[k], clock)]
    /\ times' = [s \in Scopes |-> After(clock - Older(EventTTL, Day), times[s])]
    /\ swept' = clock
    /\ UNCHANGED <<turnSeq, clock>>

Tick ==
    /\ clock < MaxTime
    /\ clock' = clock + 1
    /\ UNCHANGED <<sqlite, memory, swept>>

Next ==
    \/ \E now \in Readings :
        \/ \E e \in Events : ClaimEvent(e, now)
        \/ \E s \in Scopes : AllowRequest(s, now)
        \/ \E k \in Keys : Load(k, now)
    \/ \E k \in Keys : ResetTurns(k) \/ \E e \in Events : AppendTurns(k, e)
    \/ Purge \/ Tick

Spec == Init /\ [][Next]_vars

-------------------------------------------------------------------------------
ClaimsAgree(now) ==
    \A e \in Events : ClaimWins(claims, e, now) <=> e \notin DOMAIN LiveEvents(now)

RatesAgree(now) ==
    \A s \in Scopes :
        RateAllows(rates, s, Limit, Window, now) <=> Len(Current(s, now)) < Limit

\* The rows SQLite returns, in the order in which load_turns returns them.
Rows(k, now) ==
    LET rows == LoadTurns(turns, k, now)
    IN  [n \in 1 .. Cardinality(rows) |->
            CHOOSE r \in rows : Cardinality({s \in rows : Newer(r, s)}) = n - 1]

Contents(list) == [i \in DOMAIN list |-> <<list[i].role, list[i].event>>]

\* An answer whose question had expired when the clock was last read, or before.
LeftOver(turn) ==
    /\ ConversationTTL > 0 /\ turn.role = "assistant"
    /\ turn.at - 1 <= clock - ConversationTTL

TurnsAgree(now) ==
    \A k \in Keys :
        LET list == Loaded(k, now)
            more == Len(list) - Len(Rows(k, now))
        IN  /\ more >= 0
            /\ Contents(SubSeq(list, more + 1, Len(list))) = Contents(Rows(k, now))
            /\ \A i \in 1 .. more : LeftOver(list[i])

\* Whatever the calls were, and whichever reading of the clock the next one is
\* given, both stores call the same events duplicates, refuse the same requests
\* and return the same turns, oldest first, except that MemoryStore, which dates
\* an answer a microsecond after its question, may have the answer still when the
\* question has expired: what it returns may begin with half an exchange, which
\* SQLite, dating both alike, never returns.
StoresAgree == \A now \in Readings : ClaimsAgree(now) /\ RatesAgree(now) /\ TurnsAgree(now)
===============================================================================
