------------------------------ MODULE BotService ------------------------------
(***************************************************************************)
(* BotService.handle, run by several worker threads against one store.     *)
(*                                                                         *)
(* Each action is what one thread does up to the next point where another  *)
(* thread, the purge job or a crash can get in between: a store method, a  *)
(* call of the provider, a delivery, the acquisition or the release of the *)
(* conversation lock.  The lock is the keyed mutex that ConversationLock   *)
(* implements; the store methods are the operators of StateStore.          *)
(*                                                                         *)
(* Messages MessagePolicy.check refuses never get past the first lines of  *)
(* handle and change nothing; Events holds those it allows.                *)
(***************************************************************************)
EXTENDS StateStore, Sequences

CONSTANTS
    Threads,        \* the adapter's workers
    Events,         \* identities of the platform events
    Keys,           \* conversation keys
    KeyOf,          \* KeyOf[e]: the conversation of event e
    ActorOf,        \* ActorOf[e]: who sent it, on which route
    KindOf,         \* KindOf[e]: what the text asks for
    UserLimit, UserWindow,  \* policy.requests_per_window, request_window_seconds
    DailyLimit, Day,        \* policy.daily_requests and its window of 86400 s
    MaxTime,        \* bound: the clock stops here
    MaxDeliveries,  \* bound: how often the platform delivers an event
    MaxCrashes,     \* bound: how often the process is killed
    None

\* "info" stands for help, status, limits and pack: replies that touch no state.
Kinds == {"info", "reset", "context", "question"}

\* What _reply delivers: a generated answer, the confirmation of a reset, or
\* any other text.  A post that breaks off shows a part.
Replies == {"answer", "cleared", "notice"}
Posts == Replies \cup {"part"}

ASSUME ServiceAssumption ==
    /\ None \notin Threads \cup Events \cup Keys \cup Replies
    /\ KeyOf \in [Events -> Keys]
    /\ KindOf \in [Events -> Kinds]
    /\ DOMAIN ActorOf = Events
    /\ {UserLimit, UserWindow, DailyLimit, Day} \subseteq Nat \ {0}
    /\ {MaxTime, MaxDeliveries, MaxCrashes} \subseteq Nat

VARIABLES
    \* in the store, durable
    claims, rates, turns,
    turnSeq,     \* the last id given to a turn
    \* in the process
    inside,      \* inside[t]: the conversation whose lock thread t holds
    pc, event, now, context, reply,     \* the locals of handle
    \* outside
    clock,       \* time.time(), in whole seconds
    posted,      \* posted[e]: what the channel has seen in reply to e
    calls,       \* calls[e]: requests to the model provider for e
    deliveries, crashes

store == <<claims, rates, turns, turnSeq>>
locals == <<event, now, context, reply>>
world == <<clock, posted, calls, deliveries, crashes>>
vars == <<store, inside, pc, locals, world>>

Turn == INSTANCE KeyedMutex

Stages == {"idle", "claim", "enter", "user_limit", "day_limit", "run",
           "load", "generate", "provider", "deliver", "append", "exit"}

Category(e) == IF KindOf[e] = "question" THEN "model" ELSE "command"
UserScope(e) == <<Category(e), "user", ActorOf[e]>>
DayScope(e) == <<Category(e), "day">>

Init ==
    /\ claims = {} /\ rates = {} /\ turns = {} /\ turnSeq = 0
    /\ inside = [t \in Threads |-> None]
    /\ pc = [t \in Threads |-> "idle"]
    /\ event = [t \in Threads |-> None]
    /\ now = [t \in Threads |-> 0]
    /\ context = [t \in Threads |-> {}]
    /\ reply = [t \in Threads |-> None]
    /\ clock = 0
    /\ posted = [e \in Events |-> <<>>]
    /\ calls = [e \in Events |-> 0]
    /\ deliveries = 0
    /\ crashes = 0

-------------------------------------------------------------------------------
Goto(t, stage) == pc' = [pc EXCEPT ![t] = stage]

\* Control leaves handle before the lock is taken, or with its release.
Return(t) ==
    /\ Goto(t, "idle")
    /\ event' = [event EXCEPT ![t] = None]
    /\ now' = [now EXCEPT ![t] = 0]
    /\ context' = [context EXCEPT ![t] = {}]
    /\ reply' = [reply EXCEPT ![t] = None]

\* A worker calls handle: the clock is read once, before anything else.
Begin(t, e) ==
    /\ pc[t] = "idle"
    /\ deliveries < MaxDeliveries
    /\ deliveries' = deliveries + 1
    /\ event' = [event EXCEPT ![t] = e]
    /\ now' = [now EXCEPT ![t] = clock]
    /\ Goto(t, "claim")
    /\ UNCHANGED <<store, inside, context, reply, clock, posted, calls, crashes>>

\* claim_event: a duplicate is dropped without a word.
Claim(t) ==
    /\ pc[t] = "claim"
    /\ claims' = AfterClaim(claims, event[t], now[t])
    /\ IF ClaimWins(claims, event[t], now[t])
         THEN Goto(t, "enter") /\ UNCHANGED locals
         ELSE Return(t)
    /\ UNCHANGED <<rates, turns, turnSeq, inside, world>>

\* Slip: the turn is entered without waiting for the one in progress.
EnterUnlocked(t) ==
    /\ pc[t] = "enter"
    /\ inside' = [inside EXCEPT ![t] = KeyOf[event[t]]]
    /\ Goto(t, "user_limit")
    /\ UNCHANGED <<store, locals, world>>

\* with self._conversation_turn(key)
Enter(t) ==
    /\ pc[t] = "enter"
    /\ Turn!Acquire(t, KeyOf[event[t]])
    /\ Goto(t, "user_limit")
    /\ UNCHANGED <<store, locals, world>>

-------------------------------------------------------------------------------
\* _reply is about to post a text.
Say(t, text) ==
    /\ reply' = [reply EXCEPT ![t] = text]
    /\ Goto(t, "deliver")

\* _within_rate_limits, first operand of `and`.
ChargeUser(t) ==
    /\ pc[t] = "user_limit"
    /\ LET scope == UserScope(event[t])
       IN  /\ rates' = AfterRate(rates, scope, UserLimit, UserWindow, now[t])
           /\ IF RateAllows(rates, scope, UserLimit, UserWindow, now[t])
                THEN Goto(t, "day_limit") /\ UNCHANGED reply
                ELSE Say(t, "notice")
    /\ UNCHANGED <<claims, turns, turnSeq, inside, event, now, context, world>>

\* Second operand: a transaction of its own, so a user who is denied here has
\* been charged above all the same.
ChargeDay(t) ==
    /\ pc[t] = "day_limit"
    /\ LET scope == DayScope(event[t])
       IN  /\ rates' = AfterRate(rates, scope, DailyLimit, Day, now[t])
           /\ IF RateAllows(rates, scope, DailyLimit, Day, now[t])
                THEN Goto(t, IF KindOf[event[t]] = "question" THEN "load" ELSE "run")
                     /\ UNCHANGED reply
                ELSE Say(t, "notice")
    /\ UNCHANGED <<claims, turns, turnSeq, inside, event, now, context, world>>

-------------------------------------------------------------------------------
\* help, status, limits, pack
Info(t) ==
    /\ pc[t] = "run" /\ KindOf[event[t]] = "info"
    /\ Say(t, "notice")
    /\ UNCHANGED <<store, inside, event, now, context, world>>

\* The deletion is committed before the WAL is truncated; when that fails, the
\* method raises and nobody is told that the history is gone.
ResetHistory(t) ==
    /\ pc[t] = "run" /\ KindOf[event[t]] = "reset"
    /\ turns' = Reset(turns, KeyOf[event[t]])
    /\ \/ Say(t, "cleared")
       \/ Goto(t, "exit") /\ UNCHANGED reply
    /\ UNCHANGED <<claims, rates, turnSeq, inside, event, now, context, world>>

\* The context command: load_turns for its size only.
CountHistory(t) ==
    /\ pc[t] = "run" /\ KindOf[event[t]] = "context"
    /\ turns' = AfterLoad(turns, KeyOf[event[t]], now[t])
    /\ Say(t, "notice")
    /\ UNCHANGED <<claims, rates, turnSeq, inside, event, now, context, world>>

\* prior_turns
LoadHistory(t) ==
    /\ pc[t] = "load"
    /\ turns' = AfterLoad(turns, KeyOf[event[t]], now[t])
    /\ context' = [context EXCEPT ![t] = LoadTurns(turns, KeyOf[event[t]], now[t])]
    /\ Goto(t, "generate")
    /\ UNCHANGED <<claims, rates, turnSeq, inside, event, now, reply, world>>

\* generation_started, whose exceptions are swallowed, and the request to the
\* provider; from here on it may be billed.
Generate(t) ==
    /\ pc[t] = "generate"
    /\ calls' = [calls EXCEPT ![event[t]] = @ + 1]
    /\ Goto(t, "provider")
    /\ UNCHANGED <<store, inside, locals, clock, posted, deliveries, crashes>>

\* Slip: the exchange is stored when the model answers, before it is posted.
ProviderReturnsAndCommits(t) ==
    /\ pc[t] = "provider"
    /\ \/ /\ Say(t, "answer")
          /\ turns' = AppendExchange(turns, turnSeq, KeyOf[event[t]], event[t], clock)
          /\ turnSeq' = turnSeq + 2
       \/ Say(t, "notice") /\ UNCHANGED <<turns, turnSeq>>
    /\ UNCHANGED <<claims, rates, inside, event, now, context, world>>

\* The provider answers, or fails or answers with nothing (both make a notice),
\* or raises something handle does not catch.
ProviderReturns(t) ==
    /\ pc[t] = "provider"
    /\ \/ Say(t, "answer") \/ Say(t, "notice")
       \/ Goto(t, "exit") /\ UNCHANGED reply
    /\ UNCHANGED <<store, inside, event, now, context, world>>

\* _reply: the platform callback returned.
Deliver(t) ==
    /\ pc[t] = "deliver"
    /\ posted' = [posted EXCEPT ![event[t]] = Append(@, reply[t])]
    /\ Goto(t, IF reply[t] = "answer" THEN "append" ELSE "exit")
    /\ UNCHANGED <<store, inside, locals, clock, calls, deliveries, crashes>>

\* Slip: a post whose outcome is unknown is made again.
DeliverAgain(t) ==
    /\ pc[t] = "deliver"
    /\ \E seen \in {<<>>, <<"part">>, <<reply[t]>>} :
          posted' = [posted EXCEPT ![event[t]] = @ \o seen]
    /\ UNCHANGED <<store, inside, pc, locals, clock, calls, deliveries, crashes>>

\* _reply: the platform callback raised.  The post may be lost, may have been
\* made in part, or may be complete with only its confirmation lost.
DeliverRaises(t) ==
    /\ pc[t] = "deliver"
    /\ \E seen \in {<<>>, <<"part">>, <<reply[t]>>} :
          posted' = [posted EXCEPT ![event[t]] = @ \o seen]
    /\ Goto(t, "exit")
    /\ UNCHANGED <<store, inside, locals, clock, calls, deliveries, crashes>>

\* Slip: the turns are dated by the `now` handle read when it was called.
CommitDatedAtArrival(t) ==
    /\ pc[t] = "append"
    /\ turns' = AppendExchange(turns, turnSeq, KeyOf[event[t]], event[t], now[t])
    /\ turnSeq' = turnSeq + 2
    /\ Goto(t, "exit")
    /\ UNCHANGED <<claims, rates, inside, locals, world>>

\* append_exchange, with a fresh reading of the clock.
Commit(t) ==
    /\ pc[t] = "append"
    /\ turns' = AppendExchange(turns, turnSeq, KeyOf[event[t]], event[t], clock)
    /\ turnSeq' = turnSeq + 2
    /\ Goto(t, "exit")
    /\ UNCHANGED <<claims, rates, inside, locals, world>>

\* Slip: the claim is given back when the store fails, "so that a retry works".
StoreFailsAndUnclaims(t) ==
    /\ pc[t] \in {"user_limit", "day_limit", "load", "append"}
    /\ claims' = {c \in claims : c.event # event[t]}
    /\ Goto(t, "exit")
    /\ UNCHANGED <<rates, turns, turnSeq, locals, inside, world>>

\* A store method raises StoreError and its transaction is rolled back.  After
\* the delivery the error is swallowed, before it leaves handle; either way
\* the lock is released next, if it is held.
StoreFails(t) ==
    /\ pc[t] \in {"claim", "user_limit", "day_limit", "run", "load", "append"}
    /\ pc[t] = "run" => KindOf[event[t]] # "info"
    /\ IF pc[t] = "claim"
         THEN Return(t)
         ELSE Goto(t, "exit") /\ UNCHANGED locals
    /\ UNCHANGED <<store, inside, world>>

\* Slip: the lock is kept when the thread is done.
ExitLocked(t) ==
    /\ pc[t] = "exit"
    /\ Return(t)
    /\ UNCHANGED <<store, inside, world>>

\* The `finally` of _conversation_turn, and handle returns or raises.
Exit(t) ==
    /\ pc[t] = "exit"
    /\ Turn!Release(t)
    /\ Return(t)
    /\ UNCHANGED <<store, world>>

-------------------------------------------------------------------------------
\* The purge job is another process on the same database.
Purge ==
    /\ claims' = LiveClaims(claims, clock)
    /\ rates' = PurgedRates(rates, Day, clock)
    /\ turns' = PurgedTurns(turns, clock)
    /\ UNCHANGED <<turnSeq, inside, pc, locals, world>>

\* The process is killed; its successor opens the same database.
Crash ==
    /\ crashes < MaxCrashes
    /\ crashes' = crashes + 1
    /\ inside' = [t \in Threads |-> None]
    /\ pc' = [t \in Threads |-> "idle"]
    /\ event' = [t \in Threads |-> None]
    /\ now' = [t \in Threads |-> 0]
    /\ context' = [t \in Threads |-> {}]
    /\ reply' = [t \in Threads |-> None]
    /\ UNCHANGED <<store, clock, posted, calls, deliveries>>

Tick ==
    /\ clock < MaxTime
    /\ clock' = clock + 1
    /\ UNCHANGED <<store, inside, pc, locals, posted, calls, deliveries, crashes>>

\* No work: the workers wait for events that may never come.
Quiet ==
    /\ \A t \in Threads : pc[t] = "idle"
    /\ UNCHANGED vars

Step(t) ==
    \/ Claim(t) \/ Enter(t) \/ ChargeUser(t) \/ ChargeDay(t)
    \/ Info(t) \/ ResetHistory(t) \/ CountHistory(t)
    \/ LoadHistory(t) \/ Generate(t) \/ ProviderReturns(t)
    \/ Deliver(t) \/ DeliverRaises(t) \/ Commit(t) \/ StoreFails(t) \/ Exit(t)

Next ==
    \/ \E t \in Threads : Step(t) \/ \E e \in Events : Begin(t, e)
    \/ Purge \/ Crash \/ Tick \/ Quiet

Spec == Init /\ [][Next]_vars

\* Every stage of handle ends: the store waits at most for its busy timeout,
\* the provider and the delivery have timeouts, and a free lock is granted.
FairSpec == Spec /\ \A t \in Threads : WF_vars(Step(t))

-------------------------------------------------------------------------------
ClaimRows == [event : Events, expires : Int]
RateRows == [id : Nat, scope : {UserScope(e) : e \in Events}
                                 \cup {DayScope(e) : e \in Events}, at : Nat]
TurnRows == [id : Nat, key : Keys, role : Roles, event : Events, at : Nat]

\* A thread holds the lock of its conversation while it is between Enter and
\* Exit, and no other lock at no other time.
LockedInTurn ==
    \A t \in Threads : inside[t] =
        IF pc[t] \in {"idle", "claim", "enter"} THEN None ELSE KeyOf[event[t]]

VarTypes ==
    /\ claims \subseteq ClaimRows
    /\ rates \subseteq RateRows
    /\ turns \subseteq TurnRows
    /\ turnSeq \in Nat
    /\ inside \in [Threads -> Keys \cup {None}]
    /\ pc \in [Threads -> Stages]
    /\ event \in [Threads -> Events \cup {None}]
    /\ now \in [Threads -> Nat]
    /\ context \in [Threads -> SUBSET TurnRows]
    /\ reply \in [Threads -> Replies \cup {None}]
    /\ clock \in 0 .. MaxTime
    /\ posted \in [Events -> Seq(Posts)]
    /\ calls \in [Events -> Nat]
    /\ deliveries \in Nat
    /\ crashes \in Nat

\* Every variable holds a value of its type, and locks are held when they
\* should be.
TypeOK == VarTypes /\ LockedInTurn

Answering(t) ==
    \/ pc[t] \in {"generate", "provider"}
    \/ pc[t] \in {"deliver", "append"} /\ reply[t] = "answer"

\* While a thread works on an answer, the history it gave to the model stays
\* the history of the conversation: no other event adds a turn or takes one
\* away, and what disappears has expired.
ContextStable ==
    \A t \in Threads : Answering(t) =>
        LET k == KeyOf[event[t]]
        IN  /\ \A r \in context[t] : r \in turns \/ Expired(r, clock)
            /\ \A r \in OfKey(turns, k) \ context[t] :
                  /\ Cardinality(context[t]) = 2 * HistoryTurns
                  /\ \A s \in context[t] : Newer(s, r)

\* "An answer that was never delivered cannot become hidden conversation state."
HistoryWasShown ==
    \A r \in turns : "answer" \in {posted[r.event][i] : i \in DOMAIN posted[r.event]}

\* A conversation's turns come in pairs of one age, question before answer, so
\* that no half of a pair expires alone; and the pairs are in the order in
\* which the exchanges ended: sorting by time, as load_turns does, and by
\* insertion, as they happened, is the same.
HistoryInOrder ==
    /\ \A r \in turns : \E s \in turns :
          /\ s.key = r.key /\ s.event = r.event /\ s.role # r.role /\ s.at = r.at
          /\ IF r.role = "user" THEN s.id = r.id + 1 ELSE r.id = s.id + 1
    /\ \A r, s \in turns : r.key = s.key /\ r.id < s.id => r.at <= s.at

\* What a model request contains is whole exchanges.
ContextIsPaired ==
    \A t \in Threads : \A r \in context[t] :
        \E s \in context[t] : s.event = r.event /\ s.role # r.role

\* The model is asked at most once for an event, however often the platform
\* delivers it, whatever fails and whenever the process is killed - as long
\* as the claim of the event has not expired.
PaidOnce ==
    MaxTime < EventTTL => \A e \in Events : calls[e] <= 1

\* The requests to the model, those for one event counted from 1.
Requests == UNION {{e} \X (1 .. calls[e]) : e \in Events}

\* Within one day the deployment asks the model no more than its daily budget.
BudgetRespected == MaxTime < Day => Cardinality(Requests) <= DailyLimit

\* When a user is told that the history has been cleared, it has been.
ResetIsEffective ==
    \A t \in Threads :
        reply[t] = "cleared" => OfKey(turns, KeyOf[event[t]]) = {}

\* handle always returns: a conversation is never locked for good.
Returns == \A t \in Threads : pc[t] # "idle" ~> pc[t] = "idle"

-------------------------------------------------------------------------------
\* How far an event has got, from what is stored and what can be seen outside.
StageOf(e) ==
    IF posted[e] = <<"answer">> THEN "answered"
    ELSE IF posted[e] # <<>> THEN "told"
    ELSE IF calls[e] > 0 THEN "asked"
    ELSE IF \E c \in claims : c.event = e THEN "claimed"
    ELSE "new"

Contract == INSTANCE EventContract WITH
    stage <- [e \in Events |-> StageOf(e)],
    history <- {r.event : r \in turns}

\* Threads, duplicates, failures and crashes notwithstanding, each event goes
\* through claim, request and reply at most once and in this order, and only
\* answers the channel has seen are remembered.
FulfilsContract == Contract!Spec
===============================================================================
