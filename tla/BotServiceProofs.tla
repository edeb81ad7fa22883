--------------------------- MODULE BotServiceProofs ---------------------------
(***************************************************************************)
(* Theorems about BotService for any number of workers, events and         *)
(* conversations and any limits.                                           *)
(***************************************************************************)
EXTENDS BotService, FiniteSetTheorems, SequenceTheorems, TLAPS

USE DEF Replies

-------------------------------------------------------------------------------
(* The store operators. *)

\* There is always an id no rate row has among the first Cardinality + 1.
LEMMA UnusedIdType ==
  ASSUME NEW rows, IsFiniteSet(rows)
  PROVE  UnusedId(rows) \in Nat /\ \A r \in rows : r.id # UnusedId(rows)
  <1> DEFINE n == Cardinality(rows)
             ids == {r.id : r \in rows}
  <1>1. n \in Nat
    BY FS_CardinalityType
  <1>2. IsFiniteSet(ids) /\ Cardinality(ids) <= n
    <2> DEFINE f == [r \in rows |-> r.id]
    <2>1. f \in Surjection(rows, ids)
      BY DEF Surjection
    <2> QED BY <2>1, FS_Surjection
  <1>3. IsFiniteSet(0 .. n) /\ Cardinality(0 .. n) = n + 1
    BY <1>1, FS_Interval
  <1>4. ~ (0 .. n \subseteq ids)
    <2>1. SUFFICES ASSUME 0 .. n \subseteq ids PROVE FALSE
      OBVIOUS
    <2>2. Cardinality(0 .. n) <= Cardinality(ids)
      BY <1>2, <2>1, FS_Subset
    <2>3. Cardinality(ids) \in Nat
      BY <1>2, FS_CardinalityType
    <2> HIDE DEF n, ids
    <2> QED BY <1>1, <1>2, <1>3, <2>2, <2>3
  <1>5. PICK i \in 0 .. n : \A r \in rows : r.id # i
    BY <1>4
  <1>6. UnusedId(rows) \in 0 .. n /\ \A r \in rows : r.id # UnusedId(rows)
    BY <1>5 DEF UnusedId
  <1> QED BY <1>1, <1>6

\* A rate table stays a finite table of rate rows.
LEMMA AfterRateType ==
  ASSUME NEW rows, IsFiniteSet(rows), rows \subseteq RateRows,
         NEW e \in Events, NEW s \in {UserScope(e), DayScope(e)},
         NEW limit \in Nat, NEW window \in Nat, NEW at \in Nat
  PROVE  /\ AfterRate(rows, s, limit, window, at) \subseteq RateRows
         /\ IsFiniteSet(AfterRate(rows, s, limit, window, at))
  <1> DEFINE kept == Pruned(rows, s, window, at)
             row == [id |-> UnusedId(kept), scope |-> s, at |-> at]
  <1>1. kept \subseteq rows /\ IsFiniteSet(kept)
    BY FS_Subset DEF Pruned
  <1>2. row \in RateRows
    BY <1>1, UnusedIdType DEF RateRows
  <1>3. IsFiniteSet(kept \cup {row})
    BY <1>1, FS_AddElement
  <1>4. AfterRate(rows, s, limit, window, at) \in {kept, kept \cup {row}}
    BY DEF AfterRate
  <1> HIDE DEF kept, row
  <1> QED BY <1>1, <1>2, <1>3, <1>4

\* Claiming adds at most one row, for the event claimed.
LEMMA AfterClaimType ==
  ASSUME NEW rows \in SUBSET ClaimRows, NEW e \in Events, NEW at \in Nat
  PROVE  AfterClaim(rows, e, at) \subseteq ClaimRows
  BY StoreAssumption DEF AfterClaim, LiveClaims, ClaimRows

\* What load_turns returns is in the table.
LEMMA LoadTurnsSubset ==
  ASSUME NEW rows, NEW k, NEW at
  PROVE  LoadTurns(rows, k, at) \subseteq rows
  BY DEF LoadTurns, Newest, OfKey, AfterLoad

-------------------------------------------------------------------------------
(* Types. *)

\* The locals of a thread that is not in handle are void; a text is ready when
\* it is posted, and only an answer is committed.
LocalsInv ==
    \A t \in Threads :
        /\ pc[t] # "idle" => event[t] \in Events
        /\ pc[t] = "deliver" => reply[t] \in Replies
        /\ pc[t] = "append" => reply[t] = "answer"
        /\ reply[t] # None => pc[t] \in {"deliver", "append", "exit"}
        /\ now[t] <= clock

TypeInv == TypeOK /\ LocalsInv /\ IsFiniteSet(rates)

\* Initially nothing is stored and nobody is in handle.
LEMMA InitTypeInv == Init => TypeInv
  <1> SUFFICES ASSUME Init PROVE TypeInv
    OBVIOUS
  <1>1. VarTypes
    <2>1. <<>> \in Seq(Posts)
      OBVIOUS
    <2>2. clock \in 0 .. MaxTime /\ turnSeq \in Nat /\ crashes \in Nat
      BY ServiceAssumption DEF Init
    <2> QED BY <2>1, <2>2 DEF Init, VarTypes, Stages
  <1>2. LockedInTurn /\ LocalsInv
    BY DEF Init, LockedInTurn, LocalsInv
  <1>3. IsFiniteSet(rates)
    BY FS_EmptySet DEF Init
  <1> QED BY <1>1, <1>2, <1>3 DEF TypeInv, TypeOK

\* The stages in which the lock is held.
InTurn == Stages \ {"idle", "claim", "enter"}

\* Going from one stage of a turn to another with a text that fits.
LEMMA MoveKeeps ==
  ASSUME NEW t \in Threads, NEW stage \in InTurn, NEW text \in Replies \cup {None},
         VarTypes, LockedInTurn, LocalsInv,
         pc[t] \in InTurn, pc' = [pc EXCEPT ![t] = stage],
         reply' = [reply EXCEPT ![t] = text],
         UNCHANGED <<inside, event, now, clock>>,
         stage = "deliver" => text # None,
         stage = "append" => text = "answer",
         text # None => stage \in {"deliver", "append", "exit"}
  PROVE  /\ LockedInTurn' /\ LocalsInv'
         /\ pc' \in [Threads -> Stages]
         /\ reply' \in [Threads -> Replies \cup {None}]
  <1>1. /\ pc' \in [Threads -> Stages] /\ reply' \in [Threads -> Replies \cup {None}]
        /\ pc'[t] = stage /\ reply'[t] = text
    BY DEF VarTypes, InTurn
  <1>2. ASSUME NEW u \in Threads, u # t
        PROVE  pc'[u] = pc[u] /\ reply'[u] = reply[u]
    BY <1>2 DEF VarTypes
  <1>3. LockedInTurn'
    <2>1. inside[t] = KeyOf[event[t]]
      BY DEF LockedInTurn, InTurn
    <2>2. stage \notin {"idle", "claim", "enter"}
      BY DEF InTurn
    <2> QED BY <1>1, <1>2, <2>1, <2>2 DEF LockedInTurn
  <1>4. LocalsInv'
    <2>1. event[t] \in Events
      BY DEF LocalsInv, InTurn
    <2> QED BY <1>1, <1>2, <2>1 DEF LocalsInv
  <1> QED BY <1>1, <1>3, <1>4

\* A thread that returns without a lock leaves everything in order.
LEMMA ReturnKeeps ==
  ASSUME NEW t \in Threads, VarTypes, LockedInTurn, LocalsInv, Return(t),
         inside' = [inside EXCEPT ![t] = None], clock' = clock
  PROVE  /\ LockedInTurn' /\ LocalsInv'
         /\ inside' \in [Threads -> Keys \cup {None}]
         /\ pc' \in [Threads -> Stages]
         /\ event' \in [Threads -> Events \cup {None}]
         /\ now' \in [Threads -> Nat]
         /\ context' \in [Threads -> SUBSET TurnRows]
         /\ reply' \in [Threads -> Replies \cup {None}]
  <1>1. /\ pc' \in [Threads -> Stages] /\ event' \in [Threads -> Events \cup {None}]
        /\ inside' \in [Threads -> Keys \cup {None}]
    BY DEF VarTypes, Return, Goto, Stages
  <1>2. now' \in [Threads -> Nat] /\ reply' \in [Threads -> Replies \cup {None}]
    BY DEF VarTypes, Return
  <1>3. context' \in [Threads -> SUBSET TurnRows]
    BY DEF VarTypes, Return
  <1>4. /\ pc'[t] = "idle" /\ now'[t] = 0 /\ reply'[t] = None /\ inside'[t] = None
        /\ clock' >= 0
    BY ServiceAssumption DEF VarTypes, Return, Goto
  <1>5. ASSUME NEW u \in Threads, u # t
        PROVE  /\ pc'[u] = pc[u] /\ event'[u] = event[u] /\ now'[u] = now[u]
               /\ reply'[u] = reply[u] /\ inside'[u] = inside[u]
    BY <1>5 DEF VarTypes, Return, Goto
  <1>6. LockedInTurn'
    BY <1>4, <1>5 DEF LockedInTurn
  <1>7. LocalsInv'
    BY <1>4, <1>5 DEF LocalsInv
  <1> QED BY <1>1, <1>2, <1>3, <1>6, <1>7

\* A thread starts with an event of its own.
LEMMA BeginTypes ==
  ASSUME NEW t \in Threads, NEW e \in Events, TypeInv, Begin(t, e)
  PROVE  TypeInv'
  <1> USE DEF Begin, Goto, store
  <1>0. VarTypes /\ LockedInTurn /\ LocalsInv /\ IsFiniteSet(rates)
    BY DEF TypeInv, TypeOK
  <1>1. pc' \in [Threads -> Stages] /\ event' \in [Threads -> Events \cup {None}]
    BY <1>0 DEF VarTypes, Stages
  <1>2. now' \in [Threads -> Nat] /\ deliveries' \in Nat /\ clock \in Nat
    BY <1>0, ServiceAssumption DEF VarTypes
  <1>3. VarTypes'
    BY <1>0, <1>1, <1>2 DEF VarTypes
  <1>4. inside[t] = None /\ reply[t] = None
    BY <1>0 DEF LockedInTurn, LocalsInv
  <1>5. LockedInTurn'
    BY <1>0, <1>4 DEF VarTypes, LockedInTurn
  <1>6. LocalsInv'
    BY <1>0, <1>2, <1>4 DEF VarTypes, LocalsInv
  <1> QED BY <1>0, <1>3, <1>5, <1>6 DEF TypeInv, TypeOK

\* A claim adds one row; a duplicate sends the thread back.
LEMMA ClaimTypes ==
  ASSUME NEW t \in Threads, TypeInv, Claim(t)
  PROVE  TypeInv'
  <1>0. VarTypes /\ LockedInTurn /\ LocalsInv /\ IsFiniteSet(rates)
    BY DEF TypeInv, TypeOK
  <1>1. pc[t] = "claim" /\ event[t] \in Events /\ inside[t] = None /\ reply[t] = None
    BY <1>0 DEF Claim, LocalsInv, LockedInTurn
  <1>2. claims' \subseteq ClaimRows
    BY <1>0, <1>1, AfterClaimType DEF Claim, VarTypes
  <1>3. UNCHANGED <<rates, turns, turnSeq, inside, clock, posted, calls,
                    deliveries, crashes>>
    BY DEF Claim, world
  <1>4. CASE Return(t)
    <2>1. inside' = [inside EXCEPT ![t] = None]
      BY <1>0, <1>1, <1>3 DEF VarTypes
    <2>2. VarTypes' /\ LockedInTurn' /\ LocalsInv'
      BY <1>0, <1>2, <1>3, <1>4, <2>1, ReturnKeeps DEF VarTypes
    <2> QED BY <1>0, <1>3, <2>2 DEF TypeInv, TypeOK
  <1>5. CASE pc' = [pc EXCEPT ![t] = "enter"] /\ UNCHANGED locals
    <2>1. VarTypes'
      BY <1>0, <1>2, <1>3, <1>5 DEF VarTypes, Stages, locals
    <2>2. LockedInTurn'
      BY <1>0, <1>1, <1>3, <1>5 DEF VarTypes, LockedInTurn, locals
    <2>3. LocalsInv'
      BY <1>0, <1>1, <1>3, <1>5 DEF VarTypes, LocalsInv, locals
    <2> QED BY <1>0, <1>3, <2>1, <2>2, <2>3 DEF TypeInv, TypeOK
  <1> QED BY <1>4, <1>5 DEF Claim, Goto

\* The lock is taken for the conversation of the event.
LEMMA EnterTypes ==
  ASSUME NEW t \in Threads, TypeInv, Enter(t)
  PROVE  TypeInv'
  <1> USE DEF Enter, Goto, store, locals, world
  <1>0. VarTypes /\ LockedInTurn /\ LocalsInv /\ IsFiniteSet(rates)
    BY DEF TypeInv, TypeOK
  <1>1. event[t] \in Events /\ reply[t] = None /\ KeyOf[event[t]] \in Keys
    BY <1>0, ServiceAssumption DEF LocalsInv
  <1>2. inside' = [inside EXCEPT ![t] = KeyOf[event[t]]]
    BY DEF Turn!Acquire
  <1>3. VarTypes'
    BY <1>0, <1>1, <1>2 DEF VarTypes, Stages
  <1>4. LockedInTurn'
    BY <1>0, <1>2 DEF VarTypes, LockedInTurn
  <1>5. LocalsInv'
    BY <1>0, <1>1 DEF VarTypes, LocalsInv
  <1> QED BY <1>0, <1>3, <1>4, <1>5 DEF TypeInv, TypeOK

\* A request is counted or refused.
LEMMA ChargeUserTypes ==
  ASSUME NEW t \in Threads, TypeInv, ChargeUser(t)
  PROVE  TypeInv'
  <1>0. VarTypes /\ LockedInTurn /\ LocalsInv /\ IsFiniteSet(rates)
    BY DEF TypeInv, TypeOK
  <1>1. pc[t] = "user_limit" /\ event[t] \in Events /\ reply[t] = None /\ now[t] \in Nat
    BY <1>0 DEF ChargeUser, LocalsInv, VarTypes
  <1>2. rates' \subseteq RateRows /\ IsFiniteSet(rates')
    BY <1>0, <1>1, AfterRateType, ServiceAssumption DEF ChargeUser, VarTypes
  <1>3. UNCHANGED <<claims, turns, turnSeq, inside, event, now, context, world>>
    BY DEF ChargeUser
  <1>4. \E stage \in {"day_limit", "deliver"}, text \in {"notice", None} :
          /\ pc' = [pc EXCEPT ![t] = stage] /\ reply' = [reply EXCEPT ![t] = text]
          /\ stage = "deliver" <=> text = "notice"
    <2>1. CASE RateAllows(rates, UserScope(event[t]), UserLimit, UserWindow, now[t])
      <3>1. \E stage \in {"day_limit", "deliver"} \ {"deliver"} :
              pc' = [pc EXCEPT ![t] = stage] /\ reply' = reply
        BY <2>1 DEF ChargeUser, Goto
      <3>2. reply = [reply EXCEPT ![t] = None]
        BY <1>0, <1>1 DEF VarTypes
      <3> QED BY <3>1, <3>2, ServiceAssumption
    <2>2. CASE ~RateAllows(rates, UserScope(event[t]), UserLimit, UserWindow, now[t])
      BY <2>2 DEF ChargeUser, Say, Goto
    <2> QED BY <2>1, <2>2
  <1>5. LockedInTurn' /\ LocalsInv' /\ pc' \in [Threads -> Stages]
        /\ reply' \in [Threads -> Replies \cup {None}]
    BY <1>0, <1>1, <1>3, <1>4, MoveKeeps, ServiceAssumption DEF InTurn, Stages, world
  <1>6. VarTypes'
    BY <1>0, <1>2, <1>3, <1>5 DEF VarTypes, world
  <1> QED BY <1>2, <1>5, <1>6 DEF TypeInv, TypeOK

\* A request is counted or refused.
LEMMA ChargeDayTypes ==
  ASSUME NEW t \in Threads, TypeInv, ChargeDay(t)
  PROVE  TypeInv'
  <1>0. VarTypes /\ LockedInTurn /\ LocalsInv /\ IsFiniteSet(rates)
    BY DEF TypeInv, TypeOK
  <1>1. pc[t] = "day_limit" /\ event[t] \in Events /\ reply[t] = None /\ now[t] \in Nat
    BY <1>0 DEF ChargeDay, LocalsInv, VarTypes
  <1>2. rates' \subseteq RateRows /\ IsFiniteSet(rates')
    BY <1>0, <1>1, AfterRateType, ServiceAssumption DEF ChargeDay, VarTypes
  <1>3. UNCHANGED <<claims, turns, turnSeq, inside, event, now, context, world>>
    BY DEF ChargeDay
  <1>4. \E stage \in {"load", "run", "deliver"}, text \in {"notice", None} :
          /\ pc' = [pc EXCEPT ![t] = stage] /\ reply' = [reply EXCEPT ![t] = text]
          /\ stage = "deliver" <=> text = "notice"
    <2>1. CASE RateAllows(rates, DayScope(event[t]), DailyLimit, Day, now[t])
      <3>1. \E stage \in {"load", "run", "deliver"} \ {"deliver"} :
              pc' = [pc EXCEPT ![t] = stage] /\ reply' = reply
        BY <2>1 DEF ChargeDay, Goto
      <3>2. reply = [reply EXCEPT ![t] = None]
        BY <1>0, <1>1 DEF VarTypes
      <3> QED BY <3>1, <3>2, ServiceAssumption
    <2>2. CASE ~RateAllows(rates, DayScope(event[t]), DailyLimit, Day, now[t])
      BY <2>2 DEF ChargeDay, Say, Goto
    <2> QED BY <2>1, <2>2
  <1>5. LockedInTurn' /\ LocalsInv' /\ pc' \in [Threads -> Stages]
        /\ reply' \in [Threads -> Replies \cup {None}]
    BY <1>0, <1>1, <1>3, <1>4, MoveKeeps, ServiceAssumption DEF InTurn, Stages, world
  <1>6. VarTypes'
    BY <1>0, <1>2, <1>3, <1>5 DEF VarTypes, world
  <1> QED BY <1>2, <1>5, <1>6 DEF TypeInv, TypeOK

\* A step inside a turn that touches no more than turns, context, calls and
\* posts, and moves on with a text that fits.
LEMMA TurnStepTypes ==
  ASSUME NEW t \in Threads, NEW stage \in InTurn, NEW text \in Replies \cup {None},
         TypeInv, pc[t] \in InTurn,
         pc' = [pc EXCEPT ![t] = stage], reply' = [reply EXCEPT ![t] = text],
         UNCHANGED <<claims, rates, inside, event, now, clock, deliveries, crashes>>,
         turns' \subseteq TurnRows, turnSeq' \in Nat,
         context' \in [Threads -> SUBSET TurnRows],
         posted' \in [Events -> Seq(Posts)], calls' \in [Events -> Nat],
         stage = "deliver" => text # None,
         stage = "append" => text = "answer",
         text # None => stage \in {"deliver", "append", "exit"}
  PROVE  TypeInv'
  <1>0. VarTypes /\ LockedInTurn /\ LocalsInv /\ IsFiniteSet(rates)
    BY DEF TypeInv, TypeOK
  <1>1. LockedInTurn' /\ LocalsInv' /\ pc' \in [Threads -> Stages]
        /\ reply' \in [Threads -> Replies \cup {None}]
    BY <1>0, MoveKeeps
  <1>2. VarTypes'
    BY <1>0, <1>1 DEF VarTypes
  <1> QED BY <1>0, <1>1, <1>2 DEF TypeInv, TypeOK

\* A command deletes turns at most, and has a text to post or raises.
LEMMA CommandTypes ==
  ASSUME NEW t \in Threads, TypeInv, Info(t) \/ ResetHistory(t) \/ CountHistory(t)
  PROVE  TypeInv'
  <1>0. VarTypes /\ LocalsInv
    BY DEF TypeInv, TypeOK
  <1> USE DEF Info, ResetHistory, CountHistory
  <1>1. pc[t] = "run" /\ reply[t] = None
    BY <1>0 DEF LocalsInv
  <1>2. turns' \subseteq TurnRows
    <2>1. turns' \subseteq turns
      BY DEF Reset, AfterLoad, store
    <2> QED BY <1>0, <2>1 DEF VarTypes
  <1>3. UNCHANGED <<claims, rates, turnSeq, inside, event, now, context, world>>
    BY DEF store
  <1>4. \E stage \in {"deliver", "exit"}, text \in {"notice", "cleared", None} :
          /\ pc' = [pc EXCEPT ![t] = stage] /\ reply' = [reply EXCEPT ![t] = text]
          /\ stage = "deliver" => text # None
    <2>1. CASE \E text \in {"notice", "cleared"} : Say(t, text)
      BY <2>1, ServiceAssumption DEF Say, Goto
    <2>2. CASE Goto(t, "exit") /\ UNCHANGED reply
      <3>1. reply = [reply EXCEPT ![t] = None]
        BY <1>0, <1>1 DEF VarTypes
      <3> QED BY <2>2, <3>1 DEF Goto
    <2> QED BY <2>1, <2>2
  <1> HIDE DEF Info, ResetHistory, CountHistory
  <1>5. PICK stage \in {"deliver", "exit"}, text \in {"notice", "cleared", None} :
          /\ pc' = [pc EXCEPT ![t] = stage] /\ reply' = [reply EXCEPT ![t] = text]
          /\ stage = "deliver" => text # None
    BY <1>4
  <1> QED
    BY <1>0, <1>1, <1>2, <1>3, <1>5, TurnStepTypes DEF VarTypes, InTurn, Stages, world

\* The context is made of stored turns.
LEMMA LoadTypes ==
  ASSUME NEW t \in Threads, TypeInv, LoadHistory(t)
  PROVE  TypeInv'
  <1>0. VarTypes /\ LocalsInv
    BY DEF TypeInv, TypeOK
  <1>1. pc[t] = "load" /\ reply[t] = None /\ reply = [reply EXCEPT ![t] = None]
    BY <1>0 DEF LoadHistory, LocalsInv, VarTypes
  <1>2. turns' \subseteq TurnRows
    BY <1>0 DEF LoadHistory, AfterLoad, VarTypes
  <1>3. context' \in [Threads -> SUBSET TurnRows]
    <2>1. LoadTurns(turns, KeyOf[event[t]], now[t]) \subseteq TurnRows
      BY <1>0, LoadTurnsSubset DEF VarTypes
    <2> QED BY <1>0, <2>1 DEF LoadHistory, VarTypes
  <1>4. /\ pc' = [pc EXCEPT ![t] = "generate"] /\ reply' = [reply EXCEPT ![t] = None]
        /\ UNCHANGED <<claims, rates, turnSeq, inside, event, now, world>>
    BY <1>1 DEF LoadHistory, Goto
  <1> QED
    BY <1>0, <1>1, <1>2, <1>3, <1>4, TurnStepTypes, ServiceAssumption
    DEF VarTypes, InTurn, Stages, world

\* The model is asked.
LEMMA GenerateTypes ==
  ASSUME NEW t \in Threads, TypeInv, Generate(t)
  PROVE  TypeInv'
  <1>0. VarTypes /\ LocalsInv
    BY DEF TypeInv, TypeOK
  <1>1. /\ pc[t] = "generate" /\ reply[t] = None /\ event[t] \in Events
        /\ reply = [reply EXCEPT ![t] = None]
    BY <1>0 DEF Generate, LocalsInv, VarTypes
  <1>2. calls' \in [Events -> Nat]
    BY <1>0, <1>1 DEF Generate, VarTypes
  <1>3. /\ pc' = [pc EXCEPT ![t] = "provider"] /\ reply' = [reply EXCEPT ![t] = None]
        /\ UNCHANGED <<store, inside, event, now, context, clock, posted,
                       deliveries, crashes>>
    BY <1>1 DEF Generate, Goto, locals
  <1> QED
    BY <1>0, <1>1, <1>2, <1>3, TurnStepTypes, ServiceAssumption
    DEF VarTypes, InTurn, Stages, store

\* The model answers, fails or raises.
LEMMA ProviderTypes ==
  ASSUME NEW t \in Threads, TypeInv, ProviderReturns(t)
  PROVE  TypeInv'
  <1>0. VarTypes /\ LocalsInv
    BY DEF TypeInv, TypeOK
  <1>1. pc[t] = "provider" /\ reply[t] = None /\ reply = [reply EXCEPT ![t] = None]
    BY <1>0 DEF ProviderReturns, LocalsInv, VarTypes
  <1>2. PICK stage \in {"deliver", "exit"}, text \in {"notice", "answer", None} :
          /\ pc' = [pc EXCEPT ![t] = stage] /\ reply' = [reply EXCEPT ![t] = text]
          /\ stage = "deliver" => text # None
    <2>1. CASE \E text \in {"notice", "answer"} : Say(t, text)
      BY <2>1, ServiceAssumption DEF Say, Goto
    <2>2. CASE Goto(t, "exit") /\ UNCHANGED reply
      BY <1>1, <2>2 DEF Goto
    <2> QED BY <2>1, <2>2 DEF ProviderReturns
  <1>3. UNCHANGED <<store, inside, event, now, context, world>>
    BY DEF ProviderReturns
  <1> QED
    BY <1>0, <1>1, <1>2, <1>3, TurnStepTypes DEF VarTypes, InTurn, Stages, store, world

\* A delivery adds at most one post.
LEMMA DeliverTypes ==
  ASSUME NEW t \in Threads, TypeInv, Deliver(t) \/ DeliverRaises(t)
  PROVE  TypeInv'
  <1>0. VarTypes /\ LocalsInv
    BY DEF TypeInv, TypeOK
  <1>1. /\ pc[t] = "deliver" /\ event[t] \in Events /\ reply[t] \in Replies
        /\ reply[t] \in Posts /\ posted[event[t]] \in Seq(Posts)
        /\ reply = [reply EXCEPT ![t] = reply[t]]
    BY <1>0 DEF Deliver, DeliverRaises, VarTypes, LocalsInv, Posts
  <1>2. posted' \in [Events -> Seq(Posts)]
    <2>1. CASE Deliver(t)
      <3>1. Append(posted[event[t]], reply[t]) \in Seq(Posts)
        BY <1>1, AppendProperties
      <3> QED BY <1>0, <2>1, <3>1 DEF Deliver, VarTypes
    <2>2. CASE DeliverRaises(t)
      <3>1. PICK seen \in {<<>>, <<"part">>, <<reply[t]>>} :
              posted' = [posted EXCEPT ![event[t]] = @ \o seen]
        BY <2>2 DEF DeliverRaises
      <3>2. "part" \in Posts
        BY DEF Posts
      <3>3. seen \in Seq(Posts)
        <4>1. <<>> \in Seq(Posts) /\ <<"part">> \in Seq(Posts)
          BY <3>2
        <4>2. <<reply[t]>> \in Seq(Posts)
          BY <1>1
        <4> QED BY <3>1, <4>1, <4>2
      <3>4. posted[event[t]] \o seen \in Seq(Posts)
        BY <1>1, <3>3, ConcatProperties
      <3> QED BY <1>0, <3>1, <3>4 DEF VarTypes
    <2> QED BY <2>1, <2>2
  <1>3. \E stage \in {"append", "exit"} :
          /\ pc' = [pc EXCEPT ![t] = stage]
          /\ stage = "append" => reply[t] = "answer"
    BY DEF Deliver, DeliverRaises, Goto
  <1>4. UNCHANGED <<store, inside, locals, clock, calls, deliveries, crashes>>
    BY DEF Deliver, DeliverRaises
  <1> QED
    BY <1>0, <1>1, <1>2, <1>3, <1>4, TurnStepTypes
    DEF VarTypes, InTurn, Stages, store, locals

\* The exchange becomes two turns.
LEMMA CommitTypes ==
  ASSUME NEW t \in Threads, TypeInv, Commit(t)
  PROVE  TypeInv'
  <1>0. VarTypes /\ LocalsInv
    BY DEF TypeInv, TypeOK
  <1> DEFINE row(i, role) == [id |-> i, key |-> KeyOf[event[t]], role |-> role,
                              event |-> event[t], at |-> clock]
  <1>1. turns' \subseteq TurnRows
    <2>1. event[t] \in Events /\ KeyOf[event[t]] \in Keys
      BY <1>0, ServiceAssumption DEF Commit, LocalsInv
    <2>2. /\ turnSeq + 1 \in Nat /\ turnSeq + 2 \in Nat /\ clock \in Nat
          /\ turns \subseteq TurnRows
      BY <1>0, ServiceAssumption DEF VarTypes
    <2>3. /\ row(turnSeq + 1, "user") \in TurnRows
          /\ row(turnSeq + 2, "assistant") \in TurnRows
      BY <2>1, <2>2 DEF TurnRows, Roles
    <2>4. turns' = turns \cup {row(turnSeq + 1, "user"), row(turnSeq + 2, "assistant")}
      BY DEF Commit, AppendExchange
    <2> HIDE DEF row
    <2> QED BY <2>2, <2>3, <2>4
  <1>2. /\ pc[t] = "append" /\ reply[t] = "answer"
        /\ reply = [reply EXCEPT ![t] = "answer"]
    BY <1>0 DEF Commit, LocalsInv, VarTypes
  <1>3. /\ pc' = [pc EXCEPT ![t] = "exit"] /\ turnSeq' \in Nat
        /\ UNCHANGED <<claims, rates, inside, locals, world>>
    BY <1>0 DEF Commit, Goto, VarTypes
  <1> QED
    BY <1>0, <1>1, <1>2, <1>3, TurnStepTypes
    DEF VarTypes, InTurn, Stages, locals, world

\* A failing store leaves its tables alone.
LEMMA StoreFailsTypes ==
  ASSUME NEW t \in Threads, TypeInv, StoreFails(t)
  PROVE  TypeInv'
  <1>0. VarTypes /\ LockedInTurn /\ LocalsInv /\ IsFiniteSet(rates)
    BY DEF TypeInv, TypeOK
  <1>1. UNCHANGED <<store, inside, world>>
    BY DEF StoreFails
  <1>2. CASE pc[t] = "claim"
    <2>1. Return(t) /\ inside' = [inside EXCEPT ![t] = None]
      BY <1>0, <1>1, <1>2 DEF StoreFails, LockedInTurn, VarTypes
    <2>2. VarTypes' /\ LockedInTurn' /\ LocalsInv'
      BY <1>0, <1>1, <2>1, ReturnKeeps DEF VarTypes, store, world
    <2> QED BY <1>0, <1>1, <2>2 DEF TypeInv, TypeOK, store
  <1>3. CASE pc[t] # "claim"
    <2>1. /\ pc[t] \in {"user_limit", "day_limit", "run", "load", "append"}
          /\ pc' = [pc EXCEPT ![t] = "exit"] /\ UNCHANGED locals
      BY <1>3 DEF StoreFails, Goto
    <2>2. reply[t] \in Replies \cup {None} /\ reply = [reply EXCEPT ![t] = reply[t]]
      BY <1>0 DEF VarTypes
    <2> QED
      BY <1>0, <1>1, <2>1, <2>2, TurnStepTypes
      DEF VarTypes, InTurn, Stages, store, locals, world
  <1> QED BY <1>2, <1>3

\* The lock goes with the turn.
LEMMA ExitTypes ==
  ASSUME NEW t \in Threads, TypeInv, Exit(t)
  PROVE  TypeInv'
  <1>0. VarTypes /\ LockedInTurn /\ LocalsInv /\ IsFiniteSet(rates)
    BY DEF TypeInv, TypeOK
  <1>1. /\ Return(t) /\ inside' = [inside EXCEPT ![t] = None]
        /\ UNCHANGED <<store, world>>
    BY DEF Exit, Turn!Release
  <1>2. VarTypes' /\ LockedInTurn' /\ LocalsInv'
    BY <1>0, <1>1, ReturnKeeps DEF VarTypes, store, world
  <1> QED BY <1>0, <1>1, <1>2 DEF TypeInv, TypeOK, store

\* The purge job deletes rows, a crash voids the locals, time passes.
LEMMA OutsideTypes ==
  ASSUME TypeInv, Purge \/ Crash \/ Tick
  PROVE  TypeInv'
  <1> USE DEF store, locals, world
  <1>0. VarTypes /\ LockedInTurn /\ LocalsInv /\ IsFiniteSet(rates)
    BY DEF TypeInv, TypeOK
  <1>1. CASE Purge
    <2>1. claims' \subseteq claims /\ turns' \subseteq turns /\ rates' \subseteq rates
      BY <1>1 DEF Purge, LiveClaims, PurgedRates, PurgedTurns
    <2>2. IsFiniteSet(rates')
      BY <1>0, <2>1, FS_Subset
    <2>3. VarTypes'
      BY <1>0, <1>1, <2>1 DEF Purge, VarTypes
    <2>4. LockedInTurn' /\ LocalsInv'
      BY <1>0, <1>1 DEF Purge, LockedInTurn, LocalsInv
    <2> QED BY <2>2, <2>3, <2>4 DEF TypeInv, TypeOK
  <1>2. CASE Crash
    <2>1. VarTypes'
      BY <1>0, <1>2 DEF Crash, VarTypes, Stages
    <2>2. clock' >= 0
      BY <1>0, <1>2, ServiceAssumption DEF Crash, VarTypes
    <2>3. LockedInTurn' /\ LocalsInv'
      BY <1>2, <2>2 DEF Crash, LockedInTurn, LocalsInv
    <2> QED BY <1>0, <1>2, <2>1, <2>3 DEF TypeInv, TypeOK, Crash
  <1>3. CASE Tick
    <2>1. clock' \in 0 .. MaxTime /\ \A u \in Threads : now[u] <= clock'
      BY <1>0, <1>3, ServiceAssumption DEF Tick, VarTypes, LocalsInv
    <2>2. VarTypes'
      BY <1>0, <1>3, <2>1 DEF Tick, VarTypes
    <2>3. LockedInTurn' /\ LocalsInv'
      BY <1>0, <1>3, <2>1 DEF Tick, LockedInTurn, LocalsInv
    <2> QED BY <1>0, <1>3, <2>2, <2>3 DEF TypeInv, TypeOK, Tick
  <1> QED BY <1>1, <1>2, <1>3

\* Every step keeps the types.
LEMMA NextTypeInv == TypeInv /\ [Next]_vars => TypeInv'
  <1> SUFFICES ASSUME TypeInv, [Next]_vars PROVE TypeInv'
    OBVIOUS
  <1>1. CASE UNCHANGED vars
    BY <1>1 DEF vars, store, locals, world, TypeInv, TypeOK, VarTypes,
                LockedInTurn, LocalsInv
  <1>2. ASSUME NEW t \in Threads, Step(t) PROVE TypeInv'
    BY <1>2, ClaimTypes, EnterTypes, ChargeUserTypes, ChargeDayTypes,
       CommandTypes, LoadTypes, GenerateTypes, ProviderTypes, DeliverTypes, CommitTypes,
       StoreFailsTypes, ExitTypes DEF Step
  <1>3. ASSUME NEW t \in Threads, NEW e \in Events, Begin(t, e) PROVE TypeInv'
    BY <1>3, BeginTypes
  <1> QED BY <1>1, <1>2, <1>3, OutsideTypes DEF Next, Quiet

\* Types, and: a thread holds the lock of its conversation exactly while it is
\* between entering and leaving the turn.
THEOREM ServiceTypeCorrect == Spec => []TypeOK
  <1>1. Spec => []TypeInv
    BY InitTypeInv, NextTypeInv, PTL DEF Spec
  <1>2. TypeInv => TypeOK
    BY DEF TypeInv
  <1> QED BY <1>1, <1>2, PTL

-------------------------------------------------------------------------------
(* Exclusion, and what a reset promises. *)

\* No two threads hold the lock of one conversation.
ExclusionInv ==
    \A t, u \in Threads : inside[t] # None /\ inside[t] = inside[u] => t = u

ResetInv == TypeInv /\ ExclusionInv /\ ResetIsEffective

\* Only a lock that is free is taken.
LEMMA NextExclusion ==
  ASSUME TypeInv, ExclusionInv, [Next]_vars
  PROVE  ExclusionInv'
  <1>0. VarTypes
    BY DEF TypeInv, TypeOK
  <1>1. ASSUME NEW t \in Threads, Enter(t) PROVE ExclusionInv'
    BY <1>0, <1>1 DEF Enter, Turn!Acquire, ExclusionInv, VarTypes
  <1>2. ASSUME NEW t \in Threads, Exit(t) PROVE ExclusionInv'
    BY <1>0, <1>2 DEF Exit, Turn!Release, ExclusionInv, VarTypes
  <1>3. CASE Crash
    BY <1>3 DEF Crash, ExclusionInv
  <1>4. CASE UNCHANGED inside
    BY <1>4 DEF ExclusionInv
  <1> QED
    BY <1>1, <1>2, <1>3, <1>4
    DEF Next, Step, Begin, Claim, ChargeUser, ChargeDay, Info, ResetHistory,
        CountHistory, LoadHistory, Generate, ProviderReturns, Deliver,
        DeliverRaises, Commit, StoreFails, Purge, Tick, Quiet, vars

\* Turns are added by Commit only, and what deletes a turn deletes every turn
\* of that conversation and that age.
LEMMA TurnsGrowByCommit ==
  ASSUME [Next]_vars, ~ \E t \in Threads : Commit(t)
  PROVE  /\ turns' \subseteq turns
         /\ \A r \in turns', s \in turns : s.key = r.key /\ s.at = r.at => s \in turns'
         /\ turnSeq' = turnSeq
  BY DEF Next, Step, Begin, Claim, Enter, ChargeUser, ChargeDay, Info,
         ResetHistory, CountHistory, LoadHistory, Generate, ProviderReturns,
         Deliver, DeliverRaises, StoreFails, Exit, Purge, Crash, Tick, Quiet,
         vars, store, Reset, AfterLoad, PurgedTurns, Expired

\* Only ResetHistory makes "cleared" the text to be posted.
LEMMA ClearedByReset ==
  ASSUME TypeInv, [Next]_vars, NEW u \in Threads, reply'[u] = "cleared"
  PROVE  /\ event'[u] = event[u]
         /\ reply[u] = "cleared" \/ ResetHistory(u)
  <1>0. VarTypes /\ LocalsInv
    BY DEF TypeInv, TypeOK
  <1> USE DEF locals
  <1>1. CASE UNCHANGED <<event, reply>>
    BY <1>1
  <1>2. ASSUME NEW t \in Threads, NEW e \in Events, Begin(t, e)
        PROVE  event'[u] = event[u] /\ reply[u] = "cleared"
    BY <1>0, <1>2, ServiceAssumption DEF Begin, VarTypes, LocalsInv
  <1>3. ASSUME NEW t \in Threads, Return(t)
        PROVE  event'[u] = event[u] /\ reply[u] = "cleared"
    BY <1>0, <1>3, ServiceAssumption DEF Return, VarTypes
  <1>4. ASSUME NEW t \in Threads, NEW text \in {"answer", "notice"}, Say(t, text),
               UNCHANGED event
        PROVE  event'[u] = event[u] /\ reply[u] = "cleared"
    BY <1>0, <1>4 DEF Say, VarTypes
  <1>5. ASSUME NEW t \in Threads, ResetHistory(t)
        PROVE  event'[u] = event[u] /\ (reply[u] = "cleared" \/ ResetHistory(u))
    BY <1>0, <1>5 DEF ResetHistory, Say, VarTypes
  <1>6. CASE Crash
    BY <1>6, ServiceAssumption DEF Crash
  <1>7. ASSUME NEW t \in Threads, Step(t), ~UNCHANGED <<event, reply>>
        PROVE  \/ Return(t) \/ ResetHistory(t)
               \/ \E text \in {"answer", "notice"} : Say(t, text) /\ UNCHANGED event
    BY <1>7
    DEF Step, Claim, Enter, ChargeUser, ChargeDay, Info, CountHistory,
        LoadHistory, Generate, ProviderReturns, Deliver, DeliverRaises, Commit,
        StoreFails, Exit
  <1>8. CASE Purge \/ Tick \/ Quiet \/ UNCHANGED vars
    BY <1>1, <1>8 DEF Purge, Tick, Quiet, vars
  <1> QED
    BY <1>1, <1>2, <1>3, <1>4, <1>5, <1>6, <1>7, <1>8 DEF Next

\* Between the deletion and the confirmation nobody else commits a turn.
LEMMA NextReset ==
  ASSUME ResetInv, [Next]_vars
  PROVE  ResetIsEffective'
  <1>0. VarTypes /\ LockedInTurn /\ LocalsInv /\ ExclusionInv /\ ResetIsEffective
    BY DEF ResetInv, TypeInv, TypeOK
  <1> SUFFICES ASSUME NEW u \in Threads, reply'[u] = "cleared"
               PROVE  OfKey(turns, KeyOf[event[u]])' = {}
    BY DEF ResetIsEffective
  <1>1. /\ event'[u] = event[u]
        /\ reply[u] = "cleared" \/ ResetHistory(u)
    BY ClearedByReset DEF ResetInv
  <1>2. CASE ResetHistory(u)
    BY <1>1, <1>2 DEF ResetHistory, Reset, OfKey
  <1>3. CASE reply[u] = "cleared" /\ ~ \E t \in Threads : Commit(t)
    BY <1>0, <1>1, <1>3, TurnsGrowByCommit DEF ResetIsEffective, OfKey
  <1>4. ASSUME reply[u] = "cleared", NEW t \in Threads, Commit(t)
        PROVE  OfKey(turns, KeyOf[event[u]])' = {}
    <2>1. pc[t] = "append" /\ reply[t] = "answer"
      BY <1>0, <1>4 DEF Commit, LocalsInv
    <2>2. pc[u] \in {"deliver", "append", "exit"} /\ event[u] \in Events
      <3>1. reply[u] # None
        BY <1>4, ServiceAssumption
      <3> QED BY <1>0, <3>1 DEF LocalsInv
    <2>3. inside[t] = KeyOf[event[t]] /\ inside[u] = KeyOf[event[u]]
      BY <1>0, <2>1, <2>2 DEF LockedInTurn
    <2>4. inside[u] # None
      BY <2>2, <2>3, ServiceAssumption
    <2>5. KeyOf[event[t]] # KeyOf[event[u]]
      BY <1>0, <1>4, <2>1, <2>3, <2>4 DEF ExclusionInv
    <2>6. \A r \in turns' : r \in turns \/ r.key = KeyOf[event[t]]
      BY <1>4 DEF Commit, AppendExchange
    <2> QED BY <1>0, <1>1, <1>4, <2>5, <2>6 DEF ResetIsEffective, OfKey
  <1> QED BY <1>1, <1>2, <1>3, <1>4

\* A user is never told that a history has been cleared while a turn of an
\* exchange that was in progress is still, or again, in it.
THEOREM ServiceResetEffective == Spec => []ResetIsEffective
  <1>1. Init => ResetInv
    <2>1. Init => ExclusionInv /\ ResetIsEffective
      BY ServiceAssumption DEF Init, ExclusionInv, ResetIsEffective
    <2> QED BY <2>1, InitTypeInv DEF ResetInv
  <1>2. ResetInv /\ [Next]_vars => ResetInv'
    BY NextTypeInv, NextExclusion, NextReset DEF ResetInv
  <1>3. ResetInv => ResetIsEffective
    BY DEF ResetInv
  <1> QED BY <1>1, <1>2, <1>3, PTL DEF Spec

-------------------------------------------------------------------------------
(* Only what was shown is remembered. *)

Seen(e) == "answer" \in {posted[e][i] : i \in DOMAIN posted[e]}

ShownInv ==
    /\ TypeInv
    /\ HistoryWasShown
    /\ \A t \in Threads : pc[t] = "append" => Seen(event[t])

\* A longer sequence of posts shows what the shorter one did.
LEMMA SeenInLonger ==
  ASSUME NEW s \in Seq(Posts), NEW more \in Seq(Posts),
         "answer" \in {s[i] : i \in DOMAIN s}
  PROVE  "answer" \in {(s \o more)[i] : i \in DOMAIN (s \o more)}
  <1>1. PICK i \in DOMAIN s : s[i] = "answer"
    OBVIOUS
  <1>2. /\ s \o more \in Seq(Posts) /\ Len(s \o more) = Len(s) + Len(more)
        /\ i \in 1 .. Len(s) + Len(more) /\ (s \o more)[i] = s[i]
    BY ConcatProperties, LenProperties
  <1>3. DOMAIN (s \o more) = 1 .. Len(s) + Len(more)
    BY <1>2, LenProperties
  <1> QED BY <1>1, <1>2, <1>3

\* Posts change only in a delivery, at the event of the delivering thread.
LEMMA PostsGrow ==
  ASSUME TypeInv, [Next]_vars, NEW e \in Events, posted'[e] # posted[e]
  PROVE  \E t \in Threads :
            /\ Deliver(t) \/ DeliverRaises(t)
            /\ event[t] = e /\ reply[t] \in Replies
            /\ \E more \in Seq(Posts) : posted'[e] = posted[e] \o more
  <1>0. VarTypes /\ LocalsInv
    BY DEF TypeInv, TypeOK
  <1>1. PICK t \in Threads : Deliver(t) \/ DeliverRaises(t)
    BY DEF Next, Step, Begin, Claim, Enter, ChargeUser, ChargeDay, Info,
           ResetHistory, CountHistory, LoadHistory, Generate, ProviderReturns,
           Commit, StoreFails, Exit, Purge, Crash, Tick, Quiet, vars, world
  <1>2. /\ reply[t] \in Replies /\ reply[t] \in Posts /\ event[t] \in Events
        /\ posted[e] \in Seq(Posts)
    BY <1>0, <1>1 DEF Deliver, DeliverRaises, LocalsInv, VarTypes, Posts
  <1>3. event[t] = e
    BY <1>0, <1>1, <1>2 DEF Deliver, DeliverRaises, VarTypes
  <1>4. \E more \in Seq(Posts) : posted'[e] = posted[e] \o more
    <2>1. <<>> \in Seq(Posts) /\ <<"part">> \in Seq(Posts) /\ <<reply[t]>> \in Seq(Posts)
      <3>1. "part" \in Posts
        BY DEF Posts
      <3> QED BY <1>2, <3>1
    <2>2. CASE Deliver(t)
      <3>1. posted'[e] = Append(posted[e], reply[t])
        BY <1>0, <1>3, <2>2 DEF Deliver, VarTypes
      <3>2. Append(posted[e], reply[t]) = posted[e] \o <<reply[t]>>
        BY <1>2, AppendIsConcat
      <3> QED BY <2>1, <3>1, <3>2
    <2>3. CASE DeliverRaises(t)
      <3>1. PICK seen \in {<<>>, <<"part">>, <<reply[t]>>} :
              posted' = [posted EXCEPT ![event[t]] = @ \o seen]
        BY <2>3 DEF DeliverRaises
      <3>2. posted'[e] = posted[e] \o seen
        BY <1>0, <1>3, <3>1 DEF VarTypes
      <3>3. seen \in Seq(Posts)
        BY <2>1, <3>1
      <3> QED BY <3>2, <3>3
    <2> QED BY <1>1, <2>2, <2>3
  <1> QED BY <1>1, <1>2, <1>3, <1>4

\* What has been seen stays seen.
LEMMA SeenStays ==
  ASSUME TypeInv, [Next]_vars, NEW e \in Events, Seen(e)
  PROVE  Seen(e)'
  <1>1. CASE posted'[e] = posted[e]
    BY <1>1 DEF Seen
  <1>2. CASE posted'[e] # posted[e]
    <2>1. PICK more \in Seq(Posts) : posted'[e] = posted[e] \o more
      BY <1>2, PostsGrow
    <2>2. posted[e] \in Seq(Posts)
      BY DEF TypeInv, TypeOK, VarTypes
    <2> QED BY <2>1, <2>2, SeenInLonger DEF Seen
  <1> QED BY <1>1, <1>2

\* A thread comes to commit by delivering an answer.
LEMMA CommitAfterDelivery ==
  ASSUME TypeInv, [Next]_vars, NEW u \in Threads, pc'[u] = "append"
  PROVE  /\ event'[u] = event[u] /\ event[u] \in Events
         /\ \/ pc[u] = "append"
            \/ Deliver(u) /\ reply[u] = "answer"
  <1>0. VarTypes /\ LocalsInv
    BY DEF TypeInv, TypeOK
  <1>1. ASSUME NEW t \in Threads, Step(t) \/ \E e \in Events : Begin(t, e),
               t # u
        PROVE  pc'[u] = pc[u] /\ event'[u] = event[u]
    BY <1>0, <1>1
    DEF Step, Begin, Claim, Enter, ChargeUser, ChargeDay, Info, ResetHistory,
        CountHistory, LoadHistory, Generate, ProviderReturns, Deliver,
        DeliverRaises, Commit, StoreFails, Exit, Return, Say, Goto, VarTypes, locals
  <1>2. ASSUME Step(u) \/ \E e \in Events : Begin(u, e)
        PROVE  Deliver(u) /\ reply[u] = "answer" /\ event'[u] = event[u]
    <2>1. CASE Deliver(u)
      BY <1>0, <2>1 DEF Deliver, Goto, VarTypes, locals
    <2>2. CASE ~Deliver(u)
      <3>1. \E stage \in Stages \ {"append"} : pc' = [pc EXCEPT ![u] = stage]
        BY <1>2, <2>2
        DEF Step, Begin, Claim, Enter, ChargeUser, ChargeDay, Info, ResetHistory,
            CountHistory, LoadHistory, Generate, ProviderReturns, DeliverRaises,
            Commit, StoreFails, Exit, Return, Say, Goto, Stages
      <3> QED BY <1>0, <3>1 DEF VarTypes
    <2> QED BY <2>1, <2>2
  <1>4. CASE Crash
    BY <1>4 DEF Crash
  <1>5. pc[u] = "append" => event[u] \in Events
    BY <1>0 DEF LocalsInv
  <1>6. Deliver(u) => event[u] \in Events
    BY <1>0 DEF Deliver, LocalsInv
  <1>7. CASE \E t \in Threads : Step(t) \/ \E e \in Events : Begin(t, e)
    <2>1. PICK t \in Threads : Step(t) \/ \E e \in Events : Begin(t, e)
      BY <1>7
    <2>2. CASE t = u
      BY <1>2, <1>6, <2>1, <2>2
    <2>3. CASE t # u
      <3>1. pc'[u] = pc[u] /\ event'[u] = event[u]
        BY <1>1, <2>1, <2>3
      <3> QED BY <1>5, <3>1
    <2> QED BY <2>2, <2>3
  <1>8. CASE UNCHANGED <<pc, event>>
    BY <1>5, <1>8
  <1> QED BY <1>4, <1>7, <1>8 DEF Next, Purge, Tick, Quiet, vars, locals

\* The new exchange is that of the delivery just made.
LEMMA NextShown ==
  ASSUME ShownInv, [Next]_vars
  PROVE  ShownInv'
  <1>0. TypeInv /\ VarTypes /\ LocalsInv /\ TypeInv'
    BY NextTypeInv DEF ShownInv, TypeInv, TypeOK
  <1>1. ASSUME NEW u \in Threads, pc'[u] = "append" PROVE Seen(event[u])'
    <2>1. event'[u] = event[u] /\ event[u] \in Events
      BY <1>0, <1>1, CommitAfterDelivery
    <2>2. CASE pc[u] = "append"
      <3>1. Seen(event[u])
        BY <2>2 DEF ShownInv
      <3> DEFINE e == event[u]
      <3>2. \A f \in Events : Seen(f) => Seen(f)'
        BY <1>0, SeenStays
      <3> QED BY <2>1, <3>1, <3>2 DEF Seen
    <2>3. CASE Deliver(u) /\ reply[u] = "answer"
      <3>1. posted[event[u]] \in Seq(Posts) /\ "answer" \in Posts
        BY <1>0, <2>1 DEF VarTypes, Posts
      <3>2. posted'[event[u]] = Append(posted[event[u]], "answer")
        BY <1>0, <2>1, <2>3 DEF Deliver, VarTypes
      <3>3. /\ posted'[event[u]] \in Seq(Posts)
            /\ Len(posted'[event[u]]) = Len(posted[event[u]]) + 1
            /\ posted'[event[u]][Len(posted[event[u]]) + 1] = "answer"
        BY <3>1, <3>2, AppendProperties
      <3>4. Len(posted[event[u]]) + 1 \in DOMAIN posted'[event[u]]
        BY <3>1, <3>3, LenProperties
      <3> QED BY <2>1, <3>3, <3>4 DEF Seen
    <2> QED BY <1>0, <1>1, <2>2, <2>3, CommitAfterDelivery
  <1>2. ASSUME NEW r \in turns' PROVE Seen(r.event)'
    <2>1. CASE r \in turns
      <3>1. r.event \in Events /\ Seen(r.event)
        BY <1>0, <2>1 DEF VarTypes, TurnRows, ShownInv, HistoryWasShown, Seen
      <3> QED BY <1>0, <3>1, SeenStays
    <2>2. CASE r \notin turns
      <3>1. PICK t \in Threads : Commit(t)
        BY <2>2, TurnsGrowByCommit
      <3>2. r.event = event[t]
        BY <2>2, <3>1 DEF Commit, AppendExchange
      <3>3. Seen(event[t]) /\ posted' = posted
        BY <3>1 DEF Commit, world, ShownInv
      <3> QED BY <3>2, <3>3 DEF Seen
    <2> QED BY <2>1, <2>2
  <1> QED BY <1>0, <1>1, <1>2 DEF ShownInv, HistoryWasShown, Seen

\* "An answer that was never delivered cannot become hidden conversation
\* state": every stored turn belongs to an answer the channel has seen whole.
THEOREM ServiceHistoryShown == Spec => []HistoryWasShown
  <1>1. Init => ShownInv
    <2>1. Init => HistoryWasShown /\ \A t \in Threads : pc[t] # "append"
      BY DEF Init, HistoryWasShown
    <2> QED BY <2>1, InitTypeInv DEF ShownInv
  <1>2. ShownInv /\ [Next]_vars => ShownInv'
    BY NextShown
  <1>3. ShownInv => HistoryWasShown
    BY DEF ShownInv
  <1> QED BY <1>1, <1>2, <1>3, PTL DEF Spec

-------------------------------------------------------------------------------
(* The order of the history. *)

OrderInv ==
    /\ TypeInv
    /\ HistoryInOrder
    /\ \A r \in turns : r.at <= clock /\ r.id <= turnSeq

\* Commit adds a pair that is younger and has higher ids than all others.
LEMMA NextOrder ==
  ASSUME OrderInv, [Next]_vars
  PROVE  OrderInv'
  <1>0. TypeInv /\ VarTypes /\ TypeInv'
    BY NextTypeInv DEF OrderInv, TypeInv, TypeOK
  <1>1. clock \in Nat /\ clock' \in Nat /\ clock <= clock' /\ turnSeq \in Nat
    <2>1. clock \in Nat /\ turnSeq \in Nat
      BY <1>0, ServiceAssumption DEF VarTypes
    <2>2. clock' \in {clock, clock + 1}
      BY DEF Next, Step, Begin, Claim, Enter, ChargeUser, ChargeDay, Info,
             ResetHistory, CountHistory, LoadHistory, Generate, ProviderReturns,
             Deliver, DeliverRaises, Commit, StoreFails, Exit, Purge, Crash, Tick,
             Quiet, vars, world
    <2> QED BY <2>1, <2>2
  <1>2. CASE ~ \E t \in Threads : Commit(t)
    <2>1. /\ turns' \subseteq turns
          /\ \A r \in turns', s \in turns : s.key = r.key /\ s.at = r.at => s \in turns'
          /\ turnSeq' = turnSeq
      BY <1>2, TurnsGrowByCommit
    <2>2. HistoryInOrder'
      BY <2>1 DEF OrderInv, HistoryInOrder
    <2>3. \A r \in turns' : r.at <= clock' /\ r.id <= turnSeq'
      <3>1. ASSUME NEW r \in turns' PROVE r.at <= clock' /\ r.id <= turnSeq'
        <4>1. r \in TurnRows /\ r.at <= clock /\ r.id <= turnSeq
          BY <1>0, <2>1 DEF OrderInv, VarTypes
        <4> QED BY <1>1, <2>1, <4>1 DEF TurnRows
      <3> QED BY <3>1
    <2> QED BY <1>0, <2>2, <2>3 DEF OrderInv
  <1>3. ASSUME NEW t \in Threads, Commit(t) PROVE OrderInv'
    <2> DEFINE row(i, role) == [id |-> i, key |-> KeyOf[event[t]], role |-> role,
                                event |-> event[t], at |-> clock]
               q == row(turnSeq + 1, "user")
               a == row(turnSeq + 2, "assistant")
    <2>1. /\ turns' = turns \cup {q, a} /\ turnSeq' = turnSeq + 2 /\ clock' = clock
      BY <1>3 DEF Commit, AppendExchange, world
    <2>2. /\ q.id = turnSeq + 1 /\ a.id = turnSeq + 2 /\ q.at = clock /\ a.at = clock
          /\ q.role = "user" /\ a.role = "assistant"
          /\ q.key = a.key /\ q.event = a.event
      OBVIOUS
    <2>3. \A r \in turns : /\ r.at \in Nat /\ r.id \in Nat
                           /\ r.at <= clock /\ r.id <= turnSeq
      BY <1>0 DEF OrderInv, VarTypes, TurnRows
    <2> HIDE DEF q, a
    <2>4. \A r \in turns' : \E s \in turns' :
            /\ s.key = r.key /\ s.event = r.event /\ s.role # r.role /\ s.at = r.at
            /\ IF r.role = "user" THEN s.id = r.id + 1 ELSE r.id = s.id + 1
      <3>1. ASSUME NEW r \in turns
            PROVE  \E s \in turns' :
                     /\ s.key = r.key /\ s.event = r.event /\ s.role # r.role
                     /\ s.at = r.at
                     /\ IF r.role = "user" THEN s.id = r.id + 1 ELSE r.id = s.id + 1
        BY <2>1 DEF OrderInv, HistoryInOrder
      <3>2. a.id = q.id + 1
        BY <1>1, <2>2
      <3> QED BY <2>1, <2>2, <3>1, <3>2
    <2>5. \A r, s \in turns' : r.key = s.key /\ r.id < s.id => r.at <= s.at
      <3>1. ASSUME NEW r \in turns', NEW s \in turns', r.key = s.key, r.id < s.id
            PROVE  r.at <= s.at
        <4>1. CASE r \in turns /\ s \in turns
          BY <3>1, <4>1 DEF OrderInv, HistoryInOrder
        <4>2. CASE s \notin turns
          <5>1. s.at = clock /\ r.at <= clock
            BY <1>1, <2>1, <2>2, <2>3, <4>2
          <5> QED BY <5>1
        <4>3. CASE r \notin turns /\ s \in turns
          BY <1>1, <2>1, <2>2, <2>3, <3>1, <4>3
        <4> QED BY <4>1, <4>2, <4>3
      <3> QED BY <3>1
    <2>6. \A r \in turns' : r.at <= clock' /\ r.id <= turnSeq'
      BY <1>1, <2>1, <2>2, <2>3
    <2> QED BY <1>0, <2>4, <2>5, <2>6 DEF OrderInv, HistoryInOrder
  <1> QED BY <1>2, <1>3

\* Questions and answers stay paired whatever is deleted, and reading them by
\* age is reading them in the order in which they were exchanged.
THEOREM ServiceHistoryOrdered == Spec => []HistoryInOrder
  <1>1. Init => OrderInv
    <2>1. Init => turns = {}
      BY DEF Init
    <2> QED BY <2>1, InitTypeInv DEF OrderInv, HistoryInOrder
  <1>2. OrderInv /\ [Next]_vars => OrderInv'
    BY NextOrder
  <1>3. OrderInv => HistoryInOrder
    BY DEF OrderInv
  <1> QED BY <1>1, <1>2, <1>3, PTL DEF Spec

-------------------------------------------------------------------------------
(* What the model is shown. *)

\* Rows as SQLite keeps them: ids are unique, and dates and ids are numbers.
Numbered(rows) ==
    /\ IsFiniteSet(rows)
    /\ \A r \in rows : r.id \in Nat /\ r.at \in Nat /\ r.role \in Roles
    /\ \A r, s \in rows : r.id = s.id => r = s

\* The place of a row in the result of ORDER BY, counted from 0.
Rank(rows, r) == Cardinality({s \in rows : Newer(s, r)})

\* A newer row comes earlier.
LEMMA RankFalls ==
  ASSUME NEW rows, Numbered(rows), NEW r \in rows, NEW s \in rows, Newer(s, r)
  PROVE  Rank(rows, s) < Rank(rows, r)
  <1> DEFINE A == {x \in rows : Newer(x, s)}
             B == {x \in rows : Newer(x, r)}
  <1>1. A \subseteq B /\ s \in B /\ s \notin A
    BY DEF Numbered, Newer
  <1>2. IsFiniteSet(B) /\ IsFiniteSet(A)
    BY FS_Subset DEF Numbered
  <1>3. Cardinality(A) <= Cardinality(B) /\ Cardinality(A) # Cardinality(B)
    BY <1>1, <1>2, FS_Subset
  <1>4. Cardinality(A) \in Nat /\ Cardinality(B) \in Nat
    BY <1>2, FS_CardinalityType
  <1> HIDE DEF A, B
  <1>5. Cardinality(A) < Cardinality(B)
    BY <1>3, <1>4
  <1> QED BY <1>5 DEF A, B, Rank

\* A row has a place among as many as there are rows.
LEMMA RankRange ==
  ASSUME NEW rows, Numbered(rows), NEW r \in rows
  PROVE  Rank(rows, r) \in 0 .. Cardinality(rows) - 1
  <1> DEFINE B == {x \in rows : Newer(x, r)}
  <1>1. B \subseteq rows /\ r \notin B
    BY DEF Numbered, Newer
  <1>2. IsFiniteSet(B) /\ IsFiniteSet(rows)
    BY FS_Subset DEF Numbered
  <1>3. Cardinality(B) <= Cardinality(rows) /\ Cardinality(B) # Cardinality(rows)
    BY <1>1, <1>2, FS_Subset
  <1>4. Cardinality(B) \in Nat /\ Cardinality(rows) \in Nat
    BY <1>2, FS_CardinalityType
  <1> HIDE DEF B
  <1>5. Cardinality(B) \in 0 .. Cardinality(rows) - 1
    BY <1>3, <1>4
  <1> QED BY <1>5 DEF B, Rank

\* Of two rows one is the newer.
LEMMA NewerTotal ==
  ASSUME NEW rows, Numbered(rows), NEW r \in rows, NEW s \in rows, r # s
  PROVE  Newer(r, s) \/ Newer(s, r)
  BY DEF Numbered, Newer

\* When the limit leaves a row out, it is reached, and what it leaves out is older
\* than what it lets through.
LEMMA LimitReached ==
  ASSUME NEW rows, Numbered(rows), NEW n \in Nat, NEW r \in rows \ Newest(rows, n)
  PROVE  /\ Cardinality(Newest(rows, n)) = n
         /\ \A s \in Newest(rows, n) : Newer(s, r)
  <1> DEFINE c == Cardinality(rows)
             rank == [x \in rows |-> Rank(rows, x)]
  <1>1. IsFiniteSet(rows) /\ c \in Nat
    BY FS_CardinalityType DEF Numbered
  <1>2. \A x \in rows : Rank(rows, x) \in 0 .. c - 1
    BY RankRange
  <1>3. \A x, y \in rows : x # y => Rank(rows, x) # Rank(rows, y)
    <2> SUFFICES ASSUME NEW x \in rows, NEW y \in rows, x # y
                 PROVE  Rank(rows, x) # Rank(rows, y)
      OBVIOUS
    <2>1. Rank(rows, x) < Rank(rows, y) \/ Rank(rows, y) < Rank(rows, x)
      BY NewerTotal, RankFalls
    <2>2. Rank(rows, x) \in Nat /\ Rank(rows, y) \in Nat
      BY <1>1, <1>2
    <2> QED BY <2>1, <2>2
  <1>4. rank \in Injection(rows, 0 .. c - 1)
    BY <1>2, <1>3 DEF Injection, IsInjective
  <1>5. IsFiniteSet(0 .. c - 1) /\ Cardinality(0 .. c - 1) = c
    <2> HIDE DEF c
    <2>1. 0 \in Int /\ c - 1 \in Int
      BY <1>1
    <2>2. /\ IsFiniteSet(0 .. c - 1)
          /\ Cardinality(0 .. c - 1) = IF 0 > c - 1 THEN 0 ELSE c - 1 - 0 + 1
      BY <2>1, FS_Interval
    <2> QED BY <1>1, <2>2
  <1>6. rank \in Surjection(rows, 0 .. c - 1)
    BY <1>4, <1>5, FS_Injection
  <1>7. \A i \in 0 .. c - 1 : \E x \in rows : Rank(rows, x) = i
    BY <1>6 DEF Surjection
  <1>8. Rank(rows, r) \in 0 .. c - 1 /\ n <= Rank(rows, r)
    <2>1. ~ (Rank(rows, r) < n)
      BY DEF Newest, Rank
    <2> QED BY <1>1, <1>2, <2>1
  <1>9. Newest(rows, n) = {x \in rows : Rank(rows, x) < n}
    BY DEF Newest, Rank
  <1> DEFINE top == {x \in rows : Rank(rows, x) < n}
             place == [x \in top |-> Rank(rows, x)]
  <1>10. Cardinality(top) = n
    <2>1. place \in Bijection(top, 0 .. n - 1)
      <3>1. \A x \in top : Rank(rows, x) \in 0 .. n - 1
        BY <1>1, <1>2
      <3>2. \A i \in 0 .. n - 1 : \E x \in top : Rank(rows, x) = i
        BY <1>1, <1>7, <1>8
      <3> QED BY <1>3, <3>1, <3>2 DEF Bijection, Injection, IsInjective, Surjection
    <2>2. IsFiniteSet(top)
      BY <1>1, FS_Subset
    <2>3. Cardinality(0 .. n - 1) = n
      BY FS_Interval
    <2> HIDE DEF top, place
    <2>4. Cardinality(0 .. n - 1) = Cardinality(top)
      BY <2>1, <2>2, FS_Bijection DEF ExistsBijection
    <2> QED BY <2>3, <2>4
  <1>11. ASSUME NEW s \in top PROVE Newer(s, r)
    <2>1. s # r
      BY <1>1, <1>2, <1>8
    <2>2. ~ Newer(r, s)
      <3>1. SUFFICES ASSUME Newer(r, s) PROVE FALSE
        OBVIOUS
      <3>2. Rank(rows, r) < Rank(rows, s)
        BY <3>1, RankFalls
      <3> QED BY <1>1, <1>2, <1>8, <3>2
    <2> QED BY <2>1, <2>2, NewerTotal
  <1> QED BY <1>9, <1>10, <1>11

\* The two rows of an exchange.
Mates(r, s) ==
    /\ s.event = r.event /\ s.role # r.role /\ s.at = r.at
    /\ IF r.role = "user" THEN s.id = r.id + 1 ELSE r.id = s.id + 1

Paired(rows) == \A r \in rows : \E s \in rows : Mates(r, s)

\* Whole exchanges make an even number of rows.
LEMMA PairedIsEven ==
  ASSUME NEW rows, Numbered(rows), Paired(rows)
  PROVE  \E m \in Nat : Cardinality(rows) = 2 * m
  <1> DEFINE Q == {r \in rows : r.role = "user"}
             A == {r \in rows : r.role = "assistant"}
             answer == [q \in Q |-> CHOOSE s \in rows : Mates(q, s)]
  <1>1. IsFiniteSet(Q) /\ IsFiniteSet(A) /\ Q \cap A = {} /\ Q \cup A = rows
    BY FS_Subset DEF Numbered, Roles
  <1>2. \A q \in Q : answer[q] \in A /\ answer[q].id = q.id + 1
    BY DEF Paired, Mates, Numbered, Roles
  <1>3. answer \in Bijection(Q, A)
    <2>1. answer \in [Q -> A]
      BY <1>2
    <2>2. \A x, y \in Q : answer[x] = answer[y] => x = y
      <3> SUFFICES ASSUME NEW x \in Q, NEW y \in Q, answer[x] = answer[y]
                   PROVE  x = y
        OBVIOUS
      <3>1. x.id + 1 = y.id + 1
        BY <1>2
      <3>2. x.id \in Nat /\ y.id \in Nat
        BY DEF Numbered
      <3>3. x.id = y.id
        BY <3>1, <3>2
      <3> QED BY <3>3 DEF Numbered
    <2>3. \A a \in A : \E q \in Q : answer[q] = a
      <3> SUFFICES ASSUME NEW a \in A PROVE \E q \in Q : answer[q] = a
        OBVIOUS
      <3>1. PICK q \in rows : Mates(a, q)
        BY DEF Paired
      <3>2. q \in Q /\ a.id = q.id + 1
        BY <3>1 DEF Mates, Numbered, Roles
      <3>3. answer[q].id = a.id /\ answer[q] \in rows
        BY <1>2, <3>2
      <3>4. answer[q] = a
        BY <3>3 DEF Numbered
      <3> QED BY <3>2, <3>4
    <2> HIDE DEF answer, Q, A
    <2> QED BY <2>1, <2>2, <2>3 DEF Bijection, Injection, IsInjective, Surjection
  <1> HIDE DEF Q, A, answer
  <1>4. Cardinality(A) = Cardinality(Q)
    BY <1>1, <1>3, FS_Bijection DEF ExistsBijection
  <1>5. Cardinality(rows) = Cardinality(Q) + Cardinality(A) - 0
    BY <1>1, FS_Union, FS_EmptySet
  <1>6. Cardinality(Q) \in Nat
    BY <1>1, FS_CardinalityType
  <1>7. Cardinality(rows) = 2 * Cardinality(Q)
    BY <1>4, <1>5, <1>6
  <1> QED BY <1>6, <1>7

\* The newest 2 n rows are the newest n exchanges, and none of them is cut in two.
LEMMA NewestPaired ==
  ASSUME NEW rows, Numbered(rows), Paired(rows), NEW n \in Nat,
         NEW r \in Newest(rows, 2 * n)
  PROVE  \E s \in Newest(rows, 2 * n) : Mates(r, s)
  <1>1. PICK s \in rows : Mates(r, s)
    BY DEF Paired, Newest
  <1>2. r \in rows /\ Rank(rows, r) < 2 * n
    BY DEF Newest, Rank
  <1>3. Rank(rows, s) \in Nat /\ Rank(rows, r) \in Nat
    BY <1>2, RankRange
  <1>4. CASE r.role = "user"
    <2>1. Newer(s, r)
      BY <1>1, <1>2, <1>4 DEF Mates, Newer, Numbered
    <2>2. Rank(rows, s) < 2 * n
      BY <1>2, <1>3, <2>1, RankFalls
    <2> QED BY <1>1, <2>2 DEF Newest, Rank
  <1>5. CASE r.role # "user"
    <2> DEFINE A == {x \in rows : Newer(x, r)}
               B == {x \in rows : Newer(x, s)}
    <2>0. r.role = "assistant" /\ s.role = "user" /\ r.id = s.id + 1 /\ r.at = s.at
      BY <1>1, <1>2, <1>5 DEF Mates, Numbered, Roles
    <2>1. r \in B /\ r \notin A
      BY <1>2, <2>0 DEF Numbered, Newer
    <2>2. B = A \cup {r}
      <3>1. \A x \in B : x = r \/ x \in A
        <4> SUFFICES ASSUME NEW x \in B, x # r PROVE Newer(x, r)
          OBVIOUS
        <4>1. x.id # r.id /\ x.id \in Nat /\ x.at \in Nat /\ s.id \in Nat /\ s.at \in Nat
          BY <1>2 DEF Numbered
        <4>2. x.at > s.at \/ (x.at = s.at /\ x.id > s.id)
          BY DEF Newer
        <4> QED BY <2>0, <4>1, <4>2 DEF Newer
      <3>2. \A x \in A : x \in B
        BY <1>2, <2>0 DEF Numbered, Newer
      <3> QED BY <2>1, <3>1, <3>2
    <2>3. Numbered(A)
      BY FS_Subset DEF Numbered
    <2>4. Paired(A)
      <3> SUFFICES ASSUME NEW x \in A PROVE \E y \in A : Mates(x, y)
        BY DEF Paired
      <3>1. PICK y \in rows : Mates(x, y)
        BY DEF Paired
      <3>2. Newer(y, r)
        <4>1. /\ {x.id, x.at, y.id, y.at, r.id, r.at} \subseteq Nat
              /\ y.role \in Roles /\ x.role \in Roles
          BY <1>2 DEF Numbered
        <4>2. y.at = x.at /\ (x.at > r.at \/ (x.at = r.at /\ x.id > r.id))
          BY <3>1 DEF Mates, Newer
        <4>3. CASE x.role = "user"
          <5>1. y.id = x.id + 1
            BY <3>1, <4>3 DEF Mates
          <5> QED BY <4>1, <4>2, <5>1 DEF Newer
        <4>4. CASE x.role # "user"
          <5>1. x.id = y.id + 1 /\ y.role = "user"
            BY <3>1, <4>1, <4>4 DEF Mates, Roles
          <5>2. y.id # r.id
            BY <1>2, <2>0, <5>1 DEF Numbered
          <5> QED BY <4>1, <4>2, <5>1, <5>2 DEF Newer
        <4> QED BY <4>3, <4>4
      <3> QED BY <3>1, <3>2
    <2>5. PICK m \in Nat : Cardinality(A) = 2 * m
      BY <2>3, <2>4, PairedIsEven
    <2>6. IsFiniteSet(A)
      BY <2>3 DEF Numbered
    <2>7. Cardinality(B) = Cardinality(A) + 1
      BY <2>1, <2>2, <2>6, FS_AddElement
    <2>8. Cardinality(A) < 2 * n
      BY <1>2 DEF Rank
    <2> HIDE DEF A, B
    <2>9. Cardinality(B) < 2 * n
      BY <2>5, <2>7, <2>8
    <2> QED BY <1>1, <2>9 DEF B, Newest
  <1> QED BY <1>4, <1>5

\* What ContextStable says of one thread.
StillRead(t) ==
    /\ \A r \in context[t] : r.key = KeyOf[event[t]] /\ (r \in turns \/ Expired(r, clock))
    /\ \A r \in OfKey(turns, KeyOf[event[t]]) \ context[t] :
          /\ Cardinality(context[t]) = 2 * HistoryTurns
          /\ \A s \in context[t] : Newer(s, r)

\* What a thread answers from is what load_turns gave it, nobody else is in its
\* conversation, and rows are numbered.
ContextInv ==
    /\ OrderInv /\ ExclusionInv
    /\ Numbered(turns)
    /\ ContextIsPaired
    /\ \A t \in Threads : Answering(t) => StillRead(t)

\* AUTOINCREMENT gives a number once.
LEMMA NextNumbered ==
  ASSUME OrderInv, Numbered(turns), [Next]_vars
  PROVE  Numbered(turns)'
  <1>1. CASE ~ \E t \in Threads : Commit(t)
    <2>1. turns' \subseteq turns
      BY <1>1, TurnsGrowByCommit
    <2> QED BY <2>1, FS_Subset DEF Numbered
  <1>2. ASSUME NEW t \in Threads, Commit(t) PROVE Numbered(turns)'
    <2> DEFINE row(i, role) == [id |-> i, key |-> KeyOf[event[t]], role |-> role,
                                event |-> event[t], at |-> clock]
               q == row(turnSeq + 1, "user")
               a == row(turnSeq + 2, "assistant")
    <2>1. turns' = (turns \cup {q}) \cup {a}
      BY <1>2 DEF Commit, AppendExchange
    <2>2. turnSeq \in Nat /\ clock \in Nat
      BY ServiceAssumption DEF OrderInv, TypeInv, TypeOK, VarTypes
    <2>3. /\ q.id = turnSeq + 1 /\ a.id = turnSeq + 2 /\ q.at = clock /\ a.at = clock
          /\ q.role \in Roles /\ a.role \in Roles
      BY DEF Roles
    <2>4. \A r \in turns : r.id <= turnSeq /\ r.id \in Nat
      BY DEF OrderInv, Numbered
    <2> HIDE DEF q, a
    <2>5. IsFiniteSet(turns')
      BY <2>1, FS_AddElement DEF Numbered
    <2>6. \A r \in turns' : r.id \in Nat /\ r.at \in Nat /\ r.role \in Roles
      BY <2>1, <2>2, <2>3 DEF Numbered
    <2>7. \A r, s \in turns' : r.id = s.id => r = s
      BY <2>1, <2>2, <2>3, <2>4 DEF Numbered
    <2> QED BY <2>5, <2>6, <2>7 DEF Numbered
  <1> QED BY <1>1, <1>2

\* A thread that answers has begun to, or has had its history all along.
LEMMA AnswerGoesOn ==
  ASSUME TypeInv, [Next]_vars, NEW u \in Threads, Answering(u)'
  PROVE  \/ LoadHistory(u)
         \/ Answering(u) /\ context'[u] = context[u] /\ event'[u] = event[u]
            /\ ~ Commit(u)
  <1>0. VarTypes /\ LocalsInv
    BY DEF TypeInv, TypeOK
  <1> USE DEF Answering, locals
  <1>1. ASSUME NEW t \in Threads, Step(t), t # u
        PROVE  /\ pc'[u] = pc[u] /\ event'[u] = event[u]
               /\ context'[u] = context[u] /\ reply'[u] = reply[u]
    BY <1>0, <1>1
    DEF Step, Claim, Enter, ChargeUser, ChargeDay, Info, CountHistory,
        LoadHistory, Generate, ProviderReturns, Deliver, DeliverRaises, Commit,
        StoreFails, Exit, ResetHistory, Say, Return, Goto, VarTypes
  <1>2. ASSUME Return(u) PROVE FALSE
    BY <1>0, <1>2 DEF Return, Goto, VarTypes
  <1>3. CASE Claim(u) \/ Enter(u) \/ StoreFails(u) \/ Exit(u) \/ Commit(u)
    BY <1>0, <1>2, <1>3 DEF Claim, Enter, StoreFails, Exit, Commit, Goto, VarTypes
  <1>4. CASE ChargeUser(u) \/ ChargeDay(u) \/ Info(u) \/ CountHistory(u) \/ ResetHistory(u)
    BY <1>0, <1>4
    DEF ChargeUser, ChargeDay, Info, CountHistory, ResetHistory, Say, Goto, VarTypes
  <1>5. CASE Generate(u) \/ ProviderReturns(u) \/ Deliver(u) \/ DeliverRaises(u)
    BY <1>0, <1>5
    DEF Generate, ProviderReturns, Deliver, DeliverRaises, Commit, Say, Goto, VarTypes
  <1>6. ASSUME NEW t \in Threads, NEW e \in Events, Begin(t, e)
        PROVE  Answering(u) /\ context'[u] = context[u] /\ event'[u] = event[u]
    BY <1>0, <1>6 DEF Begin, Goto, VarTypes
  <1>7. ~ Commit(u)
    BY <1>0 DEF Commit, Goto, VarTypes
  <1>8. CASE Purge \/ Tick \/ Quiet \/ UNCHANGED vars
    BY <1>7, <1>8 DEF Purge, Tick, Quiet, vars
  <1>9. CASE Crash
    BY <1>0, <1>9 DEF Crash
  <1> QED
    BY <1>1, <1>3, <1>4, <1>5, <1>6, <1>7, <1>8, <1>9 DEF Next, Step

\* While a thread answers nobody else commits or resets in its conversation, and
\* what disappears has expired.
LEMMA NobodyInterferes ==
  ASSUME ContextInv, [Next]_vars, NEW u \in Threads, Answering(u), Answering(u)',
         ~ Commit(u), ~ LoadHistory(u)
  PROVE  \A r : r.key = KeyOf[event[u]] =>
            /\ r \in turns' => r \in turns
            /\ r \in turns => r \in turns' \/ Expired(r, clock')
  <1>0. VarTypes /\ LocalsInv /\ LockedInTurn
    BY DEF ContextInv, OrderInv, TypeInv, TypeOK
  <1>1. CASE UNCHANGED turns
    BY <1>1
  <1>2. ASSUME NEW t \in Threads, pc[t] \in {"run", "load", "append"}, t # u
        PROVE  KeyOf[event[t]] # KeyOf[event[u]]
    <2>1. event[u] \in Events /\ event[t] \in Events
      BY <1>0, <1>2 DEF Answering, LocalsInv
    <2>2. inside[t] = KeyOf[event[t]] /\ inside[u] = KeyOf[event[u]]
      BY <1>0, <1>2 DEF Answering, LockedInTurn
    <2>3. inside[u] # None
      BY <2>1, <2>2, ServiceAssumption
    <2> QED BY <1>2, <2>2, <2>3 DEF ContextInv, ExclusionInv
  <1>3. ASSUME NEW t \in Threads,
               ResetHistory(t) \/ CountHistory(t) \/ LoadHistory(t) \/ Commit(t)
        PROVE  t # u /\ pc[t] \in {"run", "load", "append"}
    BY <1>3 DEF ResetHistory, CountHistory, LoadHistory, Commit, Answering
  <1>4. ASSUME NEW t \in Threads, ResetHistory(t) \/ CountHistory(t) \/ LoadHistory(t)
        PROVE  \A r : r.key = KeyOf[event[u]] => (r \in turns' <=> r \in turns)
    <2>1. KeyOf[event[t]] # KeyOf[event[u]]
      BY <1>2, <1>3, <1>4
    <2> QED BY <1>4, <2>1 DEF ResetHistory, CountHistory, LoadHistory, Reset, AfterLoad
  <1>5. ASSUME NEW t \in Threads, Commit(t)
        PROVE  \A r : r.key = KeyOf[event[u]] => (r \in turns' <=> r \in turns)
    <2>1. KeyOf[event[t]] # KeyOf[event[u]]
      BY <1>2, <1>3, <1>5
    <2> QED BY <1>5, <2>1 DEF Commit, AppendExchange
  <1>6. CASE Purge
    BY <1>6 DEF Purge, PurgedTurns, world
  <1> QED
    BY <1>1, <1>4, <1>5, <1>6
    DEF Next, Step, Begin, Claim, Enter, ChargeUser, ChargeDay, Info, Generate,
        ProviderReturns, Deliver, DeliverRaises, StoreFails, Exit, Crash, Tick,
        Quiet, vars, store

\* What load_turns returns is whole exchanges, and what it leaves out is older.
LEMMA HistoryLoaded ==
  ASSUME ContextInv, NEW u \in Threads, LoadHistory(u)
  PROVE  /\ StillRead(u)'
         /\ \A r \in context'[u] : \E s \in context'[u] : Mates(r, s)
  <1>0. VarTypes /\ LocalsInv /\ Numbered(turns) /\ HistoryInOrder
    BY DEF ContextInv, OrderInv, TypeInv, TypeOK
  <1> DEFINE k == KeyOf[event[u]]
             rows == OfKey(AfterLoad(turns, k, now[u]), k)
  <1>1. /\ turns' = AfterLoad(turns, k, now[u]) /\ event' = event
        /\ context'[u] = Newest(rows, 2 * HistoryTurns)
    BY <1>0 DEF LoadHistory, LoadTurns, VarTypes
  <1>2. Numbered(rows)
    BY <1>0, FS_Subset DEF Numbered, OfKey, AfterLoad
  <1>3. Paired(rows)
    BY <1>0 DEF Paired, Mates, HistoryInOrder, OfKey, AfterLoad, Expired
  <1>4. OfKey(turns', k) = rows /\ \A r \in rows : r.key = k /\ r \in turns'
    BY <1>1 DEF OfKey
  <1> HIDE DEF rows
  <1>5. 2 * HistoryTurns \in Nat /\ HistoryTurns \in Nat
    BY StoreAssumption
  <1>6. Newest(rows, 2 * HistoryTurns) \subseteq rows
    BY DEF Newest
  <1>7. \A r \in context'[u] : \E s \in context'[u] : Mates(r, s)
    BY <1>1, <1>2, <1>3, <1>5, NewestPaired
  <1>8. \A r \in rows \ context'[u] :
          /\ Cardinality(context'[u]) = 2 * HistoryTurns
          /\ \A s \in context'[u] : Newer(s, r)
    BY <1>1, <1>2, <1>5, LimitReached
  <1> QED BY <1>1, <1>4, <1>6, <1>7, <1>8 DEF StillRead

\* Time makes no expired row current again.
LEMMA ExpiredForGood ==
  ASSUME TypeInv, [Next]_vars, NEW r, r.at \in Nat, Expired(r, clock)
  PROVE  Expired(r, clock')
  <1>1. clock \in Nat /\ ConversationTTL \in Nat
    BY ServiceAssumption, StoreAssumption DEF TypeInv, TypeOK, VarTypes
  <1>2. clock' \in {clock, clock + 1}
    BY DEF Next, Step, Begin, Claim, Enter, ChargeUser, ChargeDay, Info,
           ResetHistory, CountHistory, LoadHistory, Generate, ProviderReturns,
           Deliver, DeliverRaises, Commit, StoreFails, Exit, Purge, Crash, Tick,
           Quiet, vars, world
  <1> QED BY <1>1, <1>2 DEF Expired

\* What a thread has read stays what it has read.
LEMMA NextStable ==
  ASSUME ContextInv, [Next]_vars, NEW u \in Threads, Answering(u)'
  PROVE  StillRead(u)'
  <1>0. TypeInv /\ VarTypes /\ context[u] \in SUBSET TurnRows
    BY DEF ContextInv, OrderInv, TypeInv, TypeOK, VarTypes
  <1>1. CASE LoadHistory(u)
    BY <1>1, HistoryLoaded
  <1>2. CASE ~ LoadHistory(u)
    <2>1. /\ Answering(u) /\ context'[u] = context[u] /\ event'[u] = event[u]
          /\ ~ Commit(u) /\ StillRead(u)
      BY <1>0, <1>2, AnswerGoesOn DEF ContextInv
    <2>2. \A r : r.key = KeyOf[event[u]] =>
            /\ r \in turns' => r \in turns
            /\ r \in turns => r \in turns' \/ Expired(r, clock')
      BY <1>2, <2>1, NobodyInterferes
    <2>3. \A r \in context[u] : r.at \in Nat
      BY <1>0 DEF TurnRows
    <2>4. \A r \in context[u] : Expired(r, clock) => Expired(r, clock')
      BY <1>0, <2>3, ExpiredForGood
    <2> QED BY <2>1, <2>2, <2>4 DEF StillRead, OfKey
  <1> QED BY <1>1, <1>2

\* A context is replaced as a whole.
LEMMA NextPaired ==
  ASSUME ContextInv, [Next]_vars
  PROVE  ContextIsPaired'
  <1>0. VarTypes
    BY DEF ContextInv, OrderInv, TypeInv, TypeOK
  <1>1. CASE UNCHANGED context
    BY <1>1 DEF ContextInv, ContextIsPaired
  <1>2. ASSUME NEW t \in Threads, LoadHistory(t) PROVE ContextIsPaired'
    <2>1. \A r \in context'[t] : \E s \in context'[t] : Mates(r, s)
      BY <1>2, HistoryLoaded
    <2>2. \A u \in Threads : u # t => context'[u] = context[u]
      BY <1>0, <1>2 DEF LoadHistory, VarTypes
    <2> QED BY <2>1, <2>2 DEF ContextInv, ContextIsPaired, Mates
  <1>3. ASSUME NEW t \in Threads, Return(t) PROVE ContextIsPaired'
    BY <1>0, <1>3 DEF Return, ContextInv, ContextIsPaired, VarTypes
  <1>4. CASE Crash
    BY <1>4 DEF Crash, ContextIsPaired
  <1> QED
    BY <1>1, <1>2, <1>3, <1>4
    DEF Next, Step, Begin, Claim, Enter, ChargeUser, ChargeDay, Info,
        ResetHistory, CountHistory, Generate, ProviderReturns, Deliver,
        DeliverRaises, Commit, StoreFails, Exit, Purge, Tick, Quiet, vars, locals

\* Initially nobody has read anything.
LEMMA InitContextInv == Init => ContextInv
  <1>1. Init => OrderInv
    <2>1. Init => turns = {}
      BY DEF Init
    <2> QED BY <2>1, InitTypeInv DEF OrderInv, HistoryInOrder
  <1>2. Init => ExclusionInv
    BY DEF Init, ExclusionInv
  <1>3. Init => Numbered(turns)
    BY FS_EmptySet DEF Init, Numbered
  <1>4. Init => ContextIsPaired /\ \A t \in Threads : ~ Answering(t)
    BY DEF Init, ContextIsPaired, Answering
  <1> QED BY <1>1, <1>2, <1>3, <1>4 DEF ContextInv

\* The invariant is inductive.
LEMMA NextContextInv == ContextInv /\ [Next]_vars => ContextInv'
  <1> SUFFICES ASSUME ContextInv, [Next]_vars PROVE ContextInv'
    OBVIOUS
  <1>1. OrderInv' /\ ExclusionInv' /\ Numbered(turns)'
    BY NextOrder, NextExclusion, NextNumbered DEF ContextInv, OrderInv
  <1>2. ContextIsPaired'
    BY NextPaired
  <1>3. \A t \in Threads : Answering(t)' => StillRead(t)'
    BY NextStable
  <1> QED BY <1>1, <1>2, <1>3 DEF ContextInv

\* While a thread works on an answer, the history it gave to the model stays the
\* history of the conversation, up to what expires.
THEOREM ServiceContextStable == Spec => []ContextStable
  <1>1. ContextInv => ContextStable
    BY DEF ContextInv, ContextStable, StillRead
  <1> QED BY <1>1, InitContextInv, NextContextInv, PTL DEF Spec

\* No request to the model contains half an exchange, although load_turns limits
\* rows and deletes by age.
THEOREM ServiceContextPaired == Spec => []ContextIsPaired
  <1>1. ContextInv => ContextIsPaired
    BY DEF ContextInv
  <1> QED BY <1>1, InitContextInv, NextContextInv, PTL DEF Spec

-------------------------------------------------------------------------------
(* The daily budget. *)

\* The rows that count questions, and the threads that have been charged and will
\* ask the model.
ModelDay == <<"model", "day">>
Charged == {r \in rates : r.scope = ModelDay}
Paying == {t \in Threads : pc[t] \in {"load", "generate"}}

BudgetInv ==
    /\ TypeInv
    /\ IsFiniteSet(Requests) /\ IsFiniteSet(Paying)
    /\ Cardinality(Requests) + Cardinality(Paying) <= Cardinality(Charged)
    /\ Cardinality(Charged) <= DailyLimit
    /\ \A t \in Paying : KindOf[event[t]] = "question"

\* The scopes of users and of the day are apart, and those of commands and
\* questions.
LEMMA ScopesApart ==
  ASSUME NEW e \in Events
  PROVE  UserScope(e) # ModelDay /\ (DayScope(e) = ModelDay <=> KindOf[e] = "question")
  BY DEF UserScope, DayScope, ModelDay, Category

\* Who gives up, or returns, or is killed, asks for nothing.
LEMMA BudgetKept ==
  ASSUME BudgetInv, TypeInv', Charged' = Charged, Requests' = Requests,
         Paying' \subseteq Paying, \A t \in Paying' : event'[t] = event[t]
  PROVE  BudgetInv'
  <1>1. IsFiniteSet(Paying') /\ Cardinality(Paying') <= Cardinality(Paying)
    BY FS_Subset DEF BudgetInv
  <1>2. IsFiniteSet(Charged)
    BY FS_Subset DEF BudgetInv, TypeInv, Charged
  <1>3. {Cardinality(Paying), Cardinality(Paying'), Cardinality(Requests),
         Cardinality(Charged)} \subseteq Nat
    BY <1>1, <1>2, FS_CardinalityType DEF BudgetInv
  <1>4. Cardinality(Requests) + Cardinality(Paying') <= Cardinality(Charged)
    BY <1>1, <1>3 DEF BudgetInv
  <1> QED BY <1>1, <1>4 DEF BudgetInv

\* Within a day no row of the day's scope is too old to count.
LEMMA DayLasts ==
  ASSUME TypeInv, MaxTime < Day, NEW r \in rates, NEW at \in 0 .. MaxTime
  PROVE  r.at > at - Day
  <1>1. r.at \in Nat /\ at \in Nat /\ MaxTime \in Nat /\ Day \in Nat /\ at <= MaxTime
    BY ServiceAssumption DEF TypeInv, TypeOK, VarTypes, RateRows
  <1> QED BY <1>1

\* Whoever is charged has one row, which nobody has been charged before.
LEMMA ChargeCounts ==
  ASSUME BudgetInv, TypeInv', MaxTime < Day, NEW t \in Threads, ChargeDay(t)
  PROVE  BudgetInv'
  <1>0. VarTypes /\ LocalsInv
    BY DEF BudgetInv, TypeInv, TypeOK
  <1>1. /\ event[t] \in Events /\ t \notin Paying /\ now[t] \in 0 .. MaxTime
        /\ Requests' = Requests /\ event' = event
    <2>1. event[t] \in Events /\ t \notin Paying
      BY <1>0 DEF ChargeDay, LocalsInv, Paying
    <2>2. now[t] \in Nat /\ now[t] <= clock /\ clock \in 0 .. MaxTime /\ MaxTime \in Nat
      BY <1>0, ServiceAssumption DEF VarTypes, LocalsInv
    <2> QED BY <2>1, <2>2 DEF ChargeDay, Requests, world
  <1> DEFINE e == event[t]
             s == DayScope(e)
             kept == Pruned(rates, s, Day, now[t])
             row == [id |-> UnusedId(kept), scope |-> s, at |-> now[t]]
  <1>2. kept = rates
    BY <1>1, DayLasts DEF Pruned, BudgetInv
  <1>3. IsFiniteSet(rates) /\ IsFiniteSet(Charged)
    BY FS_Subset DEF BudgetInv, TypeInv, Charged
  <1>4. CASE ~ (RateAllows(rates, s, DailyLimit, Day, now[t]) /\ KindOf[e] = "question")
    <2>1. Charged' = Charged
      <3>1. rates' = rates \/ (rates' = rates \cup {row} /\ row.scope # ModelDay)
        BY <1>1, <1>2, <1>4, ScopesApart DEF ChargeDay, AfterRate
      <3> QED BY <3>1 DEF Charged
    <2>2. Paying' \subseteq Paying
      BY <1>0, <1>1, <1>4 DEF ChargeDay, Say, Goto, Paying, VarTypes
    <2> QED BY <1>1, <2>1, <2>2, BudgetKept
  <1>5. CASE RateAllows(rates, s, DailyLimit, Day, now[t]) /\ KindOf[e] = "question"
    <2>1. s = ModelDay
      BY <1>1, <1>5, ScopesApart
    <2>2. rates' = rates \cup {row} /\ row.scope = ModelDay /\ row \notin rates
      <3>1. row \notin rates
        BY <1>2, <1>3, UnusedIdType
      <3>2. rates' = rates \cup {row}
        BY <1>2, <1>5 DEF ChargeDay, AfterRate
      <3> QED BY <2>1, <3>1, <3>2
    <2>3. Charged' = Charged \cup {row} /\ row \notin Charged
      BY <2>2 DEF Charged
    <2>4. InWindow(rates, s, Day, now[t]) = Charged
      BY <1>1, <2>1, DayLasts DEF InWindow, Charged, BudgetInv
    <2>5. Cardinality(Charged) < DailyLimit
      BY <1>5, <2>4 DEF RateAllows
    <2>6. Paying' = Paying \cup {t}
      BY <1>0, <1>5 DEF ChargeDay, Goto, Paying, VarTypes
    <2> HIDE DEF row, s, e
    <2>7. Cardinality(Charged') = Cardinality(Charged) + 1
      BY <1>3, <2>3, FS_AddElement
    <2>8. IsFiniteSet(Paying') /\ Cardinality(Paying') = Cardinality(Paying) + 1
      BY <1>1, <2>6, FS_AddElement DEF BudgetInv
    <2>9. {Cardinality(Paying), Cardinality(Requests), Cardinality(Charged),
           DailyLimit} \subseteq Nat
      BY <1>3, FS_CardinalityType, ServiceAssumption DEF BudgetInv
    <2>10. /\ Cardinality(Requests) + Cardinality(Paying') <= Cardinality(Charged')
           /\ Cardinality(Charged') <= DailyLimit
      BY <2>5, <2>7, <2>8, <2>9 DEF BudgetInv
    <2>11. \A u \in Paying' : KindOf[event'[u]] = "question"
      BY <1>1, <1>5, <2>6 DEF BudgetInv, e
    <2> QED BY <1>1, <2>8, <2>10, <2>11 DEF BudgetInv
  <1> QED BY <1>4, <1>5

\* Who asks the model has been charged, and pays.
LEMMA AskPays ==
  ASSUME BudgetInv, TypeInv', NEW t \in Threads, Generate(t)
  PROVE  BudgetInv'
  <1>0. VarTypes /\ LocalsInv
    BY DEF BudgetInv, TypeInv, TypeOK
  <1> DEFINE e == event[t]
             p == <<e, calls[e] + 1>>
  <1>1. e \in Events /\ calls[e] \in Nat /\ t \in Paying
    BY <1>0 DEF Generate, LocalsInv, VarTypes, Paying
  <1>2. Requests' = Requests \cup {p}
    <2>1. \A d \in Events : calls'[d] = IF d = e THEN calls[e] + 1 ELSE calls[d]
      BY <1>0 DEF Generate, VarTypes
    <2>2. 1 .. calls[e] + 1 = (1 .. calls[e]) \cup {calls[e] + 1}
      BY <1>1
    <2> QED BY <1>1, <2>1, <2>2 DEF Requests
  <1>3. p \notin Requests
    BY <1>1 DEF Requests
  <1>4. Paying' = Paying \ {t} /\ Charged' = Charged /\ event' = event
    BY <1>0 DEF Generate, Goto, Paying, VarTypes, Charged, store, locals
  <1> HIDE DEF p
  <1>5. /\ IsFiniteSet(Requests')
        /\ Cardinality(Requests') = Cardinality(Requests) + 1
    BY <1>2, <1>3, FS_AddElement DEF BudgetInv
  <1>6. IsFiniteSet(Paying') /\ Cardinality(Paying') = Cardinality(Paying) - 1
    BY <1>1, <1>4, FS_RemoveElement DEF BudgetInv
  <1>7. IsFiniteSet(Charged)
    BY FS_Subset DEF BudgetInv, TypeInv, Charged
  <1>8. {Cardinality(Paying), Cardinality(Requests), Cardinality(Charged)} \subseteq Nat
    BY <1>7, FS_CardinalityType DEF BudgetInv
  <1>9. Cardinality(Requests') + Cardinality(Paying') <= Cardinality(Charged)
    BY <1>5, <1>6, <1>8 DEF BudgetInv
  <1> QED BY <1>4, <1>5, <1>6, <1>9 DEF BudgetInv

\* Requests come only after charges.
LEMMA NextBudgetInv ==
  ASSUME MaxTime < Day, BudgetInv, [Next]_vars
  PROVE  BudgetInv'
  <1>0. VarTypes /\ LocalsInv /\ TypeInv'
    BY NextTypeInv DEF BudgetInv, TypeInv, TypeOK
  <1> USE DEF Goto, locals, store, world
  <1>1. ASSUME NEW t \in Threads, ChargeDay(t) PROVE BudgetInv'
    BY <1>0, <1>1, ChargeCounts
  <1>2. ASSUME NEW t \in Threads, Generate(t) PROVE BudgetInv'
    BY <1>0, <1>2, AskPays
  <1>3. ASSUME NEW t \in Threads, ChargeUser(t) PROVE BudgetInv'
    <2>1. event[t] \in Events
      BY <1>0, <1>3 DEF ChargeUser, LocalsInv
    <2>2. Charged' = Charged
      BY <1>3, <2>1, ScopesApart DEF ChargeUser, Charged, AfterRate, Pruned
    <2>3. /\ Paying' \subseteq Paying /\ event' = event /\ Requests' = Requests
      BY <1>0, <1>3 DEF ChargeUser, Say, Paying, Requests, VarTypes
    <2> QED BY <1>0, <2>2, <2>3, BudgetKept
  <1>4. ASSUME NEW t \in Threads,
               \/ Info(t) \/ ResetHistory(t) \/ CountHistory(t) \/ LoadHistory(t)
               \/ ProviderReturns(t) \/ Deliver(t) \/ DeliverRaises(t) \/ Commit(t)
               \/ Enter(t)
        PROVE  BudgetInv'
    <2>1. Charged' = Charged /\ Requests' = Requests /\ event' = event
      BY <1>4
      DEF Info, ResetHistory, CountHistory, LoadHistory, ProviderReturns, Deliver,
          DeliverRaises, Commit, Enter, Say, Charged, Requests
    <2>2. Paying' \subseteq Paying
      BY <1>0, <1>4
      DEF Info, ResetHistory, CountHistory, LoadHistory, ProviderReturns, Deliver,
          DeliverRaises, Commit, Enter, Say, Paying, VarTypes
    <2> QED BY <1>0, <2>1, <2>2, BudgetKept
  <1>5. ASSUME NEW t \in Threads,
               Claim(t) \/ StoreFails(t) \/ Exit(t) \/ \E e \in Events : Begin(t, e)
        PROVE  BudgetInv'
    <2>1. Charged' = Charged /\ Requests' = Requests
      BY <1>5 DEF Claim, StoreFails, Exit, Begin, Charged, Requests
    <2>2. Paying' \subseteq Paying /\ \A u \in Paying' : event'[u] = event[u]
      BY <1>0, <1>5 DEF Claim, StoreFails, Exit, Begin, Return, Paying, VarTypes
    <2> QED BY <1>0, <2>1, <2>2, BudgetKept
  <1>6. CASE Purge
    <2>1. PurgedRates(rates, Day, clock) = rates
      BY <1>0, DayLasts DEF PurgedRates, BudgetInv, VarTypes
    <2>2. Charged' = Charged /\ Requests' = Requests /\ Paying' = Paying /\ event' = event
      BY <1>6, <2>1 DEF Purge, Charged, Requests, Paying
    <2> QED BY <1>0, <2>2, BudgetKept
  <1>7. CASE Crash
    <2>1. Charged' = Charged /\ Requests' = Requests /\ Paying' = {}
      BY <1>7 DEF Crash, Charged, Requests, Paying
    <2> QED BY <1>0, <2>1, BudgetKept
  <1>8. CASE Tick \/ Quiet \/ UNCHANGED vars
    <2>1. Charged' = Charged /\ Requests' = Requests /\ Paying' = Paying /\ event' = event
      BY <1>8 DEF Tick, Quiet, vars, Charged, Requests, Paying
    <2> QED BY <1>0, <2>1, BudgetKept
  <1> QED
    BY <1>1, <1>2, <1>3, <1>4, <1>5, <1>6, <1>7, <1>8 DEF Next, Step

\* Initially nobody has asked or been charged.
LEMMA InitBudgetInv == Init => BudgetInv
  <1> SUFFICES ASSUME Init PROVE BudgetInv
    OBVIOUS
  <1>1. Requests = {} /\ Paying = {} /\ Charged = {}
    BY DEF Init, Requests, Paying, Charged
  <1>2. TypeInv
    BY InitTypeInv
  <1>3. IsFiniteSet({}) /\ Cardinality({}) = 0
    BY FS_EmptySet
  <1>4. Cardinality(Requests) + Cardinality(Paying) <= Cardinality(Charged)
    BY <1>1, <1>3
  <1>5. Cardinality(Charged) <= DailyLimit
    BY <1>1, <1>3, ServiceAssumption
  <1> QED BY <1>1, <1>2, <1>3, <1>4, <1>5 DEF BudgetInv

\* Within a day the model is asked no more often than the daily budget allows,
\* although the charge and the request are far apart and other threads are
\* charged in between.
THEOREM ServiceBudget == Spec => []BudgetRespected
  <1>1. CASE MaxTime < Day
    <2>1. BudgetInv /\ [Next]_vars => BudgetInv'
      BY <1>1, NextBudgetInv
    <2>2. BudgetInv => BudgetRespected
      <3> SUFFICES ASSUME BudgetInv PROVE Cardinality(Requests) <= DailyLimit
        BY DEF BudgetRespected
      <3>1. IsFiniteSet(Charged)
        BY FS_Subset DEF BudgetInv, TypeInv, Charged
      <3>2. {Cardinality(Paying), Cardinality(Requests), Cardinality(Charged),
             DailyLimit} \subseteq Nat
        BY <3>1, FS_CardinalityType, ServiceAssumption DEF BudgetInv
      <3> QED BY <3>2 DEF BudgetInv
    <2> QED BY <2>1, <2>2, InitBudgetInv, PTL DEF Spec
  <1>2. CASE ~ (MaxTime < Day)
    <2>1. BudgetRespected
      BY <1>2 DEF BudgetRespected
    <2> QED BY <2>1, PTL
  <1> QED BY <1>1, <1>2

-------------------------------------------------------------------------------
(***************************************************************************)
(* While no claim expires, BotService implements EventContract: an event   *)
(* is claimed, asked about and replied to at most once.                    *)
(*                                                                         *)
(* The argument: a claim is inserted only when there is none, and none is  *)
(* deleted before it expires, so that at most one thread ever gets past    *)
(* Claim with a given event - a crash does not give it a second chance,    *)
(* because the claim is in the database.  The calls and posts of an event  *)
(* are therefore those of the one thread that owns it, and how many there  *)
(* are follows from where that thread is.                                  *)
(***************************************************************************)

Claimed(e) == \E c \in claims : c.event = e

\* The thread has won the claim of its event and is still working on it.
Owns(t) == pc[t] \notin {"idle", "claim"}

BeforeRequest == {"enter", "user_limit", "day_limit", "run", "load", "generate"}

\* No claim will expire within the time modelled.
ClaimsLast == \A c \in claims : c.expires > MaxTime

OwnersInv ==
    /\ \A t \in Threads : Owns(t) => Claimed(event[t])
    /\ \A t, u \in Threads : Owns(t) /\ Owns(u) /\ event[t] = event[u] => t = u

\* What has happened to an event, by where its owner is.
EffectsInv ==
    /\ \A e \in Events :
          /\ calls[e] > 0 \/ posted[e] # <<>> => Claimed(e)
          /\ calls[e] <= 1
    /\ \A t \in Threads :
          /\ pc[t] \in BeforeRequest => calls[event[t]] = 0
          /\ pc[t] \in BeforeRequest \cup {"provider", "deliver"}
                => posted[event[t]] = <<>>
          /\ pc[t] = "provider" \/ reply[t] = "answer" => calls[event[t]] = 1
          /\ pc[t] = "append" => posted[event[t]] = <<"answer">>

ClaimInv == TypeInv /\ ClaimsLast /\ OwnersInv /\ EffectsInv

-------------------------------------------------------------------------------
\* A step of an owner that neither asks nor posts, and does not go back.
LEMMA OwnerMoves ==
  ASSUME NEW t \in Threads, NEW stage \in Stages \ {"idle", "claim"},
         NEW text \in Replies \cup {None},
         ClaimInv, Owns(t),
         pc' = [pc EXCEPT ![t] = stage], reply' = [reply EXCEPT ![t] = text],
         UNCHANGED <<claims, event, posted, calls>>,
         stage \in BeforeRequest => pc[t] \in BeforeRequest,
         stage = "deliver" => pc[t] \in BeforeRequest \cup {"provider"},
         stage # "provider" /\ stage # "append",
         text = "answer" => reply[t] = "answer" \/ pc[t] = "provider"
  PROVE  ClaimsLast' /\ OwnersInv' /\ EffectsInv'
  <1>0. VarTypes /\ ClaimsLast /\ OwnersInv /\ EffectsInv
    BY DEF ClaimInv, TypeInv, TypeOK
  <1>1. /\ pc'[t] = stage /\ reply'[t] = text
        /\ \A u \in Threads : u # t => pc'[u] = pc[u] /\ reply'[u] = reply[u]
    BY <1>0 DEF VarTypes
  <1>2. \A u \in Threads : Owns(u)' <=> Owns(u)
    BY <1>1 DEF Owns
  <1>3. ClaimsLast' /\ OwnersInv'
    BY <1>0, <1>2 DEF ClaimsLast, OwnersInv, Claimed
  <1>4. EffectsInv'
    <2>1. \A e \in Events :
            /\ calls'[e] > 0 \/ posted'[e] # <<>> => Claimed(e)'
            /\ calls'[e] <= 1
      BY <1>0 DEF EffectsInv, Claimed
    <2>2. ASSUME NEW u \in Threads
          PROVE  /\ pc'[u] \in BeforeRequest => calls'[event'[u]] = 0
                 /\ pc'[u] \in BeforeRequest \cup {"provider", "deliver"}
                      => posted'[event'[u]] = <<>>
                 /\ pc'[u] = "provider" \/ reply'[u] = "answer"
                      => calls'[event'[u]] = 1
                 /\ pc'[u] = "append" => posted'[event'[u]] = <<"answer">>
      <3>1. CASE u # t
        BY <1>0, <1>1, <3>1 DEF EffectsInv
      <3>2. CASE u = t
        BY <1>0, <1>1, <3>2 DEF EffectsInv, BeforeRequest
      <3> QED BY <3>1, <3>2
    <2> QED BY <2>1, <2>2 DEF EffectsInv
  <1> QED BY <1>3, <1>4

\* A thread leaves, or comes with an event it has not claimed yet.
LEMMA NonOwnerMoves ==
  ASSUME NEW t \in Threads, ClaimInv, TypeInv', ClaimsLast',
         \A e \in Events : Claimed(e) => Claimed(e)',
         pc'[t] \in {"idle", "claim"}, reply'[t] = None,
         \A u \in Threads : u # t =>
            pc'[u] = pc[u] /\ event'[u] = event[u] /\ reply'[u] = reply[u],
         UNCHANGED <<posted, calls>>
  PROVE  OwnersInv' /\ EffectsInv'
  <1>0. VarTypes /\ LocalsInv /\ OwnersInv /\ EffectsInv
    BY DEF ClaimInv, TypeInv, TypeOK
  <1>1. \A u \in Threads : Owns(u)' => u # t /\ Owns(u) /\ event[u] \in Events
    BY <1>0 DEF Owns, LocalsInv
  <1>2. OwnersInv'
    <2>1. ASSUME NEW u \in Threads, Owns(u)' PROVE Claimed(event[u])'
      BY <1>0, <1>1, <2>1 DEF OwnersInv
    <2>2. \A u \in Threads : Owns(u)' => event'[u] = event[u]
      BY <1>1
    <2> QED BY <1>0, <1>1, <2>1, <2>2 DEF OwnersInv, Claimed
  <1>3. EffectsInv'
    <2>1. ASSUME NEW e \in Events
          PROVE  /\ calls'[e] > 0 \/ posted'[e] # <<>> => Claimed(e)'
                 /\ calls'[e] <= 1
      BY <1>0 DEF EffectsInv
    <2>2. ASSUME NEW u \in Threads
          PROVE  /\ pc'[u] \in BeforeRequest => calls'[event'[u]] = 0
                 /\ pc'[u] \in BeforeRequest \cup {"provider", "deliver"}
                      => posted'[event'[u]] = <<>>
                 /\ pc'[u] = "provider" \/ reply'[u] = "answer"
                      => calls'[event'[u]] = 1
                 /\ pc'[u] = "append" => posted'[event'[u]] = <<"answer">>
      <3>1. CASE u # t
        BY <1>0, <3>1 DEF EffectsInv
      <3>2. CASE u = t
        BY <3>2, ServiceAssumption DEF BeforeRequest
      <3> QED BY <3>1, <3>2
    <2> QED BY <2>1, <2>2 DEF EffectsInv
  <1> QED BY <1>2, <1>3

\* A claim outlives every reading of the clock.
LEMMA NowKeepsClaims ==
  ASSUME ClaimInv, NEW t \in Threads
  PROVE  LiveClaims(claims, now[t]) = claims
  <1>1. now[t] \in Nat /\ now[t] <= clock /\ clock \in 0 .. MaxTime /\ MaxTime \in Nat
    BY ServiceAssumption DEF ClaimInv, TypeInv, TypeOK, VarTypes, LocalsInv
  <1>2. \A c \in claims : c.expires \in Int /\ c.expires > MaxTime
    BY DEF ClaimInv, TypeInv, TypeOK, VarTypes, ClaimRows, ClaimsLast
  <1> QED BY <1>1, <1>2 DEF LiveClaims

\* The purge job finds no claim that has expired.
LEMMA PurgeKeepsClaims ==
  ASSUME ClaimInv, Purge
  PROVE  claims' = claims
  <1>1. clock \in 0 .. MaxTime /\ MaxTime \in Nat
    BY ServiceAssumption DEF ClaimInv, TypeInv, TypeOK, VarTypes
  <1>2. \A c \in claims : c.expires \in Int /\ c.expires > MaxTime
    BY DEF ClaimInv, TypeInv, TypeOK, VarTypes, ClaimRows, ClaimsLast
  <1> QED BY <1>1, <1>2 DEF LiveClaims, Purge

\* A claim is won for an event that nobody has dealt with.
LEMMA ClaimWon ==
  ASSUME NEW t \in Threads, MaxTime < EventTTL, ClaimInv, Claim(t)
  PROVE  ClaimsLast' /\ OwnersInv' /\ EffectsInv'
  <1>0. VarTypes /\ LocalsInv /\ ClaimsLast /\ OwnersInv /\ EffectsInv
    BY DEF ClaimInv, TypeInv, TypeOK
  <1>1. pc[t] = "claim" /\ event[t] \in Events /\ reply[t] = None
    BY <1>0 DEF Claim, LocalsInv
  <1>2. /\ now[t] \in Nat /\ now[t] <= MaxTime
        /\ MaxTime \in Nat /\ EventTTL \in Nat /\ clock \in 0 .. MaxTime
    BY <1>0, ServiceAssumption, StoreAssumption DEF VarTypes, LocalsInv
  <1>3. LiveClaims(claims, now[t]) = claims
    BY NowKeepsClaims
  <1>4. UNCHANGED <<posted, calls>>
    BY DEF Claim, world
  <1>5. CASE ClaimWins(claims, event[t], now[t])
    <2>1. ~Claimed(event[t])
      BY <1>3, <1>5 DEF ClaimWins, Claimed
    <2> DEFINE row == [event |-> event[t], expires |-> now[t] + EventTTL]
    <2>2. claims' = claims \cup {row}
      BY <1>3, <1>5 DEF Claim, AfterClaim
    <2>3. pc' = [pc EXCEPT ![t] = "enter"] /\ UNCHANGED <<event, reply>>
      BY <1>5 DEF Claim, Goto, locals
    <2>4. /\ pc'[t] = "enter"
          /\ \A u \in Threads : u # t => pc'[u] = pc[u]
      BY <1>0, <2>3 DEF VarTypes
    <2>5. ClaimsLast'
      BY <1>0, <1>2, <2>2 DEF ClaimsLast
    <2>6. \A f \in Events : Claimed(f)' <=> Claimed(f) \/ f = event[t]
      <3>1. row.event = event[t]
        OBVIOUS
      <3> HIDE DEF row
      <3> QED BY <2>2, <3>1 DEF Claimed
    <2>7. calls[event[t]] = 0 /\ posted[event[t]] = <<>>
      BY <1>0, <1>1, <2>1 DEF EffectsInv, VarTypes
    <2>8. OwnersInv'
      <3>1. ASSUME NEW u \in Threads, Owns(u)'
            PROVE  /\ event'[u] = event[u] /\ event[u] \in Events /\ Claimed(event[u])'
                   /\ u # t => Owns(u) /\ event[u] # event[t]
        <4>1. CASE u = t
          BY <1>1, <2>3, <2>6, <4>1
        <4>2. CASE u # t
          <5>1. Owns(u) /\ event[u] \in Events /\ Claimed(event[u])
            BY <1>0, <2>4, <3>1, <4>2 DEF Owns, LocalsInv, OwnersInv
          <5> QED BY <2>1, <2>3, <2>6, <5>1
        <4> QED BY <4>1, <4>2
      <3> QED BY <1>0, <2>3, <3>1 DEF OwnersInv, Claimed
    <2>9. EffectsInv'
      <3>1. ASSUME NEW e \in Events
            PROVE  /\ calls'[e] > 0 \/ posted'[e] # <<>> => Claimed(e)'
                   /\ calls'[e] <= 1
        BY <1>0, <1>4, <2>6 DEF EffectsInv
      <3>2. ASSUME NEW u \in Threads
            PROVE  /\ pc'[u] \in BeforeRequest => calls'[event'[u]] = 0
                   /\ pc'[u] \in BeforeRequest \cup {"provider", "deliver"}
                        => posted'[event'[u]] = <<>>
                   /\ pc'[u] = "provider" \/ reply'[u] = "answer"
                        => calls'[event'[u]] = 1
                   /\ pc'[u] = "append" => posted'[event'[u]] = <<"answer">>
        <4>1. CASE u # t
          BY <1>0, <1>4, <2>3, <2>4, <4>1 DEF EffectsInv
        <4>2. CASE u = t
          BY <1>1, <1>4, <2>3, <2>4, <2>7, <4>2, ServiceAssumption
        <4> QED BY <4>1, <4>2
      <3> QED BY <3>1, <3>2 DEF EffectsInv
    <2> QED BY <2>5, <2>8, <2>9
  <1>6. CASE ~ClaimWins(claims, event[t], now[t])
    <2>1. Return(t) /\ claims' = claims
      <3>1. claims' = LiveClaims(claims, now[t])
        BY <1>6 DEF Claim, AfterClaim
      <3> QED BY <1>3, <1>6, <3>1 DEF Claim
    <2>2. /\ pc'[t] = "idle" /\ reply'[t] = None
          /\ \A u \in Threads : u # t =>
                pc'[u] = pc[u] /\ event'[u] = event[u] /\ reply'[u] = reply[u]
      BY <1>0, <2>1 DEF Return, Goto, VarTypes
    <2>3. ClaimsLast' /\ \A e \in Events : Claimed(e) => Claimed(e)'
      BY <1>0, <2>1 DEF ClaimsLast, Claimed
    <2>4. TypeInv'
      BY ClaimTypes DEF ClaimInv
    <2> QED BY <1>4, <2>2, <2>3, <2>4, NonOwnerMoves
  <1> QED BY <1>5, <1>6

\* The one request to the model.
LEMMA ModelAsked ==
  ASSUME NEW t \in Threads, ClaimInv, Generate(t)
  PROVE  ClaimsLast' /\ OwnersInv' /\ EffectsInv'
  <1>0. VarTypes /\ LocalsInv /\ ClaimsLast /\ OwnersInv /\ EffectsInv
    BY DEF ClaimInv, TypeInv, TypeOK
  <1>1. /\ pc[t] = "generate" /\ event[t] \in Events /\ reply[t] = None
        /\ UNCHANGED <<claims, event, reply, posted>>
    BY <1>0 DEF Generate, LocalsInv, store, locals
  <1>2. /\ pc'[t] = "provider"
        /\ \A u \in Threads : u # t => pc'[u] = pc[u]
    BY <1>0 DEF Generate, Goto, VarTypes
  <1>3. calls[event[t]] = 0 /\ posted[event[t]] = <<>> /\ Claimed(event[t])
    BY <1>0, <1>1 DEF EffectsInv, OwnersInv, Owns, BeforeRequest
  <1>4. /\ calls'[event[t]] = 1
        /\ \A e \in Events : e # event[t] => calls'[e] = calls[e]
    BY <1>0, <1>1, <1>3 DEF Generate, VarTypes
  <1>5. \A u \in Threads : Owns(u)' <=> Owns(u)
    BY <1>1, <1>2 DEF Owns
  <1>6. ClaimsLast' /\ OwnersInv'
    BY <1>0, <1>1, <1>5 DEF ClaimsLast, OwnersInv, Claimed
  <1>7. EffectsInv'
    <2>1. ASSUME NEW e \in Events
          PROVE  /\ calls'[e] > 0 \/ posted'[e] # <<>> => Claimed(e)'
                 /\ calls'[e] <= 1
      BY <1>0, <1>1, <1>3, <1>4 DEF EffectsInv, Claimed
    <2>2. ASSUME NEW u \in Threads
          PROVE  /\ pc'[u] \in BeforeRequest => calls'[event'[u]] = 0
                 /\ pc'[u] \in BeforeRequest \cup {"provider", "deliver"}
                      => posted'[event'[u]] = <<>>
                 /\ pc'[u] = "provider" \/ reply'[u] = "answer"
                      => calls'[event'[u]] = 1
                 /\ pc'[u] = "append" => posted'[event'[u]] = <<"answer">>
      <3>1. CASE u # t /\ Owns(u)
        <4>1. event[u] # event[t] /\ event[u] \in Events
          BY <1>0, <1>1, <3>1 DEF OwnersInv, Owns, LocalsInv
        <4> QED BY <1>0, <1>1, <1>2, <1>4, <3>1, <4>1 DEF EffectsInv
      <3>2. CASE u # t /\ ~Owns(u)
        <4>1. pc'[u] \in {"idle", "claim"}
          BY <1>2, <3>2 DEF Owns
        <4>2. reply'[u] = None
          BY <1>0, <1>1, <3>2 DEF Owns, LocalsInv
        <4> QED BY <4>1, <4>2, ServiceAssumption DEF BeforeRequest
      <3>3. CASE u = t
        BY <1>1, <1>2, <1>3, <1>4, <3>3 DEF BeforeRequest
      <3> QED BY <3>1, <3>2, <3>3
    <2> QED BY <2>1, <2>2 DEF EffectsInv
  <1> QED BY <1>6, <1>7

\* The one post, or what there is of it.
LEMMA ReplyPosted ==
  ASSUME NEW t \in Threads, ClaimInv, Deliver(t) \/ DeliverRaises(t)
  PROVE  ClaimsLast' /\ OwnersInv' /\ EffectsInv'
  <1>0. VarTypes /\ LocalsInv /\ ClaimsLast /\ OwnersInv /\ EffectsInv
    BY DEF ClaimInv, TypeInv, TypeOK
  <1>1. /\ pc[t] = "deliver" /\ event[t] \in Events /\ reply[t] \in Replies
        /\ UNCHANGED <<claims, event, reply, calls>>
    BY <1>0 DEF Deliver, DeliverRaises, LocalsInv, store, locals
  <1>2. /\ pc'[t] \in {"append", "exit"}
        /\ pc'[t] = "append" => Deliver(t) /\ reply[t] = "answer"
        /\ \A u \in Threads : u # t => pc'[u] = pc[u]
    BY <1>0, <1>1 DEF Deliver, DeliverRaises, Goto, VarTypes
  <1>3. posted[event[t]] = <<>> /\ Claimed(event[t])
    BY <1>0, <1>1 DEF EffectsInv, OwnersInv, Owns
  <1>4. /\ \A e \in Events : e # event[t] => posted'[e] = posted[e]
        /\ Deliver(t) => posted'[event[t]] = <<reply[t]>>
    <2>1. CASE Deliver(t)
      BY <1>0, <1>1, <1>3, <2>1 DEF Deliver, VarTypes
    <2>2. CASE DeliverRaises(t) /\ ~Deliver(t)
      BY <1>0, <1>1, <2>2 DEF DeliverRaises, VarTypes
    <2> QED BY <2>1, <2>2
  <1>5. \A u \in Threads : Owns(u)' <=> Owns(u)
    BY <1>1, <1>2 DEF Owns
  <1>6. ClaimsLast' /\ OwnersInv'
    BY <1>0, <1>1, <1>5 DEF ClaimsLast, OwnersInv, Claimed
  <1>7. EffectsInv'
    <2>1. ASSUME NEW e \in Events
          PROVE  /\ calls'[e] > 0 \/ posted'[e] # <<>> => Claimed(e)'
                 /\ calls'[e] <= 1
      BY <1>0, <1>1, <1>3, <1>4 DEF EffectsInv, Claimed
    <2>2. ASSUME NEW u \in Threads
          PROVE  /\ pc'[u] \in BeforeRequest => calls'[event'[u]] = 0
                 /\ pc'[u] \in BeforeRequest \cup {"provider", "deliver"}
                      => posted'[event'[u]] = <<>>
                 /\ pc'[u] = "provider" \/ reply'[u] = "answer"
                      => calls'[event'[u]] = 1
                 /\ pc'[u] = "append" => posted'[event'[u]] = <<"answer">>
      <3>1. CASE u # t /\ Owns(u)
        <4>1. event[u] # event[t] /\ event[u] \in Events
          BY <1>0, <1>1, <3>1 DEF OwnersInv, Owns, LocalsInv
        <4> QED BY <1>0, <1>1, <1>2, <1>4, <3>1, <4>1 DEF EffectsInv
      <3>2. CASE u # t /\ ~Owns(u)
        <4>1. pc'[u] \in {"idle", "claim"}
          BY <1>2, <3>2 DEF Owns
        <4>2. reply'[u] = None
          BY <1>0, <1>1, <3>2 DEF Owns, LocalsInv
        <4> QED BY <4>1, <4>2, ServiceAssumption DEF BeforeRequest
      <3>3. CASE u = t
        <4>1. reply'[u] = "answer" => calls'[event'[u]] = 1
          BY <1>0, <1>1, <3>3 DEF EffectsInv
        <4> QED BY <1>1, <1>2, <1>4, <3>3, <4>1 DEF BeforeRequest
      <3> QED BY <3>1, <3>2, <3>3
    <2> QED BY <2>1, <2>2 DEF EffectsInv
  <1> QED BY <1>6, <1>7

\* Whatever else an owner does.
OwnerStep(t) ==
    \/ Enter(t) \/ ChargeUser(t) \/ ChargeDay(t) \/ Info(t) \/ ResetHistory(t)
    \/ CountHistory(t) \/ LoadHistory(t) \/ ProviderReturns(t) \/ Commit(t)
    \/ (StoreFails(t) /\ pc[t] # "claim")

\* An owner that neither asks nor posts keeps the account.
LEMMA OwnerActs ==
  ASSUME NEW t \in Threads, ClaimInv,
         OwnerStep(t)
  PROVE  ClaimsLast' /\ OwnersInv' /\ EffectsInv'
  <1>0. VarTypes /\ LocalsInv
    BY DEF ClaimInv, TypeInv, TypeOK
  <1>1. UNCHANGED <<claims, event, posted, calls>>
    BY DEF OwnerStep, Enter, ChargeUser, ChargeDay, Info, ResetHistory, CountHistory,
           LoadHistory, ProviderReturns, Commit, StoreFails, store, locals, world
  <1>2. \E stage \in Stages \ {"idle", "claim"}, text \in Replies \cup {None} :
          /\ pc' = [pc EXCEPT ![t] = stage] /\ reply' = [reply EXCEPT ![t] = text]
          /\ stage \in BeforeRequest => pc[t] \in BeforeRequest
          /\ stage = "deliver" => pc[t] \in BeforeRequest \cup {"provider"}
          /\ stage # "provider" /\ stage # "append"
          /\ text = "answer" => reply[t] = "answer" \/ pc[t] = "provider"
          /\ Owns(t)
    <2>0. reply = [reply EXCEPT ![t] = reply[t]] /\ reply[t] \in Replies \cup {None}
      BY <1>0 DEF VarTypes
    <2> USE DEF Owns, BeforeRequest, Stages
    <2>1. CASE /\ pc[t] \in BeforeRequest \cup {"append"} /\ UNCHANGED reply
               /\ \E stage \in {"user_limit", "day_limit", "run", "load", "generate"} :
                    pc[t] # "append" /\ Goto(t, stage)
      BY <2>0, <2>1 DEF Goto
    <2>2. CASE /\ pc[t] \in BeforeRequest \cup {"provider", "append"}
               /\ UNCHANGED reply /\ Goto(t, "exit")
      BY <2>0, <2>2 DEF Goto
    <2>3. CASE /\ pc[t] \in BeforeRequest \cup {"provider"}
               /\ \E text \in Replies :
                    Say(t, text) /\ (text = "answer" => pc[t] = "provider")
      BY <2>3 DEF Say, Goto
    <2>4. CASE Enter(t) \/ ChargeUser(t) \/ ChargeDay(t) \/ LoadHistory(t)
      BY <2>1, <2>3, <2>4 DEF Enter, ChargeUser, ChargeDay, LoadHistory, locals
    <2>5. CASE Info(t) \/ ResetHistory(t) \/ CountHistory(t) \/ ProviderReturns(t)
      BY <2>2, <2>3, <2>5 DEF Info, ResetHistory, CountHistory, ProviderReturns
    <2>6. CASE Commit(t) \/ (StoreFails(t) /\ pc[t] # "claim")
      BY <2>2, <2>6 DEF Commit, StoreFails, locals
    <2> QED BY <2>4, <2>5, <2>6 DEF OwnerStep
  <1> QED BY <1>1, <1>2, OwnerMoves

\* Steps of no thread, and a crash: every owner is gone, the claims are not.
LEMMA OutsideActs ==
  ASSUME MaxTime < EventTTL, ClaimInv, Purge \/ Crash \/ Tick
  PROVE  ClaimsLast' /\ OwnersInv' /\ EffectsInv'
  <1>0. VarTypes /\ LocalsInv /\ ClaimsLast /\ OwnersInv /\ EffectsInv
    BY DEF ClaimInv, TypeInv, TypeOK
  <1>1. claims' = claims /\ UNCHANGED <<posted, calls>>
    <2>1. CASE Purge
      BY <2>1, PurgeKeepsClaims DEF Purge, world
    <2>2. CASE Crash \/ Tick
      BY <2>2 DEF Crash, Tick, store
    <2> QED BY <2>1, <2>2
  <1>2. ClaimsLast' /\ \A e \in Events : Claimed(e)' <=> Claimed(e)
    BY <1>0, <1>1 DEF ClaimsLast, Claimed
  <1>3. CASE UNCHANGED <<pc, event, reply>>
    BY <1>0, <1>1, <1>2, <1>3 DEF OwnersInv, EffectsInv, Owns, Claimed
  <1>4. CASE Crash
    <2>1. \A u \in Threads : pc'[u] = "idle" /\ reply'[u] = None
      BY <1>4 DEF Crash
    <2>2. OwnersInv'
      BY <2>1 DEF OwnersInv, Owns
    <2>3. EffectsInv'
      BY <1>0, <1>1, <1>2, <2>1, ServiceAssumption DEF EffectsInv, BeforeRequest
    <2> QED BY <1>2, <2>2, <2>3
  <1> QED BY <1>3, <1>4 DEF Purge, Tick, locals

\* Every step keeps the account of claims, requests and posts.
LEMMA NextClaimInv ==
  ASSUME MaxTime < EventTTL, ClaimInv, [Next]_vars
  PROVE  ClaimInv'
  <1>0. TypeInv' /\ VarTypes /\ ClaimsLast /\ OwnersInv /\ EffectsInv
    BY NextTypeInv DEF ClaimInv, TypeInv, TypeOK
  <1> SUFFICES ClaimsLast' /\ OwnersInv' /\ EffectsInv'
    BY <1>0 DEF ClaimInv
  <1>1. ASSUME NEW t \in Threads, Step(t)
        PROVE  ClaimsLast' /\ OwnersInv' /\ EffectsInv'
    <2>1. CASE Return(t) /\ UNCHANGED <<claims, posted, calls>>
      <3>1. /\ pc'[t] = "idle" /\ reply'[t] = None
            /\ \A u \in Threads : u # t =>
                  pc'[u] = pc[u] /\ event'[u] = event[u] /\ reply'[u] = reply[u]
        BY <1>0, <2>1 DEF Return, Goto, VarTypes
      <3>2. ClaimsLast' /\ \A e \in Events : Claimed(e) => Claimed(e)'
        BY <1>0, <2>1 DEF ClaimsLast, Claimed
      <3> QED BY <1>0, <2>1, <3>1, <3>2, NonOwnerMoves
    <2>2. CASE Exit(t) \/ (StoreFails(t) /\ pc[t] = "claim")
      BY <2>1, <2>2 DEF Exit, StoreFails, store, world
    <2>3. \/ Claim(t) \/ Generate(t) \/ Deliver(t) \/ DeliverRaises(t)
          \/ OwnerStep(t) \/ Exit(t) \/ (StoreFails(t) /\ pc[t] = "claim")
      BY <1>1 DEF Step, OwnerStep
    <2>4. CASE Claim(t)
      BY <2>4, ClaimWon
    <2>5. CASE Generate(t)
      BY <2>5, ModelAsked
    <2>6. CASE Deliver(t) \/ DeliverRaises(t)
      BY <2>6, ReplyPosted
    <2>7. CASE OwnerStep(t)
      BY <2>7, OwnerActs
    <2> QED
      BY <2>2, <2>3, <2>4, <2>5, <2>6, <2>7
  <1>2. ASSUME NEW t \in Threads, NEW e \in Events, Begin(t, e)
        PROVE  ClaimsLast' /\ OwnersInv' /\ EffectsInv'
    <2>1. /\ pc'[t] = "claim" /\ reply'[t] = None
          /\ UNCHANGED <<claims, posted, calls>>
          /\ \A u \in Threads : u # t =>
                pc'[u] = pc[u] /\ event'[u] = event[u] /\ reply'[u] = reply[u]
      BY <1>0, <1>2 DEF Begin, Goto, VarTypes, LocalsInv, ClaimInv, TypeInv, store
    <2>2. ClaimsLast' /\ \A f \in Events : Claimed(f) => Claimed(f)'
      BY <1>0, <2>1 DEF ClaimsLast, Claimed
    <2> QED BY <1>0, <2>1, <2>2, NonOwnerMoves
  <1>3. CASE UNCHANGED vars
    BY <1>0, <1>3
    DEF vars, store, locals, world, ClaimsLast, OwnersInv, EffectsInv, Owns, Claimed
  <1>4. CASE Purge \/ Crash \/ Tick
    BY <1>4, OutsideActs
  <1>5. \/ \E t \in Threads : Step(t) \/ \E e \in Events : Begin(t, e)
        \/ Purge \/ Crash \/ Tick \/ UNCHANGED vars
    BY DEF Next, Quiet
  <1> QED BY <1>1, <1>2, <1>3, <1>4, <1>5

\* Nothing is claimed at first.
LEMMA InitClaimInv == Init => ClaimInv
  <1> SUFFICES ASSUME Init PROVE ClaimInv
    OBVIOUS
  <1>1. TypeInv
    BY InitTypeInv
  <1>2. ClaimsLast /\ OwnersInv
    BY DEF Init, ClaimsLast, OwnersInv, Owns
  <1>3. EffectsInv
    BY ServiceAssumption DEF Init, EffectsInv, BeforeRequest
  <1> QED BY <1>1, <1>2, <1>3 DEF ClaimInv

-------------------------------------------------------------------------------
\* The model is asked at most once for an event: duplicates, failures of the
\* store, of the provider and of the post, and crashes notwithstanding.
THEOREM ServicePaidOnce == Spec => []PaidOnce
  <1>1. CASE MaxTime < EventTTL
    <2>1. ClaimInv /\ [Next]_vars => ClaimInv'
      BY <1>1, NextClaimInv
    <2>2. ClaimInv => PaidOnce
      BY DEF ClaimInv, EffectsInv, PaidOnce
    <2> QED BY <2>1, <2>2, InitClaimInv, PTL DEF Spec
  <1>2. CASE ~ (MaxTime < EventTTL)
    <2>1. PaidOnce
      BY <1>2 DEF PaidOnce
    <2> QED BY <2>1, PTL
  <1> QED BY <1>1, <1>2

-------------------------------------------------------------------------------
(* The refinement. *)

\* A step by which no event gets on and nothing new is remembered.
LEMMA StepForgets ==
  ASSUME UNCHANGED <<posted, calls>>, turns' \subseteq turns,
         \A e \in Events : Claimed(e)' <=> Claimed(e)
  PROVE  Contract!Next
  <1>1. \A e \in Events : StageOf(e)' = StageOf(e)
    BY DEF StageOf, Claimed
  <1>2. Contract!Forget
    BY <1>1 DEF Contract!Forget
  <1> QED BY <1>2 DEF Contract!Next

\* A step by which one event gets on.
LEMMA StepMoves ==
  ASSUME NEW e \in Events, NEW from, NEW to, UNCHANGED turns,
         \A f \in Events : f # e => StageOf(f)' = StageOf(f),
         StageOf(e) \in from, StageOf(e)' = to
  PROVE  Contract!Move(e, from, to)
  BY DEF Contract!Move

\* The claim that is won is the first, a duplicate changes nothing.
LEMMA ClaimRefines ==
  ASSUME NEW t \in Threads, NEW e \in Events, event[t] = e,
         MaxTime < EventTTL, ClaimInv, Claim(t)
  PROVE  Contract!Next
  <1>0. VarTypes /\ LocalsInv /\ EffectsInv
    BY DEF ClaimInv, TypeInv, TypeOK, LocalsInv, Claim
  <1>1. UNCHANGED <<posted, calls, turns>>
    BY DEF Claim, world
  <1>2. LiveClaims(claims, now[t]) = claims
    BY NowKeepsClaims
  <1>3. \A f \in Events : f # e => (Claimed(f)' <=> Claimed(f))
    BY <1>2 DEF Claim, AfterClaim, Claimed
  <1>4. CASE Claimed(e)
    <2>1. Claimed(e)'
      BY <1>2, <1>4 DEF Claim, AfterClaim, Claimed
    <2> QED BY <1>1, <1>3, <1>4, <2>1, StepForgets
  <1>5. CASE ~Claimed(e)
    <2>1. Claimed(e)'
      <3>1. ClaimWins(claims, e, now[t])
        BY <1>2, <1>5 DEF ClaimWins, Claimed
      <3> DEFINE row == [event |-> e, expires |-> now[t] + EventTTL]
      <3>2. row \in claims' /\ row.event = e
        BY <3>1 DEF Claim, AfterClaim
      <3> QED BY <3>2 DEF Claimed
    <2>2. calls[e] = 0 /\ posted[e] = <<>>
      BY <1>0, <1>5 DEF EffectsInv, VarTypes
    <2>3. StageOf(e) = "new" /\ StageOf(e)' = "claimed"
      BY <1>1, <1>5, <2>1, <2>2 DEF StageOf, Claimed
    <2>4. \A f \in Events : f # e => StageOf(f)' = StageOf(f)
      BY <1>1, <1>3 DEF StageOf, Claimed
    <2>5. Contract!Claim(e)
      BY <1>0, <1>1, <2>3, <2>4, StepMoves DEF Contract!Claim
    <2> QED BY <1>0, <2>5 DEF Contract!Next
  <1> QED BY <1>4, <1>5

\* The model is asked for an event that has been claimed only.
LEMMA GenerateRefines ==
  ASSUME NEW t \in Threads, NEW e \in Events, event[t] = e, ClaimInv, Generate(t)
  PROVE  Contract!Next
  <1>0. VarTypes /\ LocalsInv /\ OwnersInv /\ EffectsInv
    BY DEF ClaimInv, TypeInv, TypeOK
  <1>1. /\ pc[t] = "generate"
        /\ UNCHANGED <<claims, posted, turns>>
    BY <1>0 DEF Generate, LocalsInv, store, locals
  <1>2. calls[e] = 0 /\ posted[e] = <<>> /\ Claimed(e)
    BY <1>0, <1>1 DEF EffectsInv, OwnersInv, Owns, BeforeRequest
  <1>3. /\ calls'[e] = 1
        /\ \A f \in Events : f # e => calls'[f] = calls[f]
    BY <1>0, <1>1, <1>2 DEF Generate, VarTypes
  <1>4. StageOf(e) = "claimed" /\ StageOf(e)' = "asked"
    BY <1>1, <1>2, <1>3 DEF StageOf, Claimed
  <1>5. \A f \in Events : f # e => StageOf(f)' = StageOf(f)
    BY <1>1, <1>3 DEF StageOf
  <1>6. Contract!Ask(e)
    BY <1>1, <1>4, <1>5, StepMoves DEF Contract!Ask
  <1> QED BY <1>1, <1>6 DEF Contract!Next

\* A post is the first; if it is an answer, the model has been asked for it.
LEMMA DeliveryRefines ==
  ASSUME NEW t \in Threads, NEW e \in Events, event[t] = e,
         ClaimInv, Deliver(t) \/ DeliverRaises(t)
  PROVE  Contract!Next
  <1>0. VarTypes /\ LocalsInv /\ OwnersInv /\ EffectsInv
    BY DEF ClaimInv, TypeInv, TypeOK
  <1>1. /\ pc[t] = "deliver" /\ reply[t] \in Replies
        /\ UNCHANGED <<claims, calls, turns>>
    BY <1>0 DEF Deliver, DeliverRaises, LocalsInv, store, locals
  <1>2. posted[e] = <<>> /\ Claimed(e)
    BY <1>0, <1>1 DEF EffectsInv, OwnersInv, Owns
  <1>3. /\ \A f \in Events : f # e => posted'[f] = posted[f]
        /\ posted'[e] \in {<<>>, <<"part">>, <<reply[t]>>}
    <2>1. CASE Deliver(t)
      BY <1>0, <1>1, <1>2, <2>1 DEF Deliver, VarTypes
    <2>2. CASE DeliverRaises(t) /\ ~Deliver(t)
      <3>1. PICK seen \in {<<>>, <<"part">>, <<reply[t]>>} :
               posted' = [posted EXCEPT ![e] = @ \o seen]
        BY <2>2 DEF DeliverRaises
      <3>2. posted' = [posted EXCEPT ![e] = <<>> \o seen]
        BY <1>2, <3>1
      <3>3. <<>> \o seen = seen
        BY <3>1
      <3> QED BY <1>0, <1>1, <3>1, <3>2, <3>3 DEF VarTypes
    <2> QED BY <2>1, <2>2
  <1>4. \A f \in Events : f # e => StageOf(f)' = StageOf(f)
    BY <1>1, <1>3 DEF StageOf
  <1>5. /\ StageOf(e) = IF calls[e] > 0 THEN "asked" ELSE "claimed"
        /\ reply[t] = "answer" => StageOf(e) = "asked"
    <2>1. StageOf(e) = IF calls[e] > 0 THEN "asked" ELSE "claimed"
      BY <1>2 DEF StageOf, Claimed
    <2>2. reply[t] = "answer" => calls[e] = 1
      BY <1>0 DEF EffectsInv
    <2> QED BY <2>1, <2>2
  <1>6. CASE posted'[e] = <<>>
    <2>1. \A f \in Events : posted'[f] = posted[f]
      BY <1>2, <1>3, <1>6
    <2>2. posted' = posted
      BY <1>0, <2>1 DEF Deliver, DeliverRaises, VarTypes
    <2> QED BY <1>1, <2>2, StepForgets DEF Claimed
  <1>7. CASE posted'[e] = <<"answer">>
    <2>1. reply[t] = "answer"
      BY <1>1, <1>3, <1>7
    <2>2. StageOf(e)' = "answered"
      BY <1>1, <1>7 DEF StageOf
    <2>3. Contract!Answer(e)
      BY <1>1, <1>4, <1>5, <2>1, <2>2, StepMoves DEF Contract!Answer
    <2> QED BY <1>1, <2>3 DEF Contract!Next
  <1>8. CASE posted'[e] \notin {<<>>, <<"answer">>}
    <2>1. StageOf(e)' = "told"
      BY <1>1, <1>8 DEF StageOf
    <2>2. Contract!Tell(e)
      BY <1>1, <1>4, <1>5, <2>1, StepMoves DEF Contract!Tell
    <2> QED BY <1>1, <2>2 DEF Contract!Next
  <1> QED BY <1>6, <1>7, <1>8

\* The exchange that is stored has been answered.
LEMMA CommitRefines ==
  ASSUME NEW t \in Threads, NEW e \in Events, event[t] = e, ClaimInv, Commit(t)
  PROVE  Contract!Next
  <1>0. LocalsInv /\ EffectsInv
    BY DEF ClaimInv, TypeInv, TypeOK
  <1>1. pc[t] = "append" /\ UNCHANGED <<claims, posted, calls>>
    BY <1>0 DEF Commit, LocalsInv, world
  <1>2. StageOf(e) = "answered"
    BY <1>0, <1>1 DEF EffectsInv, StageOf
  <1>3. \A f \in Events : StageOf(f)' = StageOf(f)
    BY <1>1 DEF StageOf
  <1>4. {r.event : r \in turns}' = {r.event : r \in turns} \cup {e}
    <2> DEFINE row(i, role) ==
          [id |-> i, key |-> KeyOf[e], role |-> role, event |-> e,
           at |-> clock]
    <2>1. turns' = turns \cup {row(turnSeq + 1, "user"), row(turnSeq + 2, "assistant")}
      BY DEF Commit, AppendExchange
    <2>2. \A i, role : row(i, role).event = e
      OBVIOUS
    <2> HIDE DEF row
    <2> QED BY <2>1, <2>2
  <1>5. Contract!Keep(e)
    BY <1>1, <1>2, <1>3, <1>4 DEF Contract!Keep
  <1> QED BY <1>1, <1>5 DEF Contract!Next

\* Every step is one of the contract's.
LEMMA NextRefines ==
  ASSUME MaxTime < EventTTL, ClaimInv, [Next]_vars
  PROVE  Contract!Next
  <1>1. ASSUME UNCHANGED <<claims, posted, calls>>, turns' \subseteq turns
        PROVE  Contract!Next
    BY <1>1, StepForgets DEF Claimed
  <1>2. ASSUME NEW t \in Threads, Step(t)
        PROVE  Contract!Next
    <2>0. pc[t] # "idle" => event[t] \in Events
      BY DEF ClaimInv, TypeInv, LocalsInv
    <2>1. CASE Claim(t)
      BY <2>0, <2>1, ClaimRefines DEF Claim
    <2>2. CASE Generate(t)
      BY <2>0, <2>2, GenerateRefines DEF Generate
    <2>3. CASE Deliver(t) \/ DeliverRaises(t)
      BY <2>0, <2>3, DeliveryRefines DEF Deliver, DeliverRaises
    <2>4. CASE Commit(t)
      BY <2>0, <2>4, CommitRefines DEF Commit
    <2>5. CASE ResetHistory(t) \/ CountHistory(t) \/ LoadHistory(t)
      BY <1>1, <2>5 DEF ResetHistory, CountHistory, LoadHistory, Reset, AfterLoad, world
    <2>6. CASE \/ Enter(t) \/ ChargeUser(t) \/ ChargeDay(t) \/ Info(t)
               \/ ProviderReturns(t) \/ StoreFails(t) \/ Exit(t)
      BY <1>1, <2>6 DEF Enter, ChargeUser, ChargeDay, Info, ProviderReturns,
                        StoreFails, Exit, store, world
    <2> QED BY <1>2, <2>1, <2>2, <2>3, <2>4, <2>5, <2>6 DEF Step
  <1>3. ASSUME NEW t \in Threads, NEW e \in Events, Begin(t, e)
        PROVE  Contract!Next
    BY <1>1, <1>3 DEF Begin, store
  <1>4. CASE Purge
    <2>1. claims' = claims
      BY <1>4, PurgeKeepsClaims
    <2>2. turns' \subseteq turns /\ UNCHANGED <<posted, calls>>
      BY <1>4 DEF Purge, PurgedTurns, world
    <2> QED BY <1>1, <2>1, <2>2
  <1>5. CASE Crash \/ Tick \/ UNCHANGED vars
    BY <1>1, <1>5 DEF Crash, Tick, vars, store, world
  <1>6. \/ \E t \in Threads : Step(t) \/ \E e \in Events : Begin(t, e)
        \/ Purge \/ Crash \/ Tick \/ UNCHANGED vars
    BY DEF Next, Quiet
  <1> QED BY <1>2, <1>3, <1>4, <1>5, <1>6

\* While claims last, handle keeps its contract: whatever is delivered twice,
\* fails or crashes, an event goes through claim, request and reply at most once
\* and in this order, and only answers the channel has seen are remembered.
THEOREM ServiceFulfilsContract ==
  ASSUME MaxTime < EventTTL
  PROVE  Spec => FulfilsContract
  <1>1. Init => Contract!Init
    BY DEF Init, Contract!Init, StageOf
  <1>2. ClaimInv /\ [Next]_vars => ClaimInv'
    BY NextClaimInv
  <1>3. ClaimInv /\ [Next]_vars => Contract!Next
    BY NextRefines
  <1> QED
    BY <1>1, <1>2, <1>3, InitClaimInv, PTL DEF Spec, FulfilsContract, Contract!Spec
===============================================================================
