--------------------------- MODULE ConversationLock ---------------------------
(***************************************************************************)
(* BotService._conversation_turn: one lock per conversation, created when  *)
(* the first thread asks for it and dropped when the last thread is done.  *)
(*                                                                         *)
(* The two `with self._conversation_lock_guard` blocks contain no blocking *)
(* call, so each is one action.  Waiting for entry.lock is an action of    *)
(* its own: between the first guarded block and the lock any number of     *)
(* other threads may register, lock, unlock and leave.                     *)
(***************************************************************************)
EXTENDS Naturals, FiniteSets

CONSTANTS Threads,   \* threads that call BotService.handle
          Keys,      \* conversation keys
          Entries,   \* identities of _ConversationLock objects
          None

ASSUME ConstantsAssumption ==
    /\ IsFiniteSet(Threads)
    /\ None \notin Threads \cup Keys \cup Entries

VARIABLES
    locks,   \* _conversation_locks: the entry filed under each key, or None
    users,   \* entry.users
    owner,   \* the thread that holds entry.lock, or None
    pc,      \* where a thread is in _conversation_turn
    key,     \* the key a thread entered with, or None
    entry    \* the thread's local variable `entry`, or None

vars == <<locks, users, owner, pc, key, entry>>

Stages == {"idle", "waiting", "inside", "leaving"}

Init ==
    /\ locks = [k \in Keys |-> None]
    /\ users = [e \in Entries |-> 0]
    /\ owner = [e \in Entries |-> None]
    /\ pc = [t \in Threads |-> "idle"]
    /\ key = [t \in Threads |-> None]
    /\ entry = [t \in Threads |-> None]

-------------------------------------------------------------------------------
\* An object nothing refers to: the identity a new _ConversationLock may get.
Fresh(e) ==
    /\ \A k \in Keys : locks[k] # e
    /\ \A u \in Threads : entry[u] # e

\* Slip: a thread that finds an entry forgets to count itself.
RegisterUncounted(t, k) ==
    /\ pc[t] = "idle"
    /\ \E e \in Entries :
          /\ IF locks[k] = None THEN Fresh(e) ELSE locks[k] = e
          /\ locks' = [locks EXCEPT ![k] = e]
          /\ users' = [users EXCEPT ![e] = IF locks[k] = e THEN @ ELSE 1]
          /\ entry' = [entry EXCEPT ![t] = e]
    /\ key' = [key EXCEPT ![t] = k]
    /\ pc' = [pc EXCEPT ![t] = "waiting"]
    /\ UNCHANGED owner

\* First guarded block: look the entry up, create and file it when there is
\* none, and count this thread among its users.
Register(t, k) ==
    /\ pc[t] = "idle"
    /\ \E e \in Entries :
          /\ IF locks[k] = None THEN Fresh(e) ELSE locks[k] = e
          /\ locks' = [locks EXCEPT ![k] = e]
          /\ users' = [users EXCEPT ![e] = IF locks[k] = e THEN @ + 1 ELSE 1]
          /\ entry' = [entry EXCEPT ![t] = e]
    /\ key' = [key EXCEPT ![t] = k]
    /\ pc' = [pc EXCEPT ![t] = "waiting"]
    /\ UNCHANGED owner

\* Slip: the guarded blocks are taken for mutual exclusion enough.
LockUnguarded(t) ==
    /\ pc[t] = "waiting"
    /\ owner' = [owner EXCEPT ![entry[t]] = t]
    /\ pc' = [pc EXCEPT ![t] = "inside"]
    /\ UNCHANGED <<locks, users, key, entry>>

\* `with entry.lock:` is granted.
Lock(t) ==
    /\ pc[t] = "waiting"
    /\ owner[entry[t]] = None
    /\ owner' = [owner EXCEPT ![entry[t]] = t]
    /\ pc' = [pc EXCEPT ![t] = "inside"]
    /\ UNCHANGED <<locks, users, key, entry>>

\* Slip: the body ends by an exception and nobody releases the lock.
UnlockForgotten(t) ==
    /\ pc[t] = "inside"
    /\ pc' = [pc EXCEPT ![t] = "leaving"]
    /\ UNCHANGED <<locks, users, owner, key, entry>>

\* The body is over and entry.lock is released.
Unlock(t) ==
    /\ pc[t] = "inside"
    /\ owner' = [owner EXCEPT ![entry[t]] = None]
    /\ pc' = [pc EXCEPT ![t] = "leaving"]
    /\ UNCHANGED <<locks, users, key, entry>>

\* Slip: every thread drops the entry, whoever else still uses it.
LeaveAlwaysDrops(t) ==
    /\ pc[t] = "leaving"
    /\ users' = [users EXCEPT ![entry[t]] = @ - 1]
    /\ locks' = [locks EXCEPT ![key[t]] = None]
    /\ key' = [key EXCEPT ![t] = None]
    /\ entry' = [entry EXCEPT ![t] = None]
    /\ pc' = [pc EXCEPT ![t] = "idle"]
    /\ UNCHANGED owner

\* Slip: the count is compared before it is decremented.
LeaveComparesFirst(t) ==
    /\ pc[t] = "leaving"
    /\ users' = [users EXCEPT ![entry[t]] = @ - 1]
    /\ locks' = IF users[entry[t]] = 0
                  THEN [locks EXCEPT ![key[t]] = None]
                  ELSE locks
    /\ key' = [key EXCEPT ![t] = None]
    /\ entry' = [entry EXCEPT ![t] = None]
    /\ pc' = [pc EXCEPT ![t] = "idle"]
    /\ UNCHANGED owner

\* Second guarded block (the `finally`): the last user drops the entry.
Leave(t) ==
    /\ pc[t] = "leaving"
    /\ users' = [users EXCEPT ![entry[t]] = @ - 1]
    /\ locks' = IF users[entry[t]] = 1
                  THEN [locks EXCEPT ![key[t]] = None]
                  ELSE locks
    /\ key' = [key EXCEPT ![t] = None]
    /\ entry' = [entry EXCEPT ![t] = None]
    /\ pc' = [pc EXCEPT ![t] = "idle"]
    /\ UNCHANGED owner

Step(t) == Lock(t) \/ Unlock(t) \/ Leave(t)

Next == \E t \in Threads : Step(t) \/ \E k \in Keys : Register(t, k)

Spec == Init /\ [][Next]_vars

\* A thread that has registered keeps running: the body of the turn is bounded
\* by the provider and post timeouts, and a free lock goes to some waiter.
\* Which waiter is not promised, so the fairness is weak.
FairSpec == Spec /\ \A t \in Threads : WF_vars(Step(t))

-------------------------------------------------------------------------------
\* Every variable holds a value of its type; `users` never drops below zero.
TypeOK ==
    /\ locks \in [Keys -> Entries \cup {None}]
    /\ users \in [Entries -> Nat]
    /\ owner \in [Entries -> Threads \cup {None}]
    /\ pc \in [Threads -> Stages]
    /\ key \in [Threads -> Keys \cup {None}]
    /\ entry \in [Threads -> Entries \cup {None}]

\* Two threads are never inside the same conversation, although each may have
\* found, created or outlived a different lock object for it.
MutualExclusion ==
    \A t, u \in Threads :
        pc[t] = "inside" /\ pc[u] = "inside" /\ key[t] = key[u] => t = u

\* The entry a thread holds is the one filed under its key until the thread is
\* done: a newcomer finds that entry, and `del` in the finally block neither
\* fails nor drops an entry that belongs to somebody else.
EntryIsCurrent ==
    \A t \in Threads : pc[t] # "idle" => locks[key[t]] = entry[t]

\* No entry stays behind when its last user has gone (the dictionary would
\* otherwise grow with every thread ever mentioned).
NoLeak ==
    \A k \in Keys : locks[k] # None => \E t \in Threads : key[t] = k

\* A conversation somebody waits for is entered by some waiter.
Progress ==
    \A k \in Keys :
        (\E t \in Threads : pc[t] = "waiting" /\ key[t] = k)
            ~> (\E t \in Threads : pc[t] = "inside" /\ key[t] = k)

\* What the client sees: threads between Lock and Unlock are inside.
Inside == [t \in Threads |-> IF pc[t] = "inside" THEN key[t] ELSE None]

Mutex == INSTANCE KeyedMutex WITH inside <- Inside

\* The dictionary of counted locks implements the keyed mutex.
RefinesMutex == Mutex!Spec
===============================================================================
