------------------------------ MODULE KeyedMutex ------------------------------
(***************************************************************************)
(* What BotService._conversation_turn promises to the code that runs under *)
(* it: a thread is inside at most one conversation at a time, and no two   *)
(* threads are inside the same conversation.  How the promise is kept - a  *)
(* dictionary of reference-counted locks - is in ConversationLock.         *)
(***************************************************************************)
CONSTANTS Threads,   \* threads that call BotService.handle
          Keys,      \* conversation keys
          None       \* "no conversation"

VARIABLE inside      \* inside[t]: the conversation thread t is in, or None

Init == inside = [t \in Threads |-> None]

\* The body of `with self._conversation_turn(key)` starts.
Acquire(t, k) ==
    /\ inside[t] = None
    /\ \A u \in Threads : inside[u] # k
    /\ inside' = [inside EXCEPT ![t] = k]

\* The body ends, normally or by an exception.
Release(t) ==
    /\ inside[t] # None
    /\ inside' = [inside EXCEPT ![t] = None]

Next == \E t \in Threads : Release(t) \/ \E k \in Keys : Acquire(t, k)

Spec == Init /\ [][Next]_inside
===============================================================================
