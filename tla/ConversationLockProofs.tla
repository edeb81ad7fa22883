------------------------ MODULE ConversationLockProofs ------------------------
(***************************************************************************)
(* Theorems about ConversationLock, for any finite set of threads and any  *)
(* sets of conversations and lock objects.                                 *)
(*                                                                         *)
(* Neither MutualExclusion nor EntryIsCurrent is inductive.  The missing   *)
(* facts are that a lock object is filed under one key only, that `users`  *)
(* counts exactly the threads that hold the object, and that the owner of  *)
(* an object is exactly the thread that is inside with it.                 *)
(***************************************************************************)
EXTENDS ConversationLock, FiniteSetTheorems, TLAPS

\* The threads whose local variable `entry` is e.
Holders(e) == {t \in Threads : entry[t] = e}

\* A thread has a key and an entry exactly while it is in a turn.
LocalsInv ==
    \A t \in Threads :
        IF pc[t] = "idle"
          THEN key[t] = None /\ entry[t] = None
          ELSE key[t] \in Keys /\ entry[t] \in Entries

\* No object is filed under two keys.
DistinctInv ==
    \A k, l \in Keys : locks[k] # None /\ locks[k] = locks[l] => k = l

\* The reference count of a filed object is the number of its holders.
UsersInv ==
    \A k \in Keys, e \in Entries :
        locks[k] = e => users[e] = Cardinality(Holders(e))

\* The owner of an object is the thread inside with it.
OwnerInv ==
    \A e \in Entries, t \in Threads :
        owner[e] = t <=> pc[t] = "inside" /\ entry[t] = e

\* The inductive invariant: it relates the dictionary, the counts and the
\* owners of _conversation_turn to where each thread is.
IndInv ==
    /\ TypeOK
    /\ LocalsInv
    /\ EntryIsCurrent
    /\ NoLeak
    /\ DistinctInv
    /\ UsersInv
    /\ OwnerInv

-------------------------------------------------------------------------------
USE ConstantsAssumption

\* Holders of an object are finitely many.
LEMMA HoldersFinite == \A e : IsFiniteSet(Holders(e))
  <1>1. ASSUME NEW e PROVE IsFiniteSet(Holders(e))
    <2>1. Holders(e) \subseteq Threads
      BY DEF Holders
    <2> QED BY <2>1, FS_Subset
  <1> QED BY <1>1

\* The invariant holds when no thread has called handle yet.
LEMMA InitIndInv == Init => IndInv
  <1> SUFFICES ASSUME Init PROVE IndInv
    OBVIOUS
  <1> USE DEF Init
  <1>1. TypeOK
    BY DEF TypeOK, Stages
  <1>2. LocalsInv /\ EntryIsCurrent /\ NoLeak /\ DistinctInv /\ UsersInv
    BY DEF LocalsInv, EntryIsCurrent, NoLeak, DistinctInv, UsersInv
  <1>3. OwnerInv
    BY DEF OwnerInv
  <1> QED BY <1>1, <1>2, <1>3 DEF IndInv

\* Finding or filing an entry and counting oneself keeps the invariant.
LEMMA RegisterIndInv ==
  ASSUME NEW t \in Threads, NEW k \in Keys, IndInv, Register(t, k)
  PROVE  IndInv'
  <1> USE DEF Register
  <1>0. TypeOK /\ LocalsInv /\ EntryIsCurrent /\ NoLeak /\ DistinctInv
        /\ UsersInv /\ OwnerInv
    BY DEF IndInv
  <1>1. PICK e \in Entries :
          /\ IF locks[k] = None THEN Fresh(e) ELSE locks[k] = e
          /\ locks' = [locks EXCEPT ![k] = e]
          /\ users' = [users EXCEPT ![e] = IF locks[k] = e THEN @ + 1 ELSE 1]
          /\ entry' = [entry EXCEPT ![t] = e]
    OBVIOUS
  <1>2. TypeOK'
    BY <1>0, <1>1 DEF TypeOK, Stages
  <1>3. LocalsInv'
    BY <1>0, <1>1 DEF LocalsInv, TypeOK
  <1>4. EntryIsCurrent'
    <2> SUFFICES ASSUME NEW u \in Threads, pc'[u] # "idle"
                 PROVE  locks'[key'[u]] = entry'[u]
      BY DEF EntryIsCurrent
    <2>1. CASE u = t
      BY <1>0, <1>1, <2>1 DEF TypeOK
    <2>2. CASE u # t
      <3>1. pc[u] # "idle" /\ key'[u] = key[u] /\ entry'[u] = entry[u]
        BY <1>0, <1>1, <2>2 DEF TypeOK
      <3>2. key[u] \in Keys /\ entry[u] \in Entries /\ locks[key[u]] = entry[u]
        BY <1>0, <3>1 DEF LocalsInv, EntryIsCurrent
      <3> QED BY <1>0, <1>1, <3>1, <3>2 DEF TypeOK
    <2> QED BY <2>1, <2>2
  <1>5. NoLeak'
    BY <1>0, <1>1 DEF NoLeak, TypeOK, LocalsInv
  <1>6. DistinctInv'
    BY <1>0, <1>1 DEF DistinctInv, TypeOK, Fresh
  <1>7. UsersInv'
    <2>1. ASSUME NEW l \in Keys, NEW f \in Entries, locks'[l] = f
          PROVE  users'[f] = Cardinality(Holders(f)')
      <3>1. entry[t] = None /\ entry' = [entry EXCEPT ![t] = e]
        BY <1>0, <1>1 DEF LocalsInv
      <3>2. CASE f = e
        <4>1. Holders(e)' = Holders(e) \cup {t} /\ t \notin Holders(e)
          BY <1>0, <3>1 DEF Holders, TypeOK
        <4>2. Cardinality(Holders(e)') = Cardinality(Holders(e)) + 1
          BY <4>1, HoldersFinite, FS_AddElement
        <4>3. CASE locks[k] = e
          <5>1. users[e] = Cardinality(Holders(e)) /\ users'[e] = users[e] + 1
            BY <1>0, <1>1, <4>3 DEF UsersInv, TypeOK
          <5> QED BY <3>2, <4>2, <5>1
        <4>4. CASE locks[k] # e
          <5>1. Holders(e) = {}
            BY <1>1, <4>4 DEF Fresh, Holders
          <5>2. Cardinality(Holders(e)') = 1
            BY <4>2, <5>1, FS_EmptySet
          <5>3. users'[e] = 1
            BY <1>0, <1>1, <4>4 DEF TypeOK
          <5> QED BY <3>2, <5>2, <5>3
        <4> QED BY <4>3, <4>4
      <3>3. CASE f # e
        <4>1. l # k /\ locks[l] = f /\ users'[f] = users[f]
          BY <1>0, <1>1, <2>1, <3>3 DEF TypeOK
        <4>2. Holders(f)' = Holders(f)
          BY <1>0, <3>1, <3>3 DEF Holders, TypeOK
        <4> QED BY <1>0, <4>1, <4>2 DEF UsersInv
      <3> QED BY <3>2, <3>3
    <2> QED BY <2>1 DEF UsersInv
  <1>8. OwnerInv'
    BY <1>0, <1>1 DEF OwnerInv, TypeOK, LocalsInv
  <1> QED BY <1>2, <1>3, <1>4, <1>5, <1>6, <1>7, <1>8 DEF IndInv

\* Being granted the lock keeps the invariant.
LEMMA LockIndInv ==
  ASSUME NEW t \in Threads, IndInv, Lock(t)
  PROVE  IndInv'
  <1> USE DEF Lock
  <1>0. TypeOK /\ LocalsInv /\ EntryIsCurrent /\ NoLeak /\ DistinctInv
        /\ UsersInv /\ OwnerInv
    BY DEF IndInv
  <1>1. entry[t] \in Entries
    BY <1>0 DEF LocalsInv
  <1>2. TypeOK'
    BY <1>0, <1>1 DEF TypeOK, Stages
  <1>3. LocalsInv' /\ EntryIsCurrent' /\ NoLeak' /\ DistinctInv'
    BY <1>0 DEF LocalsInv, EntryIsCurrent, NoLeak, DistinctInv, TypeOK
  <1>4. UsersInv'
    BY <1>0 DEF UsersInv, Holders
  <1>5. OwnerInv'
    <2>1. ASSUME NEW e \in Entries, NEW u \in Threads
          PROVE  owner'[e] = u <=> pc'[u] = "inside" /\ entry'[u] = e
      <3>1. u # None /\ t # None
        OBVIOUS
      <3>2. CASE e = entry[t]
        BY <1>0, <1>1, <3>1, <3>2 DEF OwnerInv, TypeOK
      <3>3. CASE e # entry[t]
        BY <1>0, <1>1, <3>1, <3>3 DEF OwnerInv, TypeOK
      <3> QED BY <3>2, <3>3
    <2> QED BY <2>1 DEF OwnerInv
  <1> QED BY <1>2, <1>3, <1>4, <1>5 DEF IndInv

\* Releasing the lock keeps the invariant.
LEMMA UnlockIndInv ==
  ASSUME NEW t \in Threads, IndInv, Unlock(t)
  PROVE  IndInv'
  <1> USE DEF Unlock
  <1>0. TypeOK /\ LocalsInv /\ EntryIsCurrent /\ NoLeak /\ DistinctInv
        /\ UsersInv /\ OwnerInv
    BY DEF IndInv
  <1>1. entry[t] \in Entries
    BY <1>0 DEF LocalsInv
  <1>2. TypeOK'
    BY <1>0, <1>1 DEF TypeOK, Stages
  <1>3. LocalsInv' /\ EntryIsCurrent' /\ NoLeak' /\ DistinctInv'
    BY <1>0 DEF LocalsInv, EntryIsCurrent, NoLeak, DistinctInv, TypeOK
  <1>4. UsersInv'
    BY <1>0 DEF UsersInv, Holders
  <1>5. OwnerInv'
    <2>1. ASSUME NEW e \in Entries, NEW u \in Threads
          PROVE  owner'[e] = u <=> pc'[u] = "inside" /\ entry'[u] = e
      <3>1. u # None
        OBVIOUS
      <3>2. owner[entry[t]] = t
        BY <1>0, <1>1 DEF OwnerInv
      <3>3. CASE e = entry[t]
        BY <1>0, <1>1, <3>1, <3>2, <3>3 DEF OwnerInv, TypeOK
      <3>4. CASE e # entry[t]
        BY <1>0, <1>1, <3>1, <3>4 DEF OwnerInv, TypeOK
      <3> QED BY <3>3, <3>4
    <2> QED BY <2>1 DEF OwnerInv
  <1> QED BY <1>2, <1>3, <1>4, <1>5 DEF IndInv

\* A thread that leaves drops the entry only when nobody else holds it.
LEMMA LeaveIndInv ==
  ASSUME NEW t \in Threads, IndInv, Leave(t)
  PROVE  IndInv'
  <1> USE DEF Leave
  <1> DEFINE k == key[t]
             e == entry[t]
  <1>0. TypeOK /\ LocalsInv /\ EntryIsCurrent /\ NoLeak /\ DistinctInv
        /\ UsersInv /\ OwnerInv
    BY DEF IndInv
  <1>1. k \in Keys /\ e \in Entries /\ locks[k] = e
    BY <1>0 DEF LocalsInv, EntryIsCurrent
  <1>2. t \in Holders(e) /\ IsFiniteSet(Holders(e))
    BY HoldersFinite DEF Holders
  <1>3. users[e] = Cardinality(Holders(e)) /\ users[e] \in Nat
    BY <1>0, <1>1 DEF UsersInv, TypeOK
  <1>4. /\ Cardinality(Holders(e) \ {t}) = users[e] - 1
        /\ users[e] # 0
        /\ IsFiniteSet(Holders(e) \ {t})
    BY <1>2, <1>3, FS_RemoveElement, FS_EmptySet
  <1>5. ASSUME users[e] = 1 PROVE \A u \in Threads : entry[u] = e => u = t
    <2>1. Holders(e) \ {t} = {}
      <3>1. Cardinality(Holders(e) \ {t}) = 0
        BY <1>4, <1>5
      <3> QED BY <1>4, <3>1, FS_EmptySet
    <2> QED BY <2>1 DEF Holders
  <1>6. ASSUME users[e] # 1 PROVE \E u \in Threads : u # t /\ entry[u] = e
    <2>1. Holders(e) \ {t} # {}
      <3>1. Cardinality(Holders(e) \ {t}) # 0
        BY <1>3, <1>4, <1>6
      <3> QED BY <1>4, <3>1, FS_EmptySet
    <2> QED BY <2>1 DEF Holders
  <1>7. TypeOK'
    <2>1. users[e] - 1 \in Nat
      BY <1>3, <1>4
    <2> QED BY <1>0, <1>1, <2>1 DEF TypeOK, Stages
  <1>8. LocalsInv'
    BY <1>0 DEF LocalsInv, TypeOK
  <1>9. EntryIsCurrent'
    <2>1. ASSUME NEW u \in Threads, pc'[u] # "idle"
          PROVE  locks'[key'[u]] = entry'[u]
      <3>1. u # t /\ pc[u] # "idle" /\ key'[u] = key[u] /\ entry'[u] = entry[u]
        BY <1>0, <2>1 DEF TypeOK
      <3>2. key[u] \in Keys /\ entry[u] \in Entries /\ locks[key[u]] = entry[u]
        BY <1>0, <3>1 DEF LocalsInv, EntryIsCurrent
      <3>3. CASE users[e] = 1
        <4>1. key[u] # k
          BY <1>1, <1>5, <3>1, <3>2, <3>3
        <4> QED BY <1>0, <3>1, <3>2, <3>3, <4>1 DEF TypeOK
      <3>4. CASE users[e] # 1
        BY <3>1, <3>2, <3>4
      <3> QED BY <3>3, <3>4
    <2> QED BY <2>1 DEF EntryIsCurrent
  <1>10. NoLeak'
    <2>1. ASSUME NEW l \in Keys, locks'[l] # None
          PROVE  \E u \in Threads : key'[u] = l
      <3>1. locks[l] # None /\ (l = k => users[e] # 1)
        BY <1>0, <1>1, <2>1 DEF TypeOK
      <3>2. CASE l = k
        <4>1. PICK u \in Threads : u # t /\ entry[u] = e
          BY <1>6, <3>1, <3>2
        <4>2. key[u] \in Keys /\ locks[key[u]] = e
          BY <1>0, <1>1, <4>1 DEF LocalsInv, EntryIsCurrent
        <4>3. key[u] = k
          BY <1>0, <1>1, <4>2 DEF DistinctInv
        <4> QED BY <1>0, <3>2, <4>1, <4>3 DEF TypeOK
      <3>3. CASE l # k
        <4>1. PICK u \in Threads : key[u] = l
          BY <1>0, <3>1 DEF NoLeak
        <4> QED BY <1>0, <3>3, <4>1 DEF TypeOK
      <3> QED BY <3>2, <3>3
    <2> QED BY <2>1 DEF NoLeak
  <1>11. DistinctInv'
    BY <1>0, <1>1 DEF DistinctInv, TypeOK
  <1>12. UsersInv'
    <2>1. ASSUME NEW l \in Keys, NEW f \in Entries, locks'[l] = f
          PROVE  users'[f] = Cardinality(Holders(f)')
      <3>1. locks[l] = f
        BY <1>0, <1>1, <2>1 DEF TypeOK
      <3>2. CASE f = e
        <4>1. Holders(f)' = Holders(e) \ {t}
          BY <1>0, <1>1, <3>2 DEF Holders, TypeOK
        <4> QED BY <1>0, <1>1, <1>4, <3>2, <4>1 DEF TypeOK
      <3>3. CASE f # e
        <4>1. Holders(f)' = Holders(f) /\ users'[f] = users[f]
          BY <1>0, <1>1, <3>3 DEF Holders, TypeOK
        <4> QED BY <1>0, <3>1, <4>1 DEF UsersInv
      <3> QED BY <3>2, <3>3
    <2> QED BY <2>1 DEF UsersInv
  <1>13. OwnerInv'
    BY <1>0, <1>1 DEF OwnerInv, TypeOK
  <1> QED BY <1>7, <1>8, <1>9, <1>10, <1>11, <1>12, <1>13 DEF IndInv

\* Every step keeps the invariant.
LEMMA NextIndInv == IndInv /\ [Next]_vars => IndInv'
  <1> SUFFICES ASSUME IndInv, [Next]_vars PROVE IndInv'
    OBVIOUS
  <1>1. ASSUME NEW t \in Threads, NEW k \in Keys, Register(t, k) PROVE IndInv'
    BY <1>1, RegisterIndInv
  <1>2. ASSUME NEW t \in Threads, Lock(t) PROVE IndInv'
    BY <1>2, LockIndInv
  <1>3. ASSUME NEW t \in Threads, Unlock(t) PROVE IndInv'
    BY <1>3, UnlockIndInv
  <1>4. ASSUME NEW t \in Threads, Leave(t) PROVE IndInv'
    BY <1>4, LeaveIndInv
  <1>5. CASE UNCHANGED vars
    BY <1>5 DEF vars, IndInv, TypeOK, LocalsInv, EntryIsCurrent, NoLeak,
                DistinctInv, UsersInv, OwnerInv, Holders
  <1> QED BY <1>1, <1>2, <1>3, <1>4, <1>5 DEF Next, Step

\* Threads inside one conversation own one object, hence are one thread.
LEMMA IndInvImpliesExclusion == IndInv => MutualExclusion
  <1> SUFFICES ASSUME IndInv,
                      NEW t \in Threads, NEW u \in Threads,
                      pc[t] = "inside", pc[u] = "inside", key[t] = key[u]
               PROVE  t = u
    BY DEF MutualExclusion
  <1>1. entry[t] \in Entries /\ entry[u] = entry[t]
    BY DEF IndInv, LocalsInv, EntryIsCurrent
  <1>2. owner[entry[t]] = t /\ owner[entry[t]] = u
    BY <1>1 DEF IndInv, OwnerInv
  <1> QED BY <1>2

-------------------------------------------------------------------------------
\* The dictionary, the counts and the owners agree in every reachable state,
\* whatever the number of threads, conversations and lock objects.
THEOREM LockInvariant == Spec => []IndInv
  BY InitIndInv, NextIndInv, PTL DEF Spec

\* Variables keep their types; in particular no count becomes negative.
THEOREM LockTypeCorrect == Spec => []TypeOK
  <1>1. IndInv => TypeOK
    BY DEF IndInv
  <1> QED BY <1>1, LockInvariant, PTL

\* No two threads are ever inside the same conversation.
THEOREM LockExclusion == Spec => []MutualExclusion
  BY IndInvImpliesExclusion, LockInvariant, PTL

\* The finally block of _conversation_turn always deletes the entry it means
\* to delete, and a newcomer always finds the entry that is in use.
THEOREM LockEntryCurrent == Spec => []EntryIsCurrent
  <1>1. IndInv => EntryIsCurrent
    BY DEF IndInv
  <1> QED BY <1>1, LockInvariant, PTL

\* The dictionary holds no entry that no thread uses.
THEOREM LockNoLeak == Spec => []NoLeak
  <1>1. IndInv => NoLeak
    BY DEF IndInv
  <1> QED BY <1>1, LockInvariant, PTL

-------------------------------------------------------------------------------
\* Before any turn nobody is inside.
LEMMA InitRefines == Init => Mutex!Init
  BY DEF Init, Mutex!Init, Inside

\* A lock that is granted is an Acquire of a free conversation, a release is
\* a Release, and registering or leaving changes nothing the client can see.
LEMMA NextRefines == IndInv /\ [Next]_vars => [Mutex!Next]_Inside
  <1> SUFFICES ASSUME IndInv, [Next]_vars PROVE [Mutex!Next]_Inside
    OBVIOUS
  <1>0. TypeOK /\ LocalsInv /\ EntryIsCurrent /\ OwnerInv
    BY DEF IndInv
  <1>1. ASSUME NEW t \in Threads, NEW k \in Keys, Register(t, k)
        PROVE  Inside' = Inside
    BY <1>0, <1>1 DEF Register, Inside, TypeOK
  <1>2. ASSUME NEW t \in Threads, Lock(t)
        PROVE  Mutex!Acquire(t, key[t]) /\ key[t] \in Keys
    <2>1. key[t] \in Keys /\ entry[t] \in Entries /\ Inside[t] = None
      BY <1>0, <1>2 DEF Lock, LocalsInv, Inside
    <2>2. ASSUME NEW u \in Threads, Inside[u] = key[t] PROVE FALSE
      <3>1. pc[u] = "inside" /\ key[u] = key[t]
        BY <2>1, <2>2 DEF Inside
      <3>2. entry[u] = entry[t]
        BY <1>0, <1>2, <3>1 DEF EntryIsCurrent, Lock
      <3>3. owner[entry[t]] = u /\ u # None
        BY <1>0, <2>1, <3>1, <3>2 DEF OwnerInv
      <3> QED BY <1>2, <3>3 DEF Lock
    <2>3. Inside' = [Inside EXCEPT ![t] = key[t]]
      BY <1>0, <1>2 DEF Lock, Inside, TypeOK
    <2> QED BY <2>1, <2>2, <2>3 DEF Mutex!Acquire
  <1>3. ASSUME NEW t \in Threads, Unlock(t) PROVE Mutex!Release(t)
    <2>1. Inside[t] # None
      BY <1>0, <1>3 DEF Unlock, LocalsInv, Inside
    <2>2. Inside' = [Inside EXCEPT ![t] = None]
      BY <1>0, <1>3 DEF Unlock, Inside, TypeOK
    <2> QED BY <2>1, <2>2 DEF Mutex!Release
  <1>4. ASSUME NEW t \in Threads, Leave(t) PROVE Inside' = Inside
    BY <1>0, <1>4 DEF Leave, Inside, TypeOK
  <1>5. CASE UNCHANGED vars
    BY <1>5 DEF vars, Inside
  <1> QED BY <1>1, <1>2, <1>3, <1>4, <1>5 DEF Next, Step, Mutex!Next

\* The dictionary of reference-counted locks implements the keyed mutex.
THEOREM LockRefinesMutex == Spec => RefinesMutex
  <1>1. Spec => Mutex!Init /\ [][Mutex!Next]_Inside
    BY InitRefines, NextRefines, LockInvariant, PTL DEF Spec
  <1> QED BY <1>1 DEF RefinesMutex, Mutex!Spec
===============================================================================
