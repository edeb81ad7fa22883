-------------------------- MODULE SlackAdapterProofs --------------------------
(***************************************************************************)
(* Theorems about SlackAdapter, for any mentions and threads, any number   *)
(* of workers and any queue size.                                          *)
(*                                                                         *)
(* The heart of the invariant is that a Slack thread has at most one       *)
(* mention in the adapter: on its way to the queue, in the queue, or with  *)
(* a worker.  The waiters of a thread and the active threads then say      *)
(* exactly where that mention is.  The rest relates the queues, their task *)
(* counts and the pills to how far close() has come.                       *)
(***************************************************************************)
EXTENDS SlackAdapter, FiniteSetTheorems, SequenceTheorems, TLAPS

\* Where a worker has a mention in its hands, and where it has none.
HasMention(w) == worker[w] \in {"check", "begin", "handle", "finish"}
InTurn(w) == worker[w] \in {"handle", "finish"}
Empty == {"unstarted", "get", "gone"}

\* The mention that a call of receive_mention has registered.
Coming(d) == receiver.at \in {"put", "cancel"} /\ receiver.of = d

Waiting(d) == Queued(d) \/ Held(d) \/ Coming(d)

\* The stages of close() from which there is, for ever: no mention in the
\* queue, no mention with a worker, and a pill for every worker.
Discarded == {"discard_notices", "join_jobs", "join_notices", "pills", "join_workers", "ended"}
Joined == {"join_notices", "pills", "join_workers", "ended"}
Pilled == {"pills", "join_workers", "ended"}

Running == {"begin", "connect", "wait", "refuse"}

TypeInv ==
    /\ queueSize \in Nat \ {0}
    /\ accepting \in BOOLEAN /\ stopping \in BOOLEAN /\ connected \in BOOLEAN
    /\ receiver \in {Free} \cup [at : {"put", "cancel", "notice"}, of : Deliveries]
    /\ jobs \in Seq(Deliveries \cup {Pill}) /\ unfinished \in Nat
    /\ waiters \in [Threads -> Seq(Deliveries)] /\ active \subseteq Threads
    /\ worker \in [Workers -> Empty \cup {"check", "begin", "handle", "finish", "account"}]
    /\ job \in [Workers -> Deliveries \cup {Pill, None}]
    /\ main \in Running \cup {"stop", "discard_jobs"} \cup Discarded
    /\ pills \in Nat
    /\ DOMAIN outcome = Deliveries

\* What a worker holds is what its stage says.
HandsInv ==
    \A w \in Workers :
        /\ worker[w] \in Empty <=> job[w] = None
        /\ HasMention(w) => job[w] \in Deliveries

\* No two mentions of a thread are in the queue, with the workers, or coming.
QueuedApart ==
    \A i, k \in 1 .. Len(jobs) :
        i # k /\ jobs[i] # Pill /\ jobs[k] # Pill => ThreadOf[jobs[i]] # ThreadOf[jobs[k]]

HeldApart ==
    \A w, v \in Workers :
        w # v /\ HasMention(w) /\ HasMention(v) => ThreadOf[job[w]] # ThreadOf[job[v]]

QueuedHeldApart ==
    \A i \in 1 .. Len(jobs), w \in Workers :
        jobs[i] # Pill /\ HasMention(w) => ThreadOf[jobs[i]] # ThreadOf[job[w]]

ComingApart ==
    \A d \in Deliveries : Coming(d) =>
        /\ \A i \in 1 .. Len(jobs) : jobs[i] # Pill => ThreadOf[jobs[i]] # ThreadOf[d]
        /\ \A w \in Workers : HasMention(w) => ThreadOf[job[w]] # ThreadOf[d]

\* _turn_waiters and _active_turns say where the mention of a thread is.
WaitersInv ==
    \A k \in Threads :
        waiters[k] = <<>> \/ \E d \in Deliveries : waiters[k] = <<d>> /\ ThreadOf[d] = k /\ Waiting(d)

WaitingInv == \A d \in Deliveries : Waiting(d) => waiters[ThreadOf[d]] = <<d>>

ActiveInv ==
    \A k \in Threads : k \in active <=> \E w \in Workers : InTurn(w) /\ ThreadOf[job[w]] = k

PlacesInv ==
    /\ QueuedApart /\ HeldApart /\ QueuedHeldApart /\ ComingApart
    /\ WaitersInv /\ WaitingInv /\ ActiveInv

\* The task count of _jobs.
Loaded == {w \in Workers : job[w] # None}

JobsInv ==
    /\ Len(jobs) <= queueSize
    /\ unfinished = Len(jobs) + Cardinality(Loaded)

\* The queue of notices and its task count.
NoticesInv ==
    /\ notices \in Seq(Deliveries \cup {Pill}) /\ Len(notices) <= 1 /\ unposted \in Nat
    /\ notice \in Deliveries \cup {Pill, None}
    /\ herald \in Empty <=> notice = None
    /\ unposted = Len(notices) + IF notice = None THEN 0 ELSE 1

\* How far run() and close() are tells what mentions there can still be.
StageInv ==
    /\ accepting <=> main \in Running
    /\ stopping <=> main \notin Running \cup {"stop"}
    /\ ~accepting => receiver = Free
    /\ main = "begin" =>
         /\ ~connected /\ receiver = Free /\ jobs = <<>> /\ herald = "unstarted"
         /\ \A w \in Workers : worker[w] = "unstarted"
    /\ main \in Discarded => \A i \in 1 .. Len(jobs) : jobs[i] = Pill
    /\ main \in Joined => \A w \in Workers : job[w] \notin Deliveries
    /\ main = "ended" => /\ jobs = <<>>
                         /\ \A w \in Workers : worker[w] \in {"unstarted", "gone"}

\* Each pill is in the queue, or has reached a worker of its own.
Swallowed == {w \in Workers : worker[w] = "gone" \/ job[w] = Pill}

PillsInv ==
    /\ main \notin Pilled =>
         /\ pills = 0 /\ Swallowed = {}
         /\ \A i \in 1 .. Len(jobs) : jobs[i] # Pill
    /\ main \in Pilled => Len(jobs) + Cardinality(Swallowed) = pills
    /\ main = "join_workers" => pills = Cardinality(Workers)

\* An accepted mention is in the queue, or with a worker that has not finished it.
AcceptedInv ==
    \A d \in Deliveries : outcome[d] = "accepted" =>
        Queued(d) \/ \E w \in Workers : worker[w] \in {"check", "begin", "handle"} /\ job[w] = d

IndInv ==
    /\ TypeInv /\ HandsInv /\ PlacesInv /\ JobsInv /\ NoticesInv
    /\ StageInv /\ PillsInv /\ AcceptedInv

-------------------------------------------------------------------------------
USE SlackAssumption

\* deque.remove on the only waiter of a thread empties the deque.
LEMMA RemoveOnly == ASSUME NEW d PROVE RemoveFirst(<<d>>, d) = <<>>
  <1> DEFINE I == {i \in 1 .. Len(<<d>>) : <<d>>[i] = d}
  <1>1. Len(<<d>>) = 1 /\ <<d>>[1] = d
    OBVIOUS
  <1>2. I = {1}
    BY <1>1
  <1>3. (CHOOSE x \in {1} : \A y \in {1} : x <= y) = 1
    OBVIOUS
  <1>4. SelectInSeq(<<d>>, LAMBDA v : v = d) = 1
    BY <1>2, <1>3 DEF SelectInSeq, Min
  <1>5. RemoveFirst(<<d>>, d) = RemoveAt(<<d>>, 1)
    BY <1>1, <1>4 DEF RemoveFirst
  <1>6. SubSeq(<<d>>, 1, 0) = <<>> /\ SubSeq(<<d>>, 2, 1) = <<>>
    OBVIOUS
  <1> QED BY <1>1, <1>5, <1>6 DEF RemoveAt

\* What the queue holds is its head and what its tail holds.
LEMMA QueuedHead ==
  ASSUME TypeInv, jobs # <<>>, jobs' = Tail(jobs)
  PROVE  \A e : Queued(e) <=> Queued(e)' \/ e = Head(jobs)
  <1>1. /\ jobs \in Seq(Deliveries \cup {Pill}) /\ Len(jobs) \in Nat \ {0} /\ Head(jobs) = jobs[1]
        /\ jobs' \in Seq(Deliveries \cup {Pill}) /\ Len(jobs') = Len(jobs) - 1
        /\ \A i \in 1 .. Len(jobs') : jobs'[i] = jobs[i + 1]
    BY HeadTailProperties, EmptySeq DEF TypeInv
  <1>2. DOMAIN jobs = 1 .. Len(jobs) /\ DOMAIN jobs' = 1 .. Len(jobs')
    BY <1>1, LenProperties
  <1>3. ASSUME NEW e, Queued(e) PROVE Queued(e)' \/ e = Head(jobs)
    <2>1. PICK i \in 1 .. Len(jobs) : jobs[i] = e
      BY <1>2, <1>3 DEF Queued
    <2>2. CASE i # 1
      <3>1. i - 1 \in 1 .. Len(jobs') /\ jobs'[i - 1] = e
        BY <1>1, <2>1, <2>2
      <3> QED BY <1>2, <3>1 DEF Queued
    <2> QED BY <1>1, <2>1, <2>2
  <1>4. ASSUME NEW e, Queued(e)' PROVE Queued(e)
    <2>1. PICK i \in 1 .. Len(jobs') : jobs'[i] = e
      BY <1>2, <1>4 DEF Queued
    <2>2. i + 1 \in 1 .. Len(jobs) /\ jobs[i + 1] = e
      BY <1>1, <2>1
    <2> QED BY <1>2, <2>2 DEF Queued
  <1>5. Queued(Head(jobs))
    <2>1. 1 \in 1 .. Len(jobs)
      BY <1>1
    <2> QED BY <1>1, <1>2, <2>1 DEF Queued
  <1> QED BY <1>3, <1>4, <1>5

\* Taking a mention off the waiters of its thread leaves the thread no waiter.
LEMMA RemoveWaiting ==
  ASSUME NEW d \in Deliveries, TypeInv, WaitingInv, Waiting(d), RemoveWaiter(d)
  PROVE  waiters' = [waiters EXCEPT ![ThreadOf[d]] = <<>>]
  <1>1. waiters[ThreadOf[d]] = <<d>>
    BY DEF WaitingInv
  <1> QED BY <1>1, RemoveOnly DEF RemoveWaiter

\* A mention that stops waiting leaves the waiters of the other threads as they are.
LEMMA StopWaiting ==
  ASSUME NEW d \in Deliveries, TypeInv, WaitersInv, WaitingInv, Waiting(d),
         waiters' = [waiters EXCEPT ![ThreadOf[d]] = <<>>],
         \A e \in Deliveries : Waiting(e)' <=> Waiting(e) /\ e # d
  PROVE  WaitersInv' /\ WaitingInv'
  <1>1. ASSUME NEW e \in Deliveries, Waiting(e), e # d PROVE ThreadOf[e] # ThreadOf[d]
    BY <1>1 DEF WaitingInv
  <1>2. WaitersInv'
    BY <1>1 DEF WaitersInv, WaitingInv, TypeInv
  <1>3. WaitingInv'
    BY <1>1 DEF WaitingInv, TypeInv
  <1> QED BY <1>2, <1>3

\* A mention that is registered has its thread to itself.
LEMMA ReceivePlaces ==
  ASSUME NEW d \in Deliveries, TypeInv, HandsInv, PlacesInv, Receive(d)
  PROVE  PlacesInv'
  <1> DEFINE k == ThreadOf[d]
  <1>1. QueuedApart' /\ HeldApart' /\ QueuedHeldApart' /\ ActiveInv'
    BY DEF PlacesInv, Receive, queues, crew, QueuedApart, HeldApart, QueuedHeldApart, ActiveInv,
           HasMention, InTurn
  <1>2. CASE accepting /\ ~Busy(k)
    <2>1. /\ waiters' = [waiters EXCEPT ![k] = <<d>>] /\ receiver' = [at |-> "put", of |-> d]
          /\ UNCHANGED <<jobs, job, worker>> /\ receiver = Free /\ k \in Threads
      BY <1>2 DEF Receive, Busy, queues, crew
    <2>2. \A e \in Deliveries : Waiting(e) => ThreadOf[e] # k
      BY <1>2 DEF Busy, PlacesInv, WaitingInv
    <2>3. ComingApart'
      <3>1. \A i \in 1 .. Len(jobs) : jobs[i] # Pill => ThreadOf[jobs[i]] # k
        BY <2>2 DEF Waiting, Queued, TypeInv
      <3>2. \A w \in Workers : HasMention(w) => ThreadOf[job[w]] # k
        BY <2>2, <1>2 DEF Waiting, Held, HasMention, HandsInv, Busy, PlacesInv, ActiveInv, InTurn
      <3> QED BY <2>1, <3>1, <3>2 DEF ComingApart, Coming, HasMention
    <2>4. \A e \in Deliveries : Waiting(e)' <=> Waiting(e) \/ e = d
      BY <2>1 DEF Waiting, Queued, Held, Coming, Free
    <2>5. WaitersInv'
      BY <2>1, <2>4 DEF PlacesInv, WaitersInv, TypeInv
    <2>6. WaitingInv'
      BY <2>1, <2>2, <2>4 DEF PlacesInv, WaitingInv, TypeInv
    <2> QED BY <1>1, <2>3, <2>5, <2>6 DEF PlacesInv
  <1>3. CASE ~(accepting /\ ~Busy(k))
    <2>1. UNCHANGED <<waiters, jobs, job, worker>> /\ receiver.at \notin {"put", "cancel"}
          /\ receiver'.at \notin {"put", "cancel"}
      BY <1>3 DEF Receive, queues, crew, Free
    <2>2. \A e \in Deliveries : (Waiting(e)' <=> Waiting(e)) /\ ~Coming(e)'
      BY <2>1 DEF Waiting, Queued, Held, Coming
    <2>3. ComingApart'
      BY <2>2 DEF ComingApart
    <2>4. WaitersInv' /\ WaitingInv'
      BY <2>1, <2>2 DEF PlacesInv, WaitersInv, WaitingInv
    <2> QED BY <1>1, <2>3, <2>4 DEF PlacesInv
  <1> QED BY <1>2, <1>3

\* A registered mention moves to the queue, or loses its place.
LEMMA PutJobPlaces ==
  ASSUME TypeInv, HandsInv, PlacesInv, PutJob
  PROVE  PlacesInv'
  <1>1. UNCHANGED <<waiters, active, job, worker>> /\ receiver.at = "put" /\ receiver.of \in Deliveries
    BY DEF PutJob, turns, crew, TypeInv, Free
  <1>2. HeldApart' /\ ActiveInv'
    BY <1>1 DEF PlacesInv, HeldApart, ActiveInv, HasMention, InTurn
  <1>3. CASE Len(jobs) < queueSize
    <2> DEFINE d == receiver.of
    <2>0. jobs' = Append(jobs, d) /\ receiver' = Free
      BY <1>1, <1>3 DEF PutJob, TypeInv
    <2>1. /\ Len(jobs') = Len(jobs) + 1
          /\ \A i \in 1 .. Len(jobs) : jobs'[i] = jobs[i]
          /\ jobs'[Len(jobs) + 1] = d
          /\ jobs \in Seq(Deliveries \cup {Pill}) /\ jobs' \in Seq(Deliveries \cup {Pill})
      BY <1>1, <2>0, AppendProperties DEF TypeInv
    <2>2. /\ \A i \in 1 .. Len(jobs) : jobs[i] # Pill => ThreadOf[jobs[i]] # ThreadOf[d]
          /\ \A w \in Workers : HasMention(w) => ThreadOf[job[w]] # ThreadOf[d]
      BY <1>1 DEF PlacesInv, ComingApart, Coming
    <2>3. QueuedApart'
      BY <2>1, <2>2 DEF PlacesInv, QueuedApart
    <2>4. QueuedHeldApart'
      BY <1>1, <2>1, <2>2 DEF PlacesInv, QueuedHeldApart, HasMention
    <2>5. \A e \in Deliveries : (Waiting(e)' <=> Waiting(e)) /\ ~Coming(e)'
      <3>1. \A e \in Deliveries : Queued(e)' <=> Queued(e) \/ e = d
        BY <2>1, LenProperties DEF Queued
      <3> QED BY <1>1, <2>0, <3>1 DEF Waiting, Held, Coming, Free
    <2>6. WaitersInv' /\ WaitingInv' /\ ComingApart'
      BY <1>1, <2>5 DEF PlacesInv, WaitersInv, WaitingInv, ComingApart
    <2> QED BY <1>2, <2>3, <2>4, <2>6 DEF PlacesInv
  <1>4. CASE Len(jobs) >= queueSize
    <2>1. UNCHANGED jobs /\ receiver' = [at |-> "cancel", of |-> receiver.of]
      BY <1>1, <1>4 DEF PutJob, TypeInv, Free
    <2>2. \A e \in Deliveries : (Waiting(e)' <=> Waiting(e)) /\ (Coming(e)' <=> Coming(e))
      BY <1>1, <2>1 DEF Waiting, Queued, Held, Coming
    <2>3. QueuedApart' /\ QueuedHeldApart' /\ ComingApart' /\ WaitersInv' /\ WaitingInv'
      BY <1>1, <2>1, <2>2 DEF PlacesInv, QueuedApart, QueuedHeldApart, ComingApart, WaitersInv,
         WaitingInv, HasMention
    <2> QED BY <1>2, <2>3 DEF PlacesInv
  <1> QED BY <1>3, <1>4 DEF TypeInv, PutJob

\* A mention for which there is no room gives its place up.
LEMMA CancelFullPlaces ==
  ASSUME TypeInv, HandsInv, PlacesInv, CancelFull
  PROVE  PlacesInv'
  <1> DEFINE d == receiver.of
  <1>1. /\ UNCHANGED <<jobs, active, job, worker>> /\ receiver.at = "cancel" /\ d \in Deliveries
        /\ receiver' = [at |-> "notice", of |-> d] /\ RemoveWaiter(d)
    BY DEF CancelFull, queues, crew, TypeInv, Free
  <1>2. Waiting(d) /\ waiters' = [waiters EXCEPT ![ThreadOf[d]] = <<>>]
    <2>1. Waiting(d)
      BY <1>1 DEF Waiting, Coming
    <2> QED BY <1>1, <2>1, RemoveWaiting DEF PlacesInv
  <1>3. ~Queued(d) /\ ~Held(d)
    <2>1. /\ \A i \in 1 .. Len(jobs) : jobs[i] # Pill => ThreadOf[jobs[i]] # ThreadOf[d]
          /\ \A w \in Workers : HasMention(w) => ThreadOf[job[w]] # ThreadOf[d]
          /\ d # Pill
      BY <1>1, SlackAssumption DEF PlacesInv, ComingApart, Coming
    <2>2. DOMAIN jobs = 1 .. Len(jobs)
      BY LenProperties DEF TypeInv
    <2> QED BY <2>1, <2>2 DEF Queued, Held, HasMention
  <1>4. \A e \in Deliveries : ~Coming(e)' /\ (Waiting(e)' <=> Waiting(e) /\ e # d)
    BY <1>1, <1>3 DEF Waiting, Coming, Queued, Held
  <1>5. WaitersInv' /\ WaitingInv'
    BY <1>1, <1>2, <1>4, StopWaiting DEF PlacesInv
  <1>6. QueuedApart' /\ HeldApart' /\ QueuedHeldApart' /\ ComingApart' /\ ActiveInv'
    BY <1>1, <1>4 DEF PlacesInv, QueuedApart, HeldApart, QueuedHeldApart, ComingApart, ActiveInv,
       HasMention, InTurn
  <1> QED BY <1>5, <1>6 DEF PlacesInv

\* The head of the queue goes to a worker that has nothing.
LEMMA GetPlaces ==
  ASSUME NEW w \in Workers, TypeInv, HandsInv, PlacesInv, Get(w)
  PROVE  PlacesInv'
  <1> DEFINE d == Head(jobs)
  <1>1. /\ UNCHANGED <<waiters, active, receiver>> /\ worker[w] = "get"
        /\ job' = [job EXCEPT ![w] = d] /\ jobs' = Tail(jobs)
        /\ worker' = [worker EXCEPT ![w] = IF d = Pill THEN "account" ELSE "check"]
    BY DEF Get, intake, turns
  <1>2. /\ jobs \in Seq(Deliveries \cup {Pill}) /\ Len(jobs) \in Nat \ {0} /\ d = jobs[1]
        /\ jobs' \in Seq(Deliveries \cup {Pill}) /\ Len(jobs') = Len(jobs) - 1
        /\ \A i \in 1 .. Len(jobs') : jobs'[i] = jobs[i + 1] /\ i + 1 \in 1 .. Len(jobs)
        /\ d \in Deliveries \cup {Pill}
    BY <1>1, HeadTailProperties, EmptySeq DEF TypeInv, Get
  <1>3. \A v \in Workers : IF v = w THEN HasMention(v)' <=> d # Pill
                                    ELSE (HasMention(v)' <=> HasMention(v)) /\ job'[v] = job[v]
    BY <1>1 DEF HasMention, TypeInv
  <1>4. ~HasMention(w) /\ job'[w] = d
    BY <1>1 DEF HasMention, TypeInv
  <1>5. QueuedApart' /\ QueuedHeldApart' /\ HeldApart'
    <2>1. QueuedApart'
      BY <1>2 DEF PlacesInv, QueuedApart
    <2>2. QueuedHeldApart'
      BY <1>2, <1>3, <1>4, SMTT(20) DEF PlacesInv, QueuedApart, QueuedHeldApart
    <2>3. HeldApart'
      BY <1>2, <1>3, <1>4 DEF PlacesInv, HeldApart, QueuedHeldApart
    <2> QED BY <2>1, <2>2, <2>3
  <1>6. ComingApart'
    BY <1>1, <1>2, <1>3, <1>4 DEF PlacesInv, ComingApart, Coming
  <1>7. \A e \in Deliveries : Waiting(e)' <=> Waiting(e)
    <2>1. \A e \in Deliveries : Queued(e) <=> Queued(e)' \/ e = d
      BY <1>1, <1>2, QueuedHead
    <2>2. \A e \in Deliveries : Held(e)' <=> Held(e) \/ e = d
      BY <1>1, <1>2 DEF Held, TypeInv
    <2> QED BY <1>1, <2>1, <2>2 DEF Waiting, Coming
  <1>8. WaitersInv' /\ WaitingInv'
    BY <1>1, <1>7 DEF PlacesInv, WaitersInv, WaitingInv
  <1>9. ActiveInv'
    <2>1. \A v \in Workers : InTurn(v) => InTurn(v)' /\ job'[v] = job[v]
      BY <1>1 DEF InTurn, TypeInv
    <2>2. \A v \in Workers : InTurn(v)' => InTurn(v)
      BY <1>1 DEF InTurn, TypeInv
    <2>3. ASSUME NEW k \in Threads, k \in active'
          PROVE  \E v \in Workers : InTurn(v)' /\ ThreadOf[job'[v]] = k
      <3>1. PICK v \in Workers : InTurn(v) /\ ThreadOf[job[v]] = k
        BY <1>1, <2>3 DEF PlacesInv, ActiveInv
      <3> QED BY <2>1, <3>1
    <2>4. ASSUME NEW k \in Threads, NEW v \in Workers, InTurn(v)', ThreadOf[job'[v]] = k
          PROVE  k \in active'
      <3>1. InTurn(v) /\ ThreadOf[job[v]] = k
        BY <2>1, <2>2, <2>4
      <3> QED BY <1>1, <3>1 DEF PlacesInv, ActiveInv
    <2> QED BY <2>3, <2>4 DEF ActiveInv
  <1> QED BY <1>5, <1>6, <1>8, <1>9 DEF PlacesInv

\* A worker that gives a mention up takes it off the waiters.
LEMMA DropPlaces ==
  ASSUME NEW w \in Workers, TypeInv, HandsInv, PlacesInv, worker[w] \in {"check", "begin"}, Drop(w),
         UNCHANGED <<jobs, job, receiver>>
  PROVE  PlacesInv'
  <1> DEFINE d == job[w]
  <1>1. HasMention(w) /\ d \in Deliveries /\ Held(d) /\ Waiting(d)
    BY DEF HandsInv, HasMention, Held, Waiting
  <1>2. worker' = [worker EXCEPT ![w] = "account"] /\ UNCHANGED active
        /\ waiters' = [waiters EXCEPT ![ThreadOf[d]] = <<>>]
    BY <1>1, RemoveWaiting DEF Drop, PlacesInv
  <1>3. \A v \in Workers : HasMention(v)' <=> HasMention(v) /\ v # w
    BY <1>2 DEF HasMention, TypeInv
  <1>4. QueuedApart' /\ QueuedHeldApart' /\ HeldApart' /\ ComingApart'
    BY <1>3 DEF PlacesInv, QueuedApart, QueuedHeldApart, HeldApart, ComingApart, Coming
  <1>5. \A e \in Deliveries : Waiting(e)' <=> Waiting(e) /\ e # d
    <2>1. ~Queued(d) /\ ~Coming(d)
      BY <1>1, LenProperties DEF Queued, PlacesInv, QueuedHeldApart, ComingApart, TypeInv
    <2>2. \A e \in Deliveries : Held(e)' <=> Held(e) /\ e # d
      <3>1. \A v \in Workers : v # w /\ HasMention(v) => job[v] # d
        BY <1>1 DEF PlacesInv, HeldApart
      <3> QED BY <1>2, <3>1 DEF Held, TypeInv, HasMention
    <2> QED BY <2>1, <2>2 DEF Waiting, Queued, Coming
  <1>6. WaitersInv' /\ WaitingInv'
    BY <1>1, <1>2, <1>5, StopWaiting DEF PlacesInv
  <1>7. ActiveInv'
    <2>1. \A v \in Workers : InTurn(v)' <=> InTurn(v)
      BY <1>2 DEF InTurn, TypeInv
    <2> QED BY <1>2, <2>1 DEF PlacesInv, ActiveInv
  <1> QED BY <1>4, <1>6, <1>7 DEF PlacesInv

\* A step after which each mention is where it was, for its thread.
LEMMA MovePlaces ==
  ASSUME TypeInv, HandsInv, PlacesInv, UNCHANGED <<jobs, waiters, active>>,
         \A d \in Deliveries : Coming(d)' <=> Coming(d),
         \A w \in Workers : /\ HasMention(w)' <=> HasMention(w)
                            /\ InTurn(w)' <=> InTurn(w)
                            /\ HasMention(w) => job'[w] = job[w]
  PROVE  PlacesInv'
  <1>1. QueuedApart' /\ QueuedHeldApart' /\ HeldApart' /\ ComingApart'
    BY DEF PlacesInv, QueuedApart, QueuedHeldApart, HeldApart, ComingApart
  <1>2. \A e \in Deliveries : Waiting(e)' <=> Waiting(e)
    BY DEF Waiting, Held, Queued, HasMention, InTurn
  <1>3. WaitersInv' /\ WaitingInv'
    BY <1>2 DEF PlacesInv, WaitersInv, WaitingInv
  <1>4. ActiveInv'
    BY DEF PlacesInv, ActiveInv, InTurn, HasMention
  <1> QED BY <1>1, <1>3, <1>4 DEF PlacesInv

\* A mention's turn begins: it waits no longer, its thread is active.
LEMMA BeginTurnPlaces ==
  ASSUME NEW w \in Workers, TypeInv, HandsInv, PlacesInv, BeginTurn(w)
  PROVE  PlacesInv'
  <1> DEFINE d == job[w]
  <1>1. UNCHANGED <<jobs, job, receiver>> /\ worker[w] = "begin"
    BY DEF BeginTurn, intake, queues
  <1>2. CASE stopping
    BY <1>1, <1>2, DropPlaces DEF BeginTurn
  <1>3. CASE ~stopping
    <2>1. HasMention(w) /\ d \in Deliveries /\ Held(d) /\ Waiting(d)
      BY <1>1 DEF HandsInv, HasMention, Held, Waiting
    <2>2. waiters[ThreadOf[d]] = <<d>> /\ Tail(<<d>>) = <<>>
      BY <2>1 DEF PlacesInv, WaitingInv
    <2>3. /\ worker' = [worker EXCEPT ![w] = "handle"] /\ active' = active \cup {ThreadOf[d]}
          /\ waiters' = [waiters EXCEPT ![ThreadOf[d]] = <<>>]
      BY <1>3, <2>2 DEF BeginTurn
    <2>4. \A v \in Workers : HasMention(v)' <=> HasMention(v)
      BY <1>1, <2>3 DEF HasMention, TypeInv
    <2>5. QueuedApart' /\ QueuedHeldApart' /\ HeldApart' /\ ComingApart'
      BY <1>1, <2>4 DEF PlacesInv, QueuedApart, QueuedHeldApart, HeldApart, ComingApart, Coming
    <2>6. \A e \in Deliveries : Waiting(e)' <=> Waiting(e) /\ e # d
      <3>1. ~Queued(d) /\ ~Coming(d)
        BY <2>1, LenProperties DEF Queued, PlacesInv, QueuedHeldApart, ComingApart, TypeInv
      <3>2. \A e \in Deliveries : Held(e)' <=> Held(e) /\ e # d
        <4>1. \A v \in Workers : v # w /\ HasMention(v) => job[v] # d
          BY <2>1 DEF PlacesInv, HeldApart
        <4> QED BY <1>1, <2>3, <4>1 DEF Held, TypeInv, HasMention
      <3> QED BY <1>1, <3>1, <3>2 DEF Waiting, Queued, Coming
    <2>7. WaitersInv' /\ WaitingInv'
      BY <2>1, <2>3, <2>6, StopWaiting DEF PlacesInv
    <2>8. ActiveInv'
      <3>1. \A v \in Workers : InTurn(v)' <=> InTurn(v) \/ v = w
        BY <1>1, <2>3 DEF InTurn, TypeInv
      <3> QED BY <1>1, <2>3, <3>1 DEF PlacesInv, ActiveInv
    <2> QED BY <2>5, <2>7, <2>8 DEF PlacesInv
  <1> QED BY <1>2, <1>3

\* The turn ends, and its thread is no longer active.
LEMMA FinishTurnPlaces ==
  ASSUME NEW w \in Workers, TypeInv, HandsInv, PlacesInv, FinishTurn(w)
  PROVE  PlacesInv'
  <1> DEFINE d == job[w]
  <1>1. /\ UNCHANGED <<jobs, job, receiver, waiters>> /\ worker[w] = "finish"
        /\ active' = active \ {ThreadOf[d]} /\ worker' = [worker EXCEPT ![w] = "account"]
    BY DEF FinishTurn, intake, queues
  <1>2. \A v \in Workers : HasMention(v)' <=> HasMention(v) /\ v # w
    BY <1>1 DEF HasMention, TypeInv
  <1>3. QueuedApart' /\ QueuedHeldApart' /\ HeldApart' /\ ComingApart'
    BY <1>1, <1>2 DEF PlacesInv, QueuedApart, QueuedHeldApart, HeldApart, ComingApart, Coming
  <1>4. \A e \in Deliveries : Waiting(e)' <=> Waiting(e)
    BY <1>1 DEF Waiting, Held, Queued, Coming, TypeInv
  <1>5. WaitersInv' /\ WaitingInv'
    BY <1>1, <1>4 DEF PlacesInv, WaitersInv, WaitingInv
  <1>6. ActiveInv'
    <2>1. HasMention(w) /\ \A v \in Workers : v # w /\ HasMention(v) => ThreadOf[job[v]] # ThreadOf[d]
      BY <1>1 DEF PlacesInv, HeldApart, HasMention
    <2>2. \A v \in Workers : InTurn(v)' <=> InTurn(v) /\ v # w
      BY <1>1 DEF InTurn, TypeInv
    <2>3. \A v \in Workers : InTurn(v) => HasMention(v)
      BY DEF InTurn, HasMention
    <2> QED BY <1>1, <2>1, <2>2, <2>3 DEF PlacesInv, ActiveInv, TypeInv
  <1> QED BY <1>3, <1>5, <1>6 DEF PlacesInv

\* close() throws the head of the queue away.
LEMMA DiscardJobPlaces ==
  ASSUME TypeInv, HandsInv, PlacesInv, PillsInv, DiscardJob
  PROVE  PlacesInv'
  <1> DEFINE d == Head(jobs)
  <1>1. UNCHANGED <<active, worker, job, receiver>>
    BY DEF DiscardJob, intake, crew
  <1>2. CASE jobs = <<>> /\ UNCHANGED <<jobs, waiters>>
    BY <1>1, <1>2, MovePlaces DEF HasMention, InTurn, Coming
  <1>3. CASE jobs # <<>> /\ jobs' = Tail(jobs) /\ RemoveWaiter(d)
    <2>1. /\ jobs \in Seq(Deliveries \cup {Pill}) /\ Len(jobs) \in Nat \ {0} /\ d = jobs[1]
          /\ jobs' \in Seq(Deliveries \cup {Pill}) /\ Len(jobs') = Len(jobs) - 1
          /\ \A i \in 1 .. Len(jobs') : jobs'[i] = jobs[i + 1] /\ i + 1 \in 1 .. Len(jobs)
          /\ d \in Deliveries \cup {Pill} /\ 1 \in 1 .. Len(jobs)
      BY <1>3, HeadTailProperties, EmptySeq DEF TypeInv
    <2>2. d \in Deliveries
      BY <2>1 DEF PillsInv, Pilled, DiscardJob
    <2>3. Queued(d) /\ Waiting(d) /\ waiters' = [waiters EXCEPT ![ThreadOf[d]] = <<>>]
      <3>1. Queued(d) /\ Waiting(d)
        BY <1>3, <2>1, QueuedHead, LenProperties DEF Waiting, Queued
      <3> QED BY <1>3, <2>2, <3>1, RemoveWaiting DEF PlacesInv
    <2>4. \A e : e = d => ~Queued(e)'
      <3>1. \A i \in 1 .. Len(jobs') : jobs'[i] # d
        BY <2>1, <2>2 DEF PlacesInv, QueuedApart
      <3> QED BY <2>1, <3>1, LenProperties DEF Queued
    <2>5. ~Held(d) /\ ~Coming(d)
      BY <2>1, <2>2 DEF PlacesInv, QueuedHeldApart, ComingApart, Held, HasMention
    <2>6. \A e \in Deliveries : Waiting(e)' <=> Waiting(e) /\ e # d
      <3>1. \A e : Queued(e) <=> Queued(e)' \/ e = d
        BY <1>3, QueuedHead
      <3> QED BY <1>1, <2>4, <2>5, <3>1 DEF Waiting, Held, Coming
    <2>7. WaitersInv' /\ WaitingInv'
      BY <2>2, <2>3, <2>6, StopWaiting DEF PlacesInv
    <2>8. QueuedApart' /\ QueuedHeldApart' /\ ComingApart'
      <3>1. QueuedApart'
        BY <2>1 DEF PlacesInv, QueuedApart
      <3>2. QueuedHeldApart'
        <4>1. \A w \in Workers : HasMention(w)' <=> HasMention(w)
          BY <1>1 DEF HasMention
        <4>2. \A i \in 1 .. Len(jobs') : \E k \in 1 .. Len(jobs) : jobs'[i] = jobs[k]
          BY <2>1
        <4> QED BY <1>1, <4>1, <4>2 DEF PlacesInv, QueuedHeldApart
      <3>3. ComingApart'
        <4>1. \A w \in Workers : HasMention(w)' <=> HasMention(w)
          BY <1>1 DEF HasMention
        <4>2. \A i \in 1 .. Len(jobs') : \E k \in 1 .. Len(jobs) : jobs'[i] = jobs[k]
          BY <2>1
        <4> QED BY <1>1, <4>1, <4>2 DEF PlacesInv, ComingApart, Coming
      <3> QED BY <3>1, <3>2, <3>3
    <2>9. HeldApart' /\ ActiveInv'
      BY <1>1, <1>3 DEF PlacesInv, HeldApart, ActiveInv, HasMention, InTurn
    <2> QED BY <2>7, <2>8, <2>9 DEF PlacesInv
  <1> QED BY <1>2, <1>3 DEF DiscardJob

\* A pill is nobody's mention.
LEMMA PutPillPlaces ==
  ASSUME TypeInv, HandsInv, PlacesInv, PutPill
  PROVE  PlacesInv'
  <1>1. UNCHANGED <<active, waiters, worker, job, receiver>>
    BY DEF PutPill, intake, crew, turns
  <1>2. CASE UNCHANGED jobs
    BY <1>1, <1>2, MovePlaces DEF HasMention, InTurn, Coming
  <1>3. CASE jobs' = Append(jobs, Pill)
    <2>1. /\ Len(jobs') = Len(jobs) + 1
          /\ \A i \in 1 .. Len(jobs) : jobs'[i] = jobs[i]
          /\ jobs'[Len(jobs) + 1] = Pill
          /\ jobs \in Seq(Deliveries \cup {Pill}) /\ jobs' \in Seq(Deliveries \cup {Pill})
      BY <1>3, AppendProperties DEF TypeInv
    <2>2. \A d \in Deliveries : Queued(d)' <=> Queued(d)
      BY <2>1, LenProperties DEF Queued
    <2>3. WaitersInv' /\ WaitingInv'
      BY <1>1, <2>2 DEF PlacesInv, WaitersInv, WaitingInv, Waiting, Held, Coming
    <2>4. QueuedApart' /\ QueuedHeldApart' /\ ComingApart'
      BY <1>1, <2>1 DEF PlacesInv, QueuedApart, QueuedHeldApart, ComingApart, HasMention, Coming
    <2>5. HeldApart' /\ ActiveInv'
      BY <1>1 DEF PlacesInv, HeldApart, ActiveInv, HasMention, InTurn
    <2> QED BY <2>3, <2>4, <2>5 DEF PlacesInv
  <1> QED BY <1>2, <1>3 DEF PutPill

\* No step puts a second mention of a thread into the adapter.
LEMMA PlacesStep == IndInv /\ [Next]_vars => PlacesInv'
  <1> SUFFICES ASSUME IndInv, [Next]_vars PROVE PlacesInv'
    OBVIOUS
  <1>0. TypeInv /\ HandsInv /\ PlacesInv /\ StageInv /\ PillsInv
    BY DEF IndInv
  <1>1. ASSUME NEW d \in Deliveries, Receive(d) PROVE PlacesInv'
    BY <1>0, <1>1, ReceivePlaces
  <1>2. CASE PutJob
    BY <1>0, <1>2, PutJobPlaces
  <1>3. CASE CancelFull
    BY <1>0, <1>3, CancelFullPlaces
  <1>4. CASE PutNotice
    BY <1>0, <1>4, MovePlaces DEF PutNotice, turns, crew, HasMention, InTurn, Coming, Free
  <1>5. ASSUME NEW w \in Workers, Work(w) PROVE PlacesInv'
    <2>1. CASE Get(w)
      BY <1>0, <2>1, GetPlaces
    <2>2. CASE Check(w)
      <3>1. CASE stopping
        BY <1>0, <2>2, <3>1, DropPlaces DEF Check, intake, queues
      <3>2. CASE ~stopping
        BY <1>0, <2>2, <3>2, MovePlaces DEF Check, intake, queues, turns, HasMention, InTurn, Coming, TypeInv
      <3> QED BY <3>1, <3>2
    <2>3. CASE BeginTurn(w)
      BY <1>0, <2>3, BeginTurnPlaces
    <2>4. CASE Handle(w)
      BY <1>0, <2>4, MovePlaces DEF Handle, intake, queues, turns, HasMention, InTurn, Coming, TypeInv
    <2>5. CASE FinishTurn(w)
      BY <1>0, <2>5, FinishTurnPlaces
    <2>6. CASE Account(w)
      BY <1>0, <2>6, MovePlaces DEF Account, intake, turns, HasMention, InTurn, Coming, TypeInv
    <2> QED BY <1>5, <2>1, <2>2, <2>3, <2>4, <2>5, <2>6 DEF Work
  <1>6. CASE StartWorkers
    BY <1>0, <1>6, MovePlaces DEF StartWorkers, GoOn, StageInv, intake, queues, turns, HasMention, InTurn,
       Coming
  <1>7. CASE DiscardJob
    BY <1>0, <1>7, DiscardJobPlaces
  <1>8. CASE PutPill
    BY <1>0, <1>8, PutPillPlaces
  <1>9. CASE UNCHANGED <<jobs, waiters, active, worker, job, receiver>>
    BY <1>0, <1>9, MovePlaces DEF HasMention, InTurn, Coming
  <1>10. CASE Notify
    BY <1>9, <1>10 DEF Notify, GetNotice, PostNotice, AccountNotice, intake, queues, turns
  <1>11. CASE SignalStop \/ ReturnEarly \/ Connect \/ Wake
    BY <1>9, <1>11 DEF SignalStop, ReturnEarly, Connect, Wake, intake, queues, turns, crew
  <1>12. CASE StopAccepting \/ StopWorkers \/ DiscardNotice \/ JoinQueues \/ JoinWorkers
    BY <1>9, <1>12 DEF StopAccepting, StopWorkers, DiscardNotice, JoinQueues, JoinWorkers, intake, queues,
       turns, crew
  <1>13. CASE UNCHANGED vars
    BY <1>9, <1>13 DEF vars, intake, queues, turns, crew
  <1> QED
    BY <1>1, <1>2, <1>3, <1>4, <1>5, <1>6, <1>7, <1>8, <1>10, <1>11, <1>12, <1>13
       DEF Next, Intake, Run, Ended

\* The loaded workers can be counted; a worker with an item is one of them.
LEMMA LoadedCount == IsFiniteSet(Loaded) /\ Cardinality(Loaded) \in Nat
  <1>1. Loaded \subseteq Workers
    BY DEF Loaded
  <1> QED BY <1>1, FS_Subset, FS_CardinalityType

\* A worker with a job is counted in the tasks of its queue.
LEMMA LoadedPositive ==
  ASSUME NEW w \in Workers, TypeInv, JobsInv, job[w] # None
  PROVE  unfinished - 1 \in Nat
  <1>1. w \in Loaded
    BY DEF Loaded
  <1>2. Cardinality(Loaded) # 0
    BY <1>1, LoadedCount, FS_EmptySet
  <1>3. Len(jobs) \in Nat
    BY LenProperties DEF TypeInv
  <1> QED BY <1>2, <1>3, LoadedCount DEF JobsInv, TypeInv

\* What close() throws away is a mention that waits.
LEMMA DiscardHead ==
  ASSUME TypeInv, PillsInv, main = "discard_jobs", jobs # <<>>
  PROVE  /\ Head(jobs) \in Deliveries /\ Waiting(Head(jobs)) /\ Len(jobs) > 0
         /\ Tail(jobs) \in Seq(Deliveries \cup {Pill})
  <1>1. /\ jobs \in Seq(Deliveries \cup {Pill}) /\ Len(jobs) \in Nat \ {0} /\ Head(jobs) = jobs[1]
        /\ Head(jobs) \in Deliveries \cup {Pill} /\ 1 \in 1 .. Len(jobs)
        /\ Tail(jobs) \in Seq(Deliveries \cup {Pill})
    BY HeadTailProperties, EmptySeq DEF TypeInv
  <1>2. Head(jobs) \in Deliveries
    BY <1>1 DEF PillsInv, Pilled
  <1>3. Waiting(Head(jobs))
    BY <1>1, LenProperties DEF Waiting, Queued
  <1> QED BY <1>1, <1>2, <1>3

\* What the removal of a waiter leaves is still a deque of mentions.
LEMMA RemoveType ==
  ASSUME NEW d \in Deliveries, TypeInv, PlacesInv, Waiting(d), RemoveWaiter(d)
  PROVE  waiters' \in [Threads -> Seq(Deliveries)]
  <1>1. waiters' = [waiters EXCEPT ![ThreadOf[d]] = <<>>]
    BY RemoveWaiting DEF PlacesInv
  <1>2. <<>> \in Seq(Deliveries) /\ waiters \in [Threads -> Seq(Deliveries)]
    BY EmptySeq DEF TypeInv
  <1> QED BY <1>1, <1>2

\* A worker that gives a mention up keeps the types.
LEMMA DropType ==
  ASSUME NEW w \in Workers, TypeInv, HandsInv, PlacesInv, worker[w] \in {"check", "begin"}, Drop(w)
  PROVE  /\ waiters' \in [Threads -> Seq(Deliveries)] /\ UNCHANGED active
         /\ worker' = [worker EXCEPT ![w] = "account"]
         /\ outcome' = [outcome EXCEPT ![job[w]] = "dropped"]
  <1>1. job[w] \in Deliveries /\ Waiting(job[w])
    BY DEF HandsInv, HasMention, Waiting, Held
  <1> QED BY <1>1, RemoveType DEF Drop

\* Steps keep the variables in their types.
LEMMA TypeStep == IndInv /\ [Next]_vars => TypeInv'
  <1> SUFFICES ASSUME IndInv, [Next]_vars PROVE TypeInv'
    OBVIOUS
  <1>0. TypeInv /\ HandsInv /\ PlacesInv /\ JobsInv /\ StageInv /\ PillsInv
    BY DEF IndInv
  <1> USE DEF TypeInv, intake, queues, turns, crew, run, seen
  <1>1. ASSUME NEW d \in Deliveries, Receive(d) PROVE TypeInv'
    <2>1. ThreadOf[d] \in Threads /\ Append(waiters[ThreadOf[d]], d) \in Seq(Deliveries)
      BY <1>0, AppendProperties
    <2>2. waiters' \in [Threads -> Seq(Deliveries)]
      BY <1>0, <1>1, <2>1 DEF Receive
    <2>3. receiver' \in {Free} \cup [at : {"put", "cancel", "notice"}, of : Deliveries]
      BY <1>0, <1>1 DEF Receive
    <2>4. DOMAIN outcome' = Deliveries
      BY <1>0, <1>1 DEF Receive
    <2> QED BY <1>0, <1>1, <2>2, <2>3, <2>4 DEF Receive
  <1>2. CASE PutJob
    <2>1. receiver.of \in Deliveries /\ receiver' \in {Free} \cup [at : {"put", "cancel", "notice"}, of : Deliveries]
      BY <1>0, <1>2 DEF PutJob, Free
    <2>2. Append(jobs, receiver.of) \in Seq(Deliveries \cup {Pill})
      BY <1>0, <2>1, AppendProperties
    <2>3. jobs' \in Seq(Deliveries \cup {Pill})
      <3>1. jobs' = Append(jobs, receiver.of) \/ jobs' = jobs
        BY <1>2 DEF PutJob
      <3> QED BY <1>0, <2>2, <3>1
    <2>4. unfinished' \in Nat /\ DOMAIN outcome' = Deliveries
      <3>1. unfinished' = unfinished + 1 \/ unfinished' = unfinished
        BY <1>2 DEF PutJob
      <3>2. outcome' = [outcome EXCEPT ![receiver.of] = "accepted"] \/ outcome' = outcome
        BY <1>2 DEF PutJob
      <3> QED BY <1>0, <3>1, <3>2
    <2> QED BY <1>0, <1>2, <2>1, <2>3, <2>4 DEF PutJob
  <1>3. CASE CancelFull
    <2>1. receiver.of \in Deliveries /\ Waiting(receiver.of) /\ RemoveWaiter(receiver.of)
      BY <1>0, <1>3 DEF CancelFull, Free, Waiting, Coming
    <2>2. waiters' \in [Threads -> Seq(Deliveries)]
      BY <1>0, <2>1, RemoveType
    <2> QED BY <1>0, <1>3, <2>1, <2>2 DEF CancelFull, Free
  <1>4. CASE PutNotice
    BY <1>0, <1>4 DEF PutNotice
  <1>5. ASSUME NEW w \in Workers, Work(w) PROVE TypeInv'
    <2>1. CASE Get(w)
      BY <1>0, <2>1 DEF Get
    <2>2. CASE Check(w)
      <3>1. CASE stopping
        BY <1>0, <2>2, <3>1, DropType DEF Check, Empty
      <3>2. CASE ~stopping
        BY <1>0, <2>2, <3>2 DEF Check
      <3> QED BY <3>1, <3>2
    <2>3. CASE BeginTurn(w)
      <3>1. CASE stopping
        BY <1>0, <2>3, <3>1, DropType DEF BeginTurn, Empty
      <3>2. CASE ~stopping
        <4>1. job[w] \in Deliveries /\ waiters[ThreadOf[job[w]]] # <<>>
          BY <1>0, <2>3, <3>2 DEF BeginTurn, HandsInv, HasMention, MyTurn
        <4>2. ThreadOf[job[w]] \in Threads /\ Tail(waiters[ThreadOf[job[w]]]) \in Seq(Deliveries)
          BY <1>0, <4>1, HeadTailProperties
        <4>3. waiters' \in [Threads -> Seq(Deliveries)]
          BY <1>0, <2>3, <3>2, <4>2 DEF BeginTurn
        <4> QED BY <1>0, <2>3, <3>2, <4>2, <4>3 DEF BeginTurn
      <3> QED BY <3>1, <3>2
    <2>4. CASE Handle(w)
      BY <1>0, <2>4 DEF Handle
    <2>5. CASE FinishTurn(w)
      BY <1>0, <2>5 DEF FinishTurn
    <2>6. CASE Account(w)
      <3>1. unfinished' \in Nat
        BY <1>0, <2>6, LoadedPositive DEF Account, HandsInv, Empty
      <3> QED BY <1>0, <2>6, <3>1 DEF Account, Empty
    <2> QED BY <1>5, <2>1, <2>2, <2>3, <2>4, <2>5, <2>6 DEF Work
  <1>6. CASE StartWorkers
    BY <1>0, <1>6 DEF StartWorkers, GoOn, Empty, Running
  <1>7. CASE DiscardJob
    <2>1. CASE jobs # <<>>
      <3>1. /\ Head(jobs) \in Deliveries /\ Waiting(Head(jobs)) /\ Len(jobs) > 0
            /\ Tail(jobs) \in Seq(Deliveries \cup {Pill})
        BY <1>0, <1>7, <2>1, DiscardHead DEF DiscardJob
      <3>2. waiters' \in [Threads -> Seq(Deliveries)]
        BY <1>0, <1>7, <2>1, <3>1, RemoveType DEF DiscardJob
      <3>3. unfinished' \in Nat
        BY <1>0, <1>7, <2>1, <3>1, LoadedCount DEF DiscardJob, JobsInv
      <3> QED BY <1>0, <1>7, <2>1, <3>1, <3>2, <3>3 DEF DiscardJob
    <2>2. CASE jobs = <<>>
      BY <1>0, <1>7, <2>2 DEF DiscardJob, Discarded
    <2> QED BY <2>1, <2>2
  <1>8. CASE PutPill
    <2>1. Append(jobs, Pill) \in Seq(Deliveries \cup {Pill})
      BY <1>0, AppendProperties
    <2>2. jobs' \in Seq(Deliveries \cup {Pill})
      <3>1. jobs' = Append(jobs, Pill) \/ jobs' = jobs
        BY <1>8 DEF PutPill
      <3> QED BY <1>0, <2>1, <3>1
    <2>3. unfinished' \in Nat /\ pills' \in Nat
      <3>1. /\ unfinished' = unfinished + 1 \/ unfinished' = unfinished
            /\ pills' = pills + 1 \/ pills' = pills
        BY <1>8 DEF PutPill
      <3> QED BY <1>0, <3>1
    <2> QED BY <1>0, <1>8, <2>2, <2>3 DEF PutPill, GoOn, Discarded
  <1>9. CASE Notify
    BY <1>0, <1>9 DEF Notify, GetNotice, PostNotice, AccountNotice
  <1>10. CASE SignalStop \/ ReturnEarly \/ Connect \/ Wake
    BY <1>0, <1>10 DEF SignalStop, ReturnEarly, Connect, Wake, GoOn, Running, Discarded
  <1>11. CASE StopAccepting \/ StopWorkers \/ DiscardNotice \/ JoinQueues \/ JoinWorkers
    BY <1>0, <1>11 DEF StopAccepting, StopWorkers, DiscardNotice, JoinQueues, JoinWorkers, GoOn, Discarded
  <1>12. CASE UNCHANGED vars
    BY <1>0, <1>12 DEF vars
  <1> QED
    BY <1>1, <1>2, <1>3, <1>4, <1>5, <1>6, <1>7, <1>8, <1>9, <1>10, <1>11, <1>12
       DEF Next, Intake, Run, Ended

\* Steps keep what each worker holds in line with its stage.
LEMMA HandsStep == IndInv /\ [Next]_vars => HandsInv'
  <1> SUFFICES ASSUME IndInv, [Next]_vars PROVE HandsInv'
    OBVIOUS
  <1>0. TypeInv /\ HandsInv /\ StageInv
    BY DEF IndInv
  <1>1. ASSUME NEW w \in Workers, Work(w) PROVE HandsInv'
    <2>1. CASE Get(w)
      <3>1. Head(jobs) \in Deliveries \cup {Pill}
        BY <1>0, <2>1, HeadTailProperties DEF TypeInv, Get
      <3> QED BY <1>0, <2>1, <3>1 DEF Get, HandsInv, TypeInv, HasMention, Empty
    <2>2. CASE Check(w) \/ BeginTurn(w)
      BY <1>0, <2>2 DEF Check, BeginTurn, Drop, HandsInv, TypeInv, HasMention, Empty
    <2>3. CASE Handle(w) \/ FinishTurn(w)
      BY <1>0, <2>3 DEF Handle, FinishTurn, HandsInv, TypeInv, HasMention, Empty
    <2>4. CASE Account(w)
      BY <1>0, <2>4 DEF Account, HandsInv, TypeInv, HasMention, Empty
    <2> QED BY <1>1, <2>1, <2>2, <2>3, <2>4 DEF Work
  <1>2. CASE StartWorkers
    BY <1>0, <1>2 DEF StartWorkers, GoOn, StageInv, HandsInv, HasMention, Empty
  <1>3. CASE UNCHANGED <<worker, job>>
    BY <1>0, <1>3 DEF HandsInv, HasMention
  <1>4. CASE (\E d \in Deliveries : Receive(d)) \/ Intake \/ Notify
    BY <1>3, <1>4 DEF Receive, Intake, PutJob, CancelFull, PutNotice, Notify, GetNotice, PostNotice,
       AccountNotice, crew
  <1>5. CASE SignalStop \/ ReturnEarly \/ Connect \/ Wake \/ StopAccepting \/ StopWorkers
    BY <1>3, <1>5 DEF SignalStop, ReturnEarly, Connect, Wake, StopAccepting, StopWorkers, crew
  <1>6. CASE DiscardJob \/ DiscardNotice \/ JoinQueues \/ PutPill \/ JoinWorkers \/ UNCHANGED vars
    BY <1>3, <1>6 DEF DiscardJob, DiscardNotice, JoinQueues, PutPill, JoinWorkers, vars, crew
  <1> QED BY <1>1, <1>2, <1>4, <1>5, <1>6 DEF Next, Run, Ended

\* The task count goes up with the queue, and down with the items that are done.
LEMMA JobsStep == IndInv /\ [Next]_vars => JobsInv'
  <1> SUFFICES ASSUME IndInv, [Next]_vars PROVE JobsInv'
    OBVIOUS
  <1>0. TypeInv /\ HandsInv /\ JobsInv /\ Len(jobs) \in Nat /\ Cardinality(Loaded) \in Nat
    BY LenProperties, LoadedCount DEF IndInv, TypeInv
  <1>1. ASSUME NEW w \in Workers, Get(w) PROVE JobsInv'
    <2>1. Loaded' = Loaded \cup {w} /\ w \notin Loaded
      <3>1. Head(jobs) # None /\ job[w] = None /\ job' = [job EXCEPT ![w] = Head(jobs)]
        BY <1>0, <1>1, HeadTailProperties DEF Get, TypeInv, HandsInv, Empty
      <3> QED BY <1>0, <3>1 DEF Loaded, TypeInv
    <2>2. Cardinality(Loaded') = Cardinality(Loaded) + 1
      BY <2>1, LoadedCount, FS_AddElement
    <2>3. Len(jobs') = Len(jobs) - 1
      BY <1>0, <1>1, HeadTailProperties DEF Get, TypeInv
    <2>4. UNCHANGED <<queueSize, unfinished>>
      BY <1>1 DEF Get
    <2> QED BY <1>0, <2>2, <2>3, <2>4 DEF JobsInv, TypeInv
  <1>2. ASSUME NEW w \in Workers, Account(w) PROVE JobsInv'
    <2>1. Loaded' = Loaded \ {w} /\ w \in Loaded
      <3>1. job[w] # None /\ job' = [job EXCEPT ![w] = None]
        BY <1>0, <1>2 DEF Account, HandsInv, Empty
      <3> QED BY <1>0, <3>1 DEF Loaded, TypeInv
    <2>2. Cardinality(Loaded') = Cardinality(Loaded) - 1
      BY <2>1, LoadedCount, FS_RemoveElement
    <2> QED BY <1>0, <1>2, <2>2 DEF Account, JobsInv, TypeInv
  <1>3. CASE PutJob
    <2>1. Loaded' = Loaded /\ queueSize' = queueSize
      BY <1>3 DEF Loaded, PutJob, crew
    <2>2. CASE jobs' = Append(jobs, receiver.of) /\ Len(jobs) < queueSize /\ unfinished' = unfinished + 1
      <3>1. Len(jobs') = Len(jobs) + 1
        BY <1>0, <1>3, <2>2, AppendProperties DEF TypeInv, PutJob, Free
      <3> QED BY <1>0, <2>1, <2>2, <3>1 DEF JobsInv, TypeInv
    <2>3. CASE UNCHANGED <<jobs, unfinished>>
      BY <1>0, <2>1, <2>3 DEF JobsInv
    <2> QED BY <1>3, <2>2, <2>3 DEF PutJob
  <1>4. CASE DiscardJob
    <2>1. Loaded' = Loaded /\ queueSize' = queueSize
      BY <1>4 DEF Loaded, DiscardJob, crew
    <2>2. CASE jobs # <<>> /\ jobs' = Tail(jobs) /\ unfinished' = unfinished - 1
      <3>1. Len(jobs') = Len(jobs) - 1
        BY <1>0, <2>2, HeadTailProperties DEF TypeInv
      <3> QED BY <1>0, <2>1, <2>2, <3>1 DEF JobsInv, TypeInv
    <2>3. CASE UNCHANGED <<jobs, unfinished>>
      BY <1>0, <2>1, <2>3 DEF JobsInv
    <2> QED BY <1>4, <2>2, <2>3 DEF DiscardJob
  <1>5. CASE PutPill
    <2>1. Loaded' = Loaded /\ queueSize' = queueSize
      BY <1>5 DEF Loaded, PutPill, crew
    <2>2. CASE jobs' = Append(jobs, Pill) /\ Len(jobs) < queueSize /\ unfinished' = unfinished + 1
      <3>1. Len(jobs') = Len(jobs) + 1
        BY <1>0, <2>2, AppendProperties DEF TypeInv
      <3> QED BY <1>0, <2>1, <2>2, <3>1 DEF JobsInv, TypeInv
    <2>3. CASE UNCHANGED <<jobs, unfinished>>
      BY <1>0, <2>1, <2>3 DEF JobsInv
    <2> QED BY <1>5, <2>2, <2>3 DEF PutPill
  <1>6. CASE UNCHANGED <<queueSize, jobs, unfinished, job>>
    BY <1>0, <1>6 DEF JobsInv, Loaded
  <1>7. CASE (\E d \in Deliveries : Receive(d)) \/ CancelFull \/ PutNotice \/ Notify
    BY <1>6, <1>7 DEF Receive, CancelFull, PutNotice, Notify, GetNotice, PostNotice, AccountNotice, queues, crew
  <1>8. ASSUME NEW w \in Workers, Check(w) \/ BeginTurn(w) \/ Handle(w) \/ FinishTurn(w) PROVE JobsInv'
    BY <1>6, <1>8 DEF Check, BeginTurn, Handle, FinishTurn, queues
  <1>9. CASE SignalStop \/ ReturnEarly \/ StartWorkers \/ Connect \/ Wake
    BY <1>6, <1>9 DEF SignalStop, ReturnEarly, StartWorkers, Connect, Wake, queues, crew
  <1>10. CASE StopAccepting \/ StopWorkers \/ DiscardNotice \/ JoinQueues \/ JoinWorkers \/ UNCHANGED vars
    BY <1>6, <1>10 DEF StopAccepting, StopWorkers, DiscardNotice, JoinQueues, JoinWorkers, vars, queues, crew
  <1> QED
    BY <1>1, <1>2, <1>3, <1>4, <1>5, <1>7, <1>8, <1>9, <1>10 DEF Next, Intake, Run, Work, Ended

\* The same for the queue of notices, which has room for one.
LEMMA NoticesStep == IndInv /\ [Next]_vars => NoticesInv'
  <1> SUFFICES ASSUME IndInv, [Next]_vars PROVE NoticesInv'
    OBVIOUS
  <1>0. TypeInv /\ NoticesInv /\ StageInv /\ Len(notices) \in Nat
    BY LenProperties DEF IndInv, NoticesInv
  <1>1. CASE PutNotice
    <2>1. receiver.of \in Deliveries \cup {Pill}
      BY <1>0, <1>1 DEF PutNotice, TypeInv, Free
    <2>2. CASE notices = <<>>
      <3>1. notices' = <<receiver.of>> /\ Len(<<receiver.of>>) = 1
            /\ <<receiver.of>> \in Seq(Deliveries \cup {Pill}) /\ Len(<<>>) = 0
        BY <1>1, <2>1, <2>2 DEF PutNotice
      <3> QED BY <1>0, <1>1, <2>2, <3>1 DEF PutNotice, NoticesInv, crew
    <2>3. CASE notices # <<>>
      BY <1>0, <1>1, <2>3 DEF PutNotice, NoticesInv, crew
    <2> QED BY <2>2, <2>3
  <1>2. CASE GetNotice
    <2>1. /\ Head(notices) \in Deliveries \cup {Pill} /\ Len(notices') = Len(notices) - 1
          /\ notices' \in Seq(Deliveries \cup {Pill})
      BY <1>0, <1>2, HeadTailProperties DEF GetNotice, NoticesInv
    <2> QED BY <1>0, <1>2, <2>1 DEF GetNotice, NoticesInv, Empty
  <1>3. CASE PostNotice
    BY <1>0, <1>3 DEF PostNotice, NoticesInv, queues, Empty
  <1>4. CASE AccountNotice
    BY <1>0, <1>4 DEF AccountNotice, NoticesInv, Empty
  <1>5. CASE StartWorkers
    BY <1>0, <1>5 DEF StartWorkers, NoticesInv, queues, Empty, StageInv, GoOn
  <1>6. CASE DiscardNotice
    <2>1. CASE notices # <<>>
      <3>1. Len(notices') = Len(notices) - 1 /\ notices' \in Seq(Deliveries \cup {Pill})
            /\ Len(notices) # 0
        BY <1>0, <1>6, <2>1, HeadTailProperties, EmptySeq DEF DiscardNotice, NoticesInv
      <3> QED BY <1>0, <1>6, <2>1, <3>1 DEF DiscardNotice, NoticesInv, crew
    <2>2. CASE notices = <<>>
      BY <1>0, <1>6, <2>2 DEF DiscardNotice, NoticesInv, crew
    <2> QED BY <2>1, <2>2
  <1>7. CASE PutPill
    <2>1. CASE notices = <<>> /\ notices' = <<Pill>> /\ unposted' = unposted + 1
      <3>1. Len(<<Pill>>) = 1 /\ <<Pill>> \in Seq(Deliveries \cup {Pill}) /\ Len(<<>>) = 0
        OBVIOUS
      <3> QED BY <1>0, <1>7, <2>1, <3>1 DEF PutPill, NoticesInv, crew
    <2>2. CASE UNCHANGED <<notices, unposted>>
      BY <1>0, <1>7, <2>2 DEF PutPill, NoticesInv, crew
    <2> QED BY <1>7, <2>1, <2>2 DEF PutPill
  <1>8. CASE UNCHANGED <<notices, unposted, notice, herald>>
    BY <1>0, <1>8 DEF NoticesInv
  <1>9. CASE (\E d \in Deliveries : Receive(d)) \/ PutJob \/ CancelFull
    BY <1>8, <1>9 DEF Receive, PutJob, CancelFull, queues, crew
  <1>10. ASSUME NEW w \in Workers, Work(w) PROVE NoticesInv'
    BY <1>8, <1>10 DEF Work, Get, Check, BeginTurn, Handle, FinishTurn, Account, queues
  <1>11. CASE SignalStop \/ ReturnEarly \/ Connect \/ Wake \/ StopAccepting \/ StopWorkers
    BY <1>8, <1>11 DEF SignalStop, ReturnEarly, Connect, Wake, StopAccepting, StopWorkers, queues, crew
  <1>12. CASE DiscardJob \/ JoinQueues \/ JoinWorkers \/ UNCHANGED vars
    BY <1>8, <1>12 DEF DiscardJob, JoinQueues, JoinWorkers, vars, queues, crew
  <1> QED
    BY <1>1, <1>2, <1>3, <1>4, <1>5, <1>6, <1>7, <1>9, <1>10, <1>11, <1>12
       DEF Next, Intake, Notify, Run, Ended

\* When every item is accounted for, no worker holds one and the queue is empty.
LEMMA NothingLoaded ==
  ASSUME TypeInv, JobsInv, unfinished = 0
  PROVE  jobs = <<>> /\ \A w \in Workers : job[w] = None
  <1>1. Len(jobs) \in Nat /\ Cardinality(Loaded) \in Nat
    BY LenProperties, LoadedCount DEF TypeInv
  <1>2. Len(jobs) = 0 /\ Cardinality(Loaded) = 0
    BY <1>1 DEF JobsInv
  <1>3. Loaded = {}
    BY <1>2, LoadedCount, FS_EmptySet
  <1> QED BY <1>2, <1>3, EmptySeq DEF Loaded, TypeInv

\* The workers that a pill has reached can be counted, and are at most all.
LEMMA SwallowedCount ==
    /\ IsFiniteSet(Swallowed) /\ Cardinality(Swallowed) \in Nat
    /\ IsFiniteSet(Workers) /\ Cardinality(Workers) \in Nat
  <1>1. Swallowed \subseteq Workers
    BY DEF Swallowed
  <1> QED BY <1>1, FS_Subset, FS_CardinalityType

\* When all the workers are gone, they have swallowed all the pills.
LEMMA AllGone ==
  ASSUME TypeInv, PillsInv, main = "join_workers", \A w \in Workers : worker[w] = "gone"
  PROVE  jobs = <<>>
  <1>1. Swallowed = Workers
    BY DEF Swallowed
  <1>2. Len(jobs) \in Nat
    BY LenProperties DEF TypeInv
  <1>3. Len(jobs) = 0
    BY <1>1, <1>2, SwallowedCount DEF PillsInv, Pilled
  <1> QED BY <1>3, EmptySeq DEF TypeInv

\* The stage of close() bounds what is left in the queue and with the workers.
LEMMA StageStep == IndInv /\ [Next]_vars => StageInv'
  <1> SUFFICES ASSUME IndInv, [Next]_vars PROVE StageInv'
    OBVIOUS
  <1>0. TypeInv /\ HandsInv /\ JobsInv /\ StageInv /\ PillsInv
    BY DEF IndInv
  <1> USE DEF intake, queues, turns, crew, run, seen
  <1>1. ASSUME NEW d \in Deliveries, Receive(d) PROVE StageInv'
    BY <1>0, <1>1 DEF Receive, StageInv
  <1>2. CASE PutJob
    <2>1. accepting /\ main \in Running /\ main # "begin"
      BY <1>0, <1>2 DEF PutJob, StageInv, Free
    <2> QED BY <1>2, <2>1, <1>0 DEF PutJob, StageInv, Running, Discarded, Joined
  <1>3. CASE CancelFull \/ PutNotice
    <2>1. accepting /\ main \in Running /\ main # "begin"
      BY <1>0, <1>3 DEF CancelFull, PutNotice, StageInv, Free
    <2>2. UNCHANGED <<accepting, stopping, connected, main, herald, jobs, worker, job>>
      BY <1>3 DEF CancelFull, PutNotice
    <2> QED BY <1>0, <2>1, <2>2 DEF StageInv, Running, Discarded, Joined
  <1>4. ASSUME NEW w \in Workers, Work(w) PROVE StageInv'
    <2>0. main # "begin" /\ main # "ended"
      BY <1>0, <1>4 DEF StageInv, Work, Get, Check, BeginTurn, Handle, FinishTurn, Account
    <2>1. CASE Get(w)
      <3>1. /\ Len(jobs') = Len(jobs) - 1 /\ Len(jobs) \in Nat \ {0} /\ Head(jobs) = jobs[1]
            /\ \A i \in 1 .. Len(jobs') : jobs'[i] = jobs[i + 1]
        BY <1>0, <2>1, HeadTailProperties, EmptySeq DEF Get, TypeInv
      <3>2. main' \in Discarded => Head(jobs) = Pill /\ \A i \in 1 .. Len(jobs') : jobs'[i] = Pill
        BY <1>0, <2>1, <3>1 DEF StageInv, Get
      <3>3. main' \in Joined => \A v \in Workers : job'[v] \notin Deliveries
        BY <1>0, <2>1, <3>2 DEF StageInv, Get, TypeInv, Joined, Discarded
      <3> QED BY <1>0, <2>0, <2>1, <3>2, <3>3 DEF Get, StageInv
    <2>2. CASE Check(w) \/ BeginTurn(w)
      BY <1>0, <2>0, <2>2 DEF Check, BeginTurn, Drop, StageInv
    <2>3. CASE Handle(w) \/ FinishTurn(w)
      BY <1>0, <2>0, <2>3 DEF Handle, FinishTurn, StageInv
    <2>4. CASE Account(w)
      BY <1>0, <2>0, <2>4 DEF Account, StageInv, TypeInv
    <2> QED BY <1>4, <2>1, <2>2, <2>3, <2>4 DEF Work
  <1>5. CASE Notify
    BY <1>0, <1>5 DEF Notify, GetNotice, PostNotice, AccountNotice, StageInv
  <1>6. CASE StartWorkers \/ ReturnEarly
    BY <1>0, <1>6 DEF StartWorkers, ReturnEarly, GoOn, StageInv, HandsInv, TypeInv, Empty, Running, Discarded,
       Joined
  <1>7. CASE SignalStop \/ Connect \/ Wake \/ StopAccepting \/ StopWorkers
    BY <1>0, <1>7 DEF SignalStop, Connect, Wake, StopAccepting, StopWorkers, GoOn, StageInv, Running, Discarded,
       Joined
  <1>8. CASE DiscardJob
    <2>1. CASE jobs # <<>> /\ main' = main
      BY <1>0, <1>8, <2>1 DEF DiscardJob, StageInv, Discarded, Joined
    <2>2. CASE jobs = <<>> /\ main' = "discard_notices" /\ jobs' = jobs
      <3>1. Len(jobs) = 0
        BY <2>2
      <3> QED BY <1>0, <1>8, <2>2, <3>1 DEF DiscardJob, StageInv, Running, Discarded, Joined
    <2> QED BY <1>8, <2>1, <2>2 DEF DiscardJob
  <1>9. CASE DiscardNotice
    BY <1>0, <1>9 DEF DiscardNotice, StageInv, Running, Discarded, Joined
  <1>10. CASE JoinQueues
    <2>1. main = "join_jobs" => \A w \in Workers : job[w] = None
      BY <1>0, <1>10, NothingLoaded DEF JoinQueues, GoOn
    <2> QED BY <1>0, <1>10, <2>1 DEF JoinQueues, GoOn, StageInv, Running, Discarded, Joined
  <1>11. CASE PutPill
    <2>1. main = "pills" /\ main' \in {"pills", "join_workers"}
      BY <1>11 DEF PutPill, GoOn
    <2>2. \A i \in 1 .. Len(jobs') : jobs'[i] = Pill
      <3>1. CASE jobs' = Append(jobs, Pill)
        <4>1. /\ Len(jobs') = Len(jobs) + 1 /\ jobs'[Len(jobs) + 1] = Pill /\ Len(jobs) \in Nat
              /\ \A i \in 1 .. Len(jobs) : jobs'[i] = jobs[i]
          BY <1>0, <3>1, AppendProperties, LenProperties DEF TypeInv
        <4> QED BY <1>0, <2>1, <4>1 DEF StageInv, Discarded
      <3>2. CASE jobs' = jobs
        BY <1>0, <2>1, <3>2 DEF StageInv, Discarded
      <3> QED BY <1>11, <3>1, <3>2 DEF PutPill
    <2> QED BY <1>0, <1>11, <2>1, <2>2 DEF PutPill, StageInv, Running, Discarded, Joined
  <1>12. CASE JoinWorkers
    <2>1. main = "join_workers" /\ jobs = <<>> /\ \A w \in Workers : worker[w] = "gone"
      BY <1>0, <1>12, AllGone DEF JoinWorkers, GoOn
    <2> QED BY <1>0, <1>12, <2>1 DEF JoinWorkers, GoOn, StageInv, Running, Discarded, Joined
  <1>13. CASE UNCHANGED vars
    BY <1>0, <1>13 DEF vars, StageInv
  <1> QED
    BY <1>1, <1>2, <1>3, <1>4, <1>5, <1>6, <1>7, <1>8, <1>9, <1>10, <1>11, <1>12, <1>13
       DEF Next, Intake, Run, Ended

\* Every pill that has been put is in the queue or has reached one worker.
LEMMA PillsStep == IndInv /\ [Next]_vars => PillsInv'
  <1> SUFFICES ASSUME IndInv, [Next]_vars PROVE PillsInv'
    OBVIOUS
  <1>0. TypeInv /\ HandsInv /\ JobsInv /\ StageInv /\ PillsInv /\ Len(jobs) \in Nat
    BY LenProperties DEF IndInv, TypeInv
  <1> USE DEF intake, queues, turns, crew, run, seen
  <1>1. CASE UNCHANGED <<jobs, main, pills, Swallowed>>
    BY <1>0, <1>1 DEF PillsInv
  <1>2. CASE PutJob
    <2>1. Swallowed' = Swallowed /\ UNCHANGED <<main, pills>>
      BY <1>2 DEF PutJob, Swallowed
    <2>2. main \notin Pilled /\ receiver.of # Pill /\ receiver.of \in Deliveries
      BY <1>0, <1>2 DEF PutJob, StageInv, Free, Running, Pilled, TypeInv
    <2>3. CASE jobs' = Append(jobs, receiver.of)
      <3>1. /\ Len(jobs') = Len(jobs) + 1 /\ jobs'[Len(jobs) + 1] = receiver.of
            /\ \A i \in 1 .. Len(jobs) : jobs'[i] = jobs[i]
        BY <1>0, <2>2, <2>3, AppendProperties DEF TypeInv
      <3> QED BY <1>0, <2>1, <2>2, <3>1 DEF PillsInv, Pilled
    <2>4. CASE jobs' = jobs
      BY <1>1, <2>1, <2>4
    <2> QED BY <1>2, <2>3, <2>4 DEF PutJob
  <1>3. ASSUME NEW w \in Workers, Get(w) PROVE PillsInv'
    <2>1. /\ Len(jobs') = Len(jobs) - 1 /\ Len(jobs) \in Nat \ {0} /\ Head(jobs) = jobs[1]
          /\ \A i \in 1 .. Len(jobs') : jobs'[i] = jobs[i + 1] /\ i + 1 \in 1 .. Len(jobs)
          /\ 1 \in 1 .. Len(jobs) /\ UNCHANGED <<main, pills>>
      BY <1>0, <1>3, HeadTailProperties, EmptySeq DEF Get, TypeInv
    <2>2. Swallowed' = IF Head(jobs) = Pill THEN Swallowed \cup {w} ELSE Swallowed
      <3>1. worker[w] = "get" /\ job[w] # Pill /\ w \notin Swallowed
        BY <1>0, <1>3 DEF Get, HandsInv, Empty, Swallowed
      <3>2. /\ job' = [job EXCEPT ![w] = Head(jobs)]
            /\ worker' = [worker EXCEPT ![w] = IF Head(jobs) = Pill THEN "account" ELSE "check"]
        BY <1>3 DEF Get
      <3> QED BY <1>0, <3>1, <3>2 DEF Swallowed, TypeInv
    <2>3. CASE main \notin Pilled
      BY <1>0, <2>1, <2>2, <2>3 DEF PillsInv, Pilled
    <2>4. CASE main \in Pilled
      <3>1. Head(jobs) = Pill
        BY <1>0, <2>1, <2>4 DEF StageInv, Pilled, Discarded
      <3>2. w \notin Swallowed
        BY <1>0, <1>3 DEF Get, HandsInv, Empty, Swallowed
      <3>3. Cardinality(Swallowed') = Cardinality(Swallowed) + 1
        BY <2>2, <3>1, <3>2, SwallowedCount, FS_AddElement
      <3> QED BY <1>0, <2>1, <2>4, <3>3, SwallowedCount DEF PillsInv
    <2> QED BY <2>3, <2>4
  <1>4. ASSUME NEW w \in Workers, Account(w) PROVE PillsInv'
    <2>1. Swallowed' = Swallowed
      BY <1>0, <1>4 DEF Account, HandsInv, Empty, Swallowed, TypeInv
    <2> QED BY <1>1, <1>4, <2>1 DEF Account
  <1>5. ASSUME NEW w \in Workers, Check(w) \/ BeginTurn(w) \/ Handle(w) \/ FinishTurn(w) PROVE PillsInv'
    <2>1. Swallowed' = Swallowed
      BY <1>0, <1>5 DEF Check, BeginTurn, Handle, FinishTurn, Drop, Swallowed, TypeInv
    <2> QED BY <1>1, <1>5, <2>1 DEF Check, BeginTurn, Handle, FinishTurn
  <1>6. CASE StartWorkers \/ ReturnEarly
    <2>1. main = "begin" /\ jobs' = <<>> /\ Len(jobs') = 0 /\ pills' = 0 /\ main' \in {"connect", "ended"}
      BY <1>0, <1>6 DEF StartWorkers, ReturnEarly, GoOn, StageInv, PillsInv, Pilled
    <2>2. Swallowed' = {}
      <3>1. \A w \in Workers : worker[w] = "unstarted" /\ job[w] = None
        BY <1>0, <2>1 DEF StageInv, HandsInv, Empty
      <3> QED BY <1>6, <3>1 DEF StartWorkers, ReturnEarly, Swallowed
    <2> QED BY <2>1, <2>2, FS_EmptySet DEF PillsInv, Pilled
  <1>7. CASE UNCHANGED <<jobs, worker, job, pills>> /\ (main' \in Pilled <=> main \in Pilled)
             /\ (main' = "join_workers" => main = "join_workers")
    <2>1. Swallowed' = Swallowed
      BY <1>7 DEF Swallowed
    <2> QED BY <1>0, <1>7, <2>1 DEF PillsInv
  <1>8. CASE DiscardJob
    <2>1. UNCHANGED <<pills, Swallowed>> /\ main \notin Pilled /\ main' \notin Pilled
      BY <1>8 DEF DiscardJob, Swallowed, Pilled
    <2>2. \A i \in 1 .. Len(jobs') : jobs'[i] # Pill
      <3>1. CASE jobs # <<>> /\ jobs' = Tail(jobs)
        <4>1. /\ Len(jobs') = Len(jobs) - 1
              /\ \A i \in 1 .. Len(jobs') : jobs'[i] = jobs[i + 1] /\ i + 1 \in 1 .. Len(jobs)
          BY <1>0, <3>1, HeadTailProperties, EmptySeq DEF TypeInv
        <4> QED BY <1>0, <2>1, <4>1 DEF PillsInv
      <3>2. CASE jobs' = jobs
        BY <1>0, <2>1, <3>2 DEF PillsInv
      <3> QED BY <1>8, <3>1, <3>2 DEF DiscardJob
    <2> QED BY <1>0, <2>1, <2>2 DEF PillsInv, Pilled
  <1>9. CASE JoinQueues
    <2>1. CASE main = "join_jobs" /\ main' = "join_notices"
      BY <1>7, <1>9, <2>1 DEF JoinQueues, GoOn, Pilled
    <2>2. CASE main = "join_notices" /\ main' = "pills"
      <3>1. pills = 0 /\ Swallowed = {} /\ \A i \in 1 .. Len(jobs) : jobs[i] # Pill /\ jobs[i] = Pill
        BY <1>0, <2>2 DEF PillsInv, Pilled, StageInv, Discarded
      <3>2. Len(jobs) = 0
        <4>1. Len(jobs) # 0 => 1 \in 1 .. Len(jobs)
          BY <1>0
        <4> QED BY <3>1, <4>1
      <3>3. Swallowed' = {} /\ Cardinality({}) = 0 /\ jobs' = jobs /\ pills' = 0
        BY <1>9, <3>1, FS_EmptySet DEF JoinQueues, Swallowed
      <3> QED BY <2>2, <3>2, <3>3 DEF PillsInv, Pilled
    <2> QED BY <1>9, <2>1, <2>2 DEF JoinQueues, GoOn
  <1>10. CASE PutPill
    <2>1. UNCHANGED Swallowed /\ main \in Pilled /\ main' \in Pilled /\ main = "pills"
      BY <1>10 DEF PutPill, GoOn, Swallowed, Pilled
    <2>2. CASE jobs' = Append(jobs, Pill) /\ pills' = pills + 1 /\ main' = main
      <3>1. Len(jobs') = Len(jobs) + 1
        BY <1>0, <2>2, AppendProperties DEF TypeInv
      <3> QED BY <1>0, <2>1, <2>2, <3>1, SwallowedCount DEF PillsInv, TypeInv
    <2>3. CASE pills = Cardinality(Workers) /\ UNCHANGED <<jobs, pills>>
      BY <1>0, <2>1, <2>3 DEF PillsInv
    <2> QED BY <1>10, <2>2, <2>3 DEF PutPill
  <1>11. CASE (\E d \in Deliveries : Receive(d)) \/ CancelFull \/ PutNotice \/ Notify
    BY <1>7, <1>11 DEF Receive, CancelFull, PutNotice, Notify, GetNotice, PostNotice, AccountNotice
  <1>12. CASE SignalStop \/ Connect \/ Wake \/ StopAccepting \/ StopWorkers
    BY <1>7, <1>12 DEF SignalStop, Connect, Wake, StopAccepting, StopWorkers, GoOn, Pilled
  <1>13. CASE DiscardNotice \/ JoinWorkers \/ UNCHANGED vars
    BY <1>7, <1>13 DEF DiscardNotice, JoinWorkers, vars, GoOn, Pilled
  <1> QED
    BY <1>2, <1>3, <1>4, <1>5, <1>6, <1>8, <1>9, <1>10, <1>11, <1>12, <1>13
       DEF Next, Intake, Run, Work, Ended

\* An accepted mention does not get lost between the queue and the workers.
LEMMA AcceptedStep == IndInv /\ [Next]_vars => AcceptedInv'
  <1> SUFFICES ASSUME IndInv, [Next]_vars PROVE AcceptedInv'
    OBVIOUS
  <1>0. TypeInv /\ HandsInv /\ PlacesInv /\ StageInv /\ PillsInv /\ AcceptedInv
    BY DEF IndInv
  <1> DEFINE Untouched(d) == \E w \in Workers : worker[w] \in {"check", "begin", "handle"} /\ job[w] = d
  <1> USE DEF intake, queues, turns, crew, run, seen
  <1>1. CASE /\ \A d \in Deliveries : outcome'[d] = "accepted" => outcome[d] = "accepted"
             /\ UNCHANGED <<jobs, worker, job>>
    BY <1>0, <1>1 DEF AcceptedInv, Queued
  <1>2. ASSUME NEW d \in Deliveries, Receive(d) PROVE AcceptedInv'
    BY <1>0, <1>1, <1>2 DEF Receive, TypeInv
  <1>3. CASE PutJob
    <2>1. UNCHANGED <<worker, job>> /\ receiver.of \in Deliveries
      BY <1>0, <1>3 DEF PutJob, TypeInv, Free
    <2>2. CASE jobs' = Append(jobs, receiver.of) /\ outcome' = [outcome EXCEPT ![receiver.of] = "accepted"]
      <3>1. \A d \in Deliveries : Queued(d)' <=> Queued(d) \/ d = receiver.of
        <4>1. /\ Len(jobs') = Len(jobs) + 1 /\ Len(jobs) \in Nat
              /\ \A i \in 1 .. Len(jobs) : jobs'[i] = jobs[i]
              /\ jobs'[Len(jobs) + 1] = receiver.of
              /\ DOMAIN jobs = 1 .. Len(jobs) /\ DOMAIN jobs' = 1 .. Len(jobs')
          BY <1>0, <2>1, <2>2, AppendProperties, LenProperties DEF TypeInv
        <4> QED BY <4>1 DEF Queued
      <3> QED BY <1>0, <2>1, <2>2, <3>1 DEF AcceptedInv, TypeInv
    <2>3. CASE UNCHANGED <<jobs, outcome>>
      BY <1>1, <2>1, <2>3
    <2> QED BY <1>3, <2>2, <2>3 DEF PutJob
  <1>4. CASE CancelFull
    BY <1>0, <1>1, <1>4 DEF CancelFull, TypeInv
  <1>5. ASSUME NEW w \in Workers, Work(w) PROVE AcceptedInv'
    <2>1. CASE Get(w)
      <3>1. \A e : Queued(e) <=> Queued(e)' \/ e = Head(jobs)
        BY <1>0, <2>1, QueuedHead DEF Get
      <3>2. \A d \in Deliveries : Untouched(d) \/ d = Head(jobs) => Untouched(d)'
        BY <1>0, <2>1 DEF Get, TypeInv
      <3>3. outcome' = outcome
        BY <2>1 DEF Get
      <3> QED BY <1>0, <3>1, <3>2, <3>3 DEF AcceptedInv
    <2>2. CASE (Check(w) \/ BeginTurn(w)) /\ stopping
      <3>1. /\ worker' = [worker EXCEPT ![w] = "account"] /\ UNCHANGED <<jobs, job>>
            /\ outcome' = [outcome EXCEPT ![job[w]] = "dropped"]
        BY <2>2 DEF Check, BeginTurn, Drop
      <3> QED BY <1>0, <3>1 DEF AcceptedInv, Queued, TypeInv
    <2>3. CASE (Check(w) \/ BeginTurn(w)) /\ ~stopping
      <3>1. \A d \in Deliveries : Untouched(d) => Untouched(d)'
        BY <1>0, <2>3 DEF Check, BeginTurn, TypeInv
      <3>2. UNCHANGED <<jobs, outcome>>
        BY <2>3 DEF Check, BeginTurn
      <3> QED BY <1>0, <3>1, <3>2 DEF AcceptedInv, Queued
    <2>4. CASE Handle(w)
      <3>1. /\ worker' = [worker EXCEPT ![w] = "finish"] /\ UNCHANGED <<jobs, job>>
            /\ \E end \in {"served", "failed"} : outcome' = [outcome EXCEPT ![job[w]] = end]
        BY <2>4 DEF Handle
      <3> QED BY <1>0, <3>1 DEF AcceptedInv, Queued, TypeInv
    <2>5. CASE FinishTurn(w) \/ Account(w)
      <3>1. \A d \in Deliveries : Untouched(d) => Untouched(d)'
        BY <1>0, <2>5 DEF FinishTurn, Account, TypeInv
      <3>2. UNCHANGED <<jobs, outcome>>
        BY <2>5 DEF FinishTurn, Account
      <3> QED BY <1>0, <3>1, <3>2 DEF AcceptedInv, Queued
    <2> QED BY <1>5, <2>1, <2>2, <2>3, <2>4, <2>5 DEF Work
  <1>6. CASE StartWorkers
    BY <1>0, <1>6 DEF StartWorkers, GoOn, StageInv, AcceptedInv, Queued
  <1>7. CASE DiscardJob
    <2>1. CASE jobs # <<>> /\ jobs' = Tail(jobs) /\ outcome' = [outcome EXCEPT ![Head(jobs)] = "dropped"]
      <3>1. \A e : Queued(e) <=> Queued(e)' \/ e = Head(jobs)
        BY <1>0, <2>1, QueuedHead
      <3>2. Head(jobs) \in Deliveries
        BY <1>0, <1>7, <2>1, DiscardHead DEF DiscardJob
      <3> QED BY <1>0, <1>7, <2>1, <3>1, <3>2 DEF DiscardJob, AcceptedInv, TypeInv
    <2>2. CASE UNCHANGED <<jobs, outcome>>
      BY <1>1, <1>7, <2>2 DEF DiscardJob
    <2> QED BY <1>7, <2>1, <2>2 DEF DiscardJob
  <1>8. CASE PutPill
    <2>1. UNCHANGED <<outcome, worker, job>>
      BY <1>8 DEF PutPill
    <2>2. \A d \in Deliveries : Queued(d) => Queued(d)'
      <3>1. CASE jobs' = Append(jobs, Pill)
        <4>1. /\ Len(jobs') = Len(jobs) + 1 /\ Len(jobs) \in Nat
              /\ \A i \in 1 .. Len(jobs) : jobs'[i] = jobs[i]
              /\ DOMAIN jobs = 1 .. Len(jobs) /\ DOMAIN jobs' = 1 .. Len(jobs')
          BY <1>0, <3>1, AppendProperties, LenProperties DEF TypeInv
        <4> QED BY <4>1 DEF Queued
      <3>2. CASE jobs' = jobs
        BY <3>2 DEF Queued
      <3> QED BY <1>8, <3>1, <3>2 DEF PutPill
    <2> QED BY <1>0, <2>1, <2>2 DEF AcceptedInv
  <1>9. CASE UNCHANGED <<outcome, jobs, worker, job>>
    BY <1>1, <1>9
  <1>10. CASE PutNotice \/ Notify
    BY <1>9, <1>10 DEF PutNotice, Notify, GetNotice, PostNotice, AccountNotice
  <1>11. CASE SignalStop \/ ReturnEarly \/ Connect \/ Wake \/ StopAccepting \/ StopWorkers
    BY <1>9, <1>11 DEF SignalStop, ReturnEarly, Connect, Wake, StopAccepting, StopWorkers
  <1>12. CASE DiscardNotice \/ JoinQueues \/ JoinWorkers \/ UNCHANGED vars
    BY <1>9, <1>12 DEF DiscardNotice, JoinQueues, JoinWorkers, vars
  <1> QED
    BY <1>2, <1>3, <1>4, <1>5, <1>6, <1>7, <1>8, <1>10, <1>11, <1>12 DEF Next, Intake, Run, Ended

\* Nothing has arrived yet.
LEMMA InitIndInv == Init => IndInv
  <1> SUFFICES ASSUME Init PROVE IndInv
    OBVIOUS
  <1> USE DEF Init
  <1>1. TypeInv
    BY EmptySeq DEF TypeInv, Empty, Running
  <1>2. HandsInv
    BY DEF HandsInv, HasMention, Empty
  <1>3. PlacesInv
    <2>1. \A d \in Deliveries : ~Waiting(d) /\ ~Coming(d)
      BY DEF Waiting, Queued, Held, Coming, Free
    <2> QED BY <2>1 DEF PlacesInv, QueuedApart, HeldApart, QueuedHeldApart, ComingApart, WaitersInv, WaitingInv,
               ActiveInv, HasMention, InTurn
  <1>4. JobsInv
    <2>1. Loaded = {}
      BY DEF Loaded
    <2> QED BY <2>1, FS_EmptySet DEF JobsInv
  <1>5. NoticesInv
    BY EmptySeq DEF NoticesInv, Empty
  <1>6. StageInv
    BY DEF StageInv, Running, Discarded, Joined
  <1>7. PillsInv
    BY DEF PillsInv, Pilled, Swallowed
  <1>8. AcceptedInv
    BY DEF AcceptedInv
  <1> QED BY <1>1, <1>2, <1>3, <1>4, <1>5, <1>6, <1>7, <1>8 DEF IndInv

\* The invariant holds in every state that the adapter reaches.
LEMMA SpecIndInv == Spec => []IndInv
  <1>1. IndInv /\ [Next]_vars => IndInv'
    BY TypeStep, HandsStep, PlacesStep, JobsStep, NoticesStep, StageStep, PillsStep, AcceptedStep DEF IndInv
  <1> QED BY InitIndInv, <1>1, PTL DEF Spec

-------------------------------------------------------------------------------
\* No Slack thread is refused service by a mention that nobody will ever
\* handle: _turn_waiters and _active_turns hold only what receive_mention is
\* about to queue, what is queued, and what a worker works on.
THEOREM NotStranded == Spec => []NoThreadStranded
  <1>1. IndInv => NoThreadStranded
    <2> SUFFICES ASSUME IndInv, NEW k \in Threads
                 PROVE  /\ \A i \in DOMAIN waiters[k] : Waiting(waiters[k][i])
                        /\ k \in active => \E w \in Workers : InTurn(w) /\ ThreadOf[job[w]] = k
      BY DEF NoThreadStranded, Waiting, Coming, InTurn
    <2>1. waiters[k] = <<>> \/ \E d : waiters[k] = <<d>> /\ Waiting(d)
      BY DEF IndInv, PlacesInv, WaitersInv
    <2>2. \A i \in DOMAIN waiters[k] : Waiting(waiters[k][i])
      BY <2>1
    <2> QED BY <2>2 DEF IndInv, PlacesInv, ActiveInv
  <1> QED BY SpecIndInv, <1>1, PTL

\* _begin_turn never waits: its condition holds whenever a worker gets there.
THEOREM TurnIsFree == Spec => []BeginNeverWaits
  <1>1. IndInv => BeginNeverWaits
    <2> SUFFICES ASSUME IndInv, NEW w \in Workers, worker[w] = "begin" PROVE MyTurn(w)
      BY DEF BeginNeverWaits
    <2>1. job[w] \in Deliveries /\ HasMention(w) /\ Waiting(job[w])
      BY DEF IndInv, HandsInv, HasMention, Waiting, Held
    <2>2. waiters[ThreadOf[job[w]]] = <<job[w]>>
      BY <2>1 DEF IndInv, PlacesInv, WaitingInv
    <2>3. ThreadOf[job[w]] \notin active
      BY <2>1 DEF IndInv, PlacesInv, ActiveInv, HeldApart, HasMention, InTurn
    <2> QED BY <2>2, <2>3 DEF MyTurn
  <1> QED BY SpecIndInv, <1>1, PTL

\* join() waits for exactly the items that are queued or in hand, the queues
\* keep their sizes, and no mention stands behind a pill.
THEOREM QueueAccounts == Spec => []QueuesAccounted
  <1>1. IndInv => QueuesAccounted
    <2> SUFFICES ASSUME IndInv PROVE QueuesAccounted
      OBVIOUS
    <2>1. \A i, k \in DOMAIN jobs : i < k /\ jobs[i] = Pill => jobs[k] = Pill
      <3>1. DOMAIN jobs = 1 .. Len(jobs)
        BY LenProperties DEF IndInv, TypeInv
      <3>2. Pilled \subseteq Discarded
        BY DEF Pilled, Discarded
      <3> QED BY <3>1, <3>2 DEF IndInv, PillsInv, StageInv
    <2> QED BY <2>1 DEF IndInv, JobsInv, NoticesInv, Loaded, QueuesAccounted
  <1> QED BY SpecIndInv, <1>1, PTL

\* When run() returns, so that the store is closed next, no worker runs, no job
\* is queued and no mention that was accepted is left.
THEOREM QuietAtEnd == Spec => []EndedIsQuiet
  <1>1. IndInv => EndedIsQuiet
    <2> SUFFICES ASSUME IndInv, main = "ended"
                 PROVE  /\ jobs = <<>> /\ unfinished = 0 /\ active = {}
                        /\ \A w \in Workers : worker[w] \in {"unstarted", "gone"}
                        /\ \A d \in Deliveries : outcome[d] # "accepted"
                        /\ receiver.at # "put"
      BY DEF EndedIsQuiet
    <2>0. TypeInv /\ HandsInv /\ PlacesInv /\ JobsInv /\ StageInv /\ AcceptedInv
      BY DEF IndInv
    <2>1. jobs = <<>> /\ \A w \in Workers : worker[w] \in {"unstarted", "gone"}
      BY <2>0 DEF StageInv
    <2>2. Loaded = {}
      BY <2>0, <2>1 DEF HandsInv, Empty, Loaded
    <2>3. unfinished = 0
      BY <2>0, <2>1, <2>2, FS_EmptySet DEF JobsInv
    <2>4. active = {}
      BY <2>0, <2>1 DEF PlacesInv, ActiveInv, InTurn, TypeInv
    <2>5. \A d \in Deliveries : outcome[d] # "accepted"
      BY <2>0, <2>1 DEF AcceptedInv, Queued
    <2>6. receiver.at # "put"
      BY <2>0 DEF StageInv, Running, Free
    <2> QED BY <2>1, <2>3, <2>4, <2>5, <2>6
  <1> QED BY SpecIndInv, <1>1, PTL

\* The turns are a mutual exclusion by Slack thread: _begin_turn enters, and
\* _finish_turn leaves.
THEOREM TurnsAreExclusive == Spec => RefinesMutex
  <1> DEFINE in == [w \in Workers |-> IF worker[w] \in {"handle", "finish"} THEN ThreadOf[job[w]] ELSE None]
  <1>1. Init => Turn!Init
    BY DEF Init, Turn!Init
  <1>2. IndInv /\ [Next]_vars => [Turn!Next]_in
    <2> SUFFICES ASSUME IndInv, [Next]_vars PROVE [Turn!Next]_in
      OBVIOUS
    <2>0. TypeInv /\ HandsInv /\ PlacesInv /\ StageInv
      BY DEF IndInv
    <2> USE DEF queues, turns, crew
    <2>1. CASE UNCHANGED <<worker, job>>
      BY <2>1
    <2>2. ASSUME NEW w \in Workers, Work(w) PROVE [Turn!Next]_in
      <3>1. CASE Get(w) \/ Check(w) \/ Handle(w) \/ Account(w)
        <4>1. \A v \in Workers : /\ InTurn(v)' <=> InTurn(v)
                                 /\ InTurn(v) => job'[v] = job[v]
          BY <2>0, <3>1 DEF Get, Check, Drop, Handle, Account, InTurn, TypeInv
        <4> QED BY <4>1 DEF InTurn
      <3>2. CASE BeginTurn(w) /\ stopping
        <4>1. \A v \in Workers : InTurn(v)' <=> InTurn(v)
          BY <2>0, <3>2 DEF BeginTurn, Drop, InTurn, TypeInv
        <4> QED BY <3>2, <4>1 DEF BeginTurn, InTurn
      <3>3. CASE BeginTurn(w) /\ ~stopping
        <4> DEFINE k == ThreadOf[job[w]]
        <4>1. k \in Threads /\ k \notin active /\ worker[w] = "begin" /\ job' = job
              /\ worker' = [worker EXCEPT ![w] = "handle"]
          BY <2>0, <3>3 DEF BeginTurn, MyTurn, HandsInv, HasMention
        <4>2. \A v \in Workers : in[v] # k
          BY <2>0, <4>1 DEF PlacesInv, ActiveInv, InTurn
        <4>3. in' = [in EXCEPT ![w] = k]
          BY <2>0, <4>1 DEF TypeInv
        <4>4. \E l \in Threads : Turn!Acquire(w, l)
          BY <4>1, <4>2, <4>3 DEF Turn!Acquire
        <4> QED BY <4>4 DEF Turn!Next
      <3>4. CASE FinishTurn(w)
        <4>1. worker[w] = "finish" /\ job' = job /\ worker' = [worker EXCEPT ![w] = "account"]
              /\ ThreadOf[job[w]] \in Threads
          BY <2>0, <3>4 DEF FinishTurn, HandsInv, HasMention
        <4>2. in' = [in EXCEPT ![w] = None] /\ in[w] # None
          BY <2>0, <4>1 DEF TypeInv
        <4>3. Turn!Release(w)
          BY <4>2 DEF Turn!Release
        <4> QED BY <4>3 DEF Turn!Next
      <3> QED BY <2>2, <3>1, <3>2, <3>3, <3>4 DEF Work
    <2>3. CASE StartWorkers
      BY <2>0, <2>3 DEF StartWorkers, GoOn, StageInv
    <2>4. CASE (\E d \in Deliveries : Receive(d)) \/ Intake \/ Notify
      BY <2>1, <2>4 DEF Receive, Intake, PutJob, CancelFull, PutNotice, Notify, GetNotice, PostNotice,
         AccountNotice
    <2>5. CASE SignalStop \/ ReturnEarly \/ Connect \/ Wake \/ StopAccepting \/ StopWorkers
      BY <2>1, <2>5 DEF SignalStop, ReturnEarly, Connect, Wake, StopAccepting, StopWorkers
    <2>6. CASE DiscardJob \/ DiscardNotice \/ JoinQueues \/ PutPill \/ JoinWorkers \/ UNCHANGED vars
      BY <2>1, <2>6 DEF DiscardJob, DiscardNotice, JoinQueues, PutPill, JoinWorkers, vars
    <2> QED BY <2>2, <2>3, <2>4, <2>5, <2>6 DEF Next, Run, Ended
  <1> QED BY <1>1, <1>2, SpecIndInv, PTL DEF Spec, RefinesMutex, Turn!Spec
===============================================================================
