------------------------- MODULE DiscordAdapterProofs -------------------------
(***************************************************************************)
(* Theorems about DiscordAdapter, for any mentions and channels, any       *)
(* number of worker tasks and any queue size.                              *)
(*                                                                         *)
(* PendingIsExact is not inductive: that no channel has two mentions in    *)
(* hand must be known of each place of the queue and each worker, and that *)
(* no mention arrives behind the back of _shutdown must be known of every  *)
(* stage of it.                                                            *)
(***************************************************************************)
EXTENDS DiscordAdapter, FiniteSetTheorems, SequenceTheorems, TLAPS

\* The stages of _shutdown: the queue has been discarded, the queue has been
\* joined, the tasks have been awaited.
Stopped == {"join", "gather", "close", "ended", "failed"}
Joined == {"gather", "close", "ended", "failed"}
Over == {"close", "ended", "failed"}

TypeInv ==
    /\ queueSize \in Nat \ {0}
    /\ accepting \in BOOLEAN /\ signalled \in BOOLEAN
    /\ jobs \in Seq(Mentions \cup {Pill}) /\ unfinished \in Nat
    /\ pending \subseteq Channels
    /\ worker \in [Workers -> {"unstarted", "get", "handle", "finish", "gone"}]
    /\ job \in [Workers -> Mentions \cup {None}]
    /\ client \in {"new", "starting", "open", "failed", "closed"}
    /\ main \in {"begin", "poll"} \cup Stopped
    /\ DOMAIN outcome = Mentions

\* A worker has a job while it handles it.
HandsInv == \A w \in Workers : job[w] # None <=> worker[w] \in {"handle", "finish"}

\* Mentions in hand, by their place.
Queued(m) == m # Pill /\ \E i \in 1 .. Len(jobs) : jobs[i] = m
Held(m) == m # None /\ \E w \in Workers : job[w] = m

\* No two mentions in hand are of the same channel.
QueuedApart ==
    \A i, k \in 1 .. Len(jobs) :
        i # k /\ jobs[i] # Pill /\ jobs[k] # Pill => ChannelOf[jobs[i]] # ChannelOf[jobs[k]]

HeldApart ==
    \A w, v \in Workers :
        w # v /\ job[w] # None /\ job[v] # None => ChannelOf[job[w]] # ChannelOf[job[v]]

QueuedHeldApart ==
    \A i \in 1 .. Len(jobs), w \in Workers :
        jobs[i] # Pill /\ job[w] # None => ChannelOf[jobs[i]] # ChannelOf[job[w]]

\* _pending_turns has the channels of the mentions in hand.
PendingInv ==
    \A c \in Channels :
        c \in pending <=> \E m \in Mentions : (Queued(m) \/ Held(m)) /\ ChannelOf[m] = c

PlacesInv == QueuedApart /\ HeldApart /\ QueuedHeldApart /\ PendingInv

\* The task count of the queue.
JobsInv ==
    /\ Len(jobs) <= queueSize
    /\ unfinished = Len(jobs) + Cardinality(Busy)

\* What there can still be at each stage.
StageInv ==
    /\ accepting => main \notin Stopped
    /\ main = "begin" =>
         /\ client = "new" /\ jobs = <<>>
         /\ \A w \in Workers : worker[w] = "unstarted"
    /\ main \notin Joined => \A i \in 1 .. Len(jobs) : jobs[i] # Pill
    /\ main \in Stopped => \A i \in 1 .. Len(jobs) : jobs[i] = Pill
    /\ main \in Joined => \A w \in Workers : job[w] = None
    /\ main \in Over => \A w \in Workers : worker[w] \in {"unstarted", "gone"}
    /\ client = "closed" => main = "ended"

\* An accepted mention is in the queue or with the service.
AcceptedInv ==
    \A m \in Mentions : outcome[m] = "accepted" =>
        Queued(m) \/ \E w \in Workers : worker[w] = "handle" /\ job[w] = m

IndInv == TypeInv /\ HandsInv /\ PlacesInv /\ JobsInv /\ StageInv /\ AcceptedInv

-------------------------------------------------------------------------------
USE DiscordAssumption

\* What the queue and its head and tail hold.
LEMMA HeadAndTail ==
  ASSUME TypeInv, jobs # <<>>, jobs' = Tail(jobs)
  PROVE  /\ Len(jobs) \in Nat \ {0} /\ Len(jobs') = Len(jobs) - 1 /\ 1 \in 1 .. Len(jobs)
         /\ jobs' \in Seq(Mentions \cup {Pill}) /\ Head(jobs) \in Mentions \cup {Pill}
         /\ Head(jobs) = jobs[1]
         /\ \A i \in 1 .. Len(jobs') : jobs'[i] = jobs[i + 1] /\ i + 1 \in 1 .. Len(jobs)
         /\ \A m \in Mentions : Queued(m) <=> Queued(m)' \/ m = Head(jobs)
  <1>1. /\ Len(jobs) \in Nat \ {0} /\ Len(jobs') = Len(jobs) - 1 /\ 1 \in 1 .. Len(jobs)
        /\ jobs' \in Seq(Mentions \cup {Pill}) /\ Head(jobs) \in Mentions \cup {Pill}
        /\ Head(jobs) = jobs[1]
        /\ \A i \in 1 .. Len(jobs') : jobs'[i] = jobs[i + 1] /\ i + 1 \in 1 .. Len(jobs)
    BY HeadTailProperties, EmptySeq DEF TypeInv
  <1>2. ASSUME NEW m \in Mentions, Queued(m) PROVE Queued(m)' \/ m = Head(jobs)
    <2>1. PICK i \in 1 .. Len(jobs) : jobs[i] = m
      BY <1>2 DEF Queued
    <2>2. CASE i # 1
      <3>1. i - 1 \in 1 .. Len(jobs') /\ jobs'[i - 1] = m
        BY <1>1, <2>1, <2>2
      <3> QED BY <3>1 DEF Queued
    <2> QED BY <1>1, <2>1, <2>2
  <1>3. \A m \in Mentions : Queued(m)' \/ m = Head(jobs) => Queued(m)
    BY <1>1 DEF Queued
  <1> QED BY <1>1, <1>2, <1>3

\* The queue after a put.
LEMMA AfterPut ==
  ASSUME TypeInv, NEW e \in Mentions \cup {Pill}, jobs' = Append(jobs, e)
  PROVE  /\ Len(jobs) \in Nat /\ Len(jobs') = Len(jobs) + 1 /\ jobs'[Len(jobs) + 1] = e
         /\ jobs' \in Seq(Mentions \cup {Pill})
         /\ \A i \in 1 .. Len(jobs) : jobs'[i] = jobs[i]
         /\ \A m \in Mentions : Queued(m)' <=> Queued(m) \/ m = e
  <1>1. /\ Len(jobs) \in Nat /\ Len(jobs') = Len(jobs) + 1 /\ jobs'[Len(jobs) + 1] = e
        /\ jobs' \in Seq(Mentions \cup {Pill})
        /\ \A i \in 1 .. Len(jobs) : jobs'[i] = jobs[i]
    BY AppendProperties, LenProperties DEF TypeInv
  <1> QED BY <1>1 DEF Queued

\* The workers with a job can be counted.
LEMMA BusyCount == IsFiniteSet(Busy) /\ Cardinality(Busy) \in Nat
  <1>1. Busy \subseteq Workers
    BY DEF Busy
  <1> QED BY <1>1, FS_Subset, FS_CardinalityType

\* The tasks that were started can be counted.
LEMMA StartedCount == IsFiniteSet(Started) /\ Cardinality(Started) \in Nat
  <1>1. Started \subseteq Workers
    BY DEF Started
  <1> QED BY <1>1, FS_Subset, FS_CardinalityType

\* A worker with a job is counted.
LEMMA BusyPositive ==
  ASSUME NEW w \in Workers, TypeInv, JobsInv, job[w] # None
  PROVE  unfinished - 1 \in Nat
  <1>1. Cardinality(Busy) # 0
    BY BusyCount, FS_EmptySet DEF Busy
  <1>2. Len(jobs) \in Nat
    BY LenProperties DEF TypeInv
  <1> QED BY <1>1, <1>2, BusyCount DEF JobsInv, TypeInv

\* When every item is accounted for, the queue is empty and no worker has a job.
LEMMA NothingUnfinished ==
  ASSUME TypeInv, JobsInv, unfinished = 0
  PROVE  jobs = <<>> /\ Len(jobs) = 0 /\ \A w \in Workers : job[w] = None
  <1>1. Len(jobs) \in Nat /\ Len(jobs) = 0 /\ Cardinality(Busy) = 0
    BY LenProperties, BusyCount DEF TypeInv, JobsInv
  <1>2. Busy = {}
    BY <1>1, BusyCount, FS_EmptySet
  <1> QED BY <1>1, <1>2, EmptySeq DEF Busy, TypeInv

\* The pills that are put: a sequence with one for each task.
LEMMA PutPillsQueue ==
  ASSUME TypeInv, JobsInv, PutPills
  PROVE  /\ jobs = <<>> /\ \A w \in Workers : job[w] = None
         /\ jobs' \in Seq(Mentions \cup {Pill}) /\ Len(jobs') = Cardinality(Started)
         /\ \A i \in 1 .. Len(jobs') : jobs'[i] = Pill
  <1> DEFINE n == Cardinality(Started)
             pills == [i \in 1 .. n |-> Pill]
  <1>1. jobs = <<>> /\ \A w \in Workers : job[w] = None
    BY NothingUnfinished DEF PutPills
  <1>2. n \in Nat
    BY StartedCount
  <1>3. pills \in Seq(Mentions \cup {Pill}) /\ Len(pills) = n
    <2> HIDE DEF n
    <2> QED BY <1>2
  <1>4. jobs' = pills
    BY <1>1, <1>3, ConcatEmptySeq DEF PutPills
  <1> QED BY <1>1, <1>3, <1>4

\* Steps keep the variables in their types.
LEMMA TypeStep == IndInv /\ [Next]_vars => TypeInv'
  <1> SUFFICES ASSUME IndInv, [Next]_vars PROVE TypeInv'
    OBVIOUS
  <1>0. TypeInv /\ HandsInv /\ JobsInv /\ StageInv /\ Len(jobs) \in Nat /\ Cardinality(Busy) \in Nat
    BY LenProperties, BusyCount DEF IndInv, TypeInv
  <1> USE DEF crew
  <1>1. ASSUME NEW m \in Mentions, Receive(m) PROVE TypeInv'
    <2>1. CASE jobs' = Append(jobs, m) /\ unfinished' = unfinished + 1
      <3>1. jobs' \in Seq(Mentions \cup {Pill})
        BY <1>0, <2>1, AfterPut
      <3>2. unfinished' \in Nat
        BY <1>0, <2>1 DEF TypeInv
      <3> QED BY <1>0, <1>1, <3>1, <3>2 DEF Receive, TypeInv
    <2>2. CASE UNCHANGED <<jobs, unfinished>>
      BY <1>0, <1>1, <2>2 DEF Receive, TypeInv
    <2> QED BY <1>1, <2>1, <2>2 DEF Receive
  <1>2. ASSUME NEW w \in Workers, Get(w) PROVE TypeInv'
    <2>1. jobs' \in Seq(Mentions \cup {Pill}) /\ Head(jobs) \in Mentions \cup {Pill} /\ unfinished - 1 \in Nat
      BY <1>0, <1>2, HeadAndTail DEF Get, JobsInv, TypeInv
    <2>2. worker' \in [Workers -> {"unstarted", "get", "handle", "finish", "gone"}]
      BY <1>0, <1>2 DEF Get, TypeInv
    <2>3. job' \in [Workers -> Mentions \cup {None}]
      BY <1>0, <1>2, <2>1 DEF Get, TypeInv
    <2>4. pending' \subseteq Channels /\ unfinished' \in Nat /\ DOMAIN outcome' = Mentions
      BY <1>0, <1>2, <2>1 DEF Get, TypeInv
    <2> QED BY <1>0, <1>2, <2>1, <2>2, <2>3, <2>4 DEF Get, TypeInv
  <1>3. ASSUME NEW w \in Workers, Handle(w) PROVE TypeInv'
    BY <1>0, <1>3 DEF Handle, TypeInv
  <1>4. ASSUME NEW w \in Workers, Finish(w) PROVE TypeInv'
    <2>1. unfinished - 1 \in Nat
      BY <1>0, <1>4, BusyPositive DEF Finish, HandsInv
    <2> QED BY <1>0, <1>4, <2>1 DEF Finish, TypeInv
  <1>5. CASE Start
    BY <1>0, <1>5 DEF Start, GoOn, TypeInv
  <1>6. CASE Discard
    <2>1. unfinished - Len(jobs) \in Nat /\ <<>> \in Seq(Mentions \cup {Pill})
      BY <1>0, EmptySeq DEF JobsInv, TypeInv
    <2> QED BY <1>0, <1>6, <2>1 DEF Discard, TypeInv, Stopped
  <1>7. CASE PutPills
    BY <1>0, <1>7, PutPillsQueue, StartedCount DEF PutPills, GoOn, TypeInv, Stopped
  <1>8. CASE PillsDoNotFit \/ Gather \/ CloseClient
    BY <1>0, <1>8 DEF PillsDoNotFit, Gather, CloseClient, GoOn, TypeInv, Stopped
  <1>9. CASE SignalStop \/ ClientOpens \/ ClientFails \/ UNCHANGED vars
    BY <1>0, <1>9 DEF SignalStop, ClientOpens, ClientFails, vars, TypeInv
  <1> QED
    BY <1>1, <1>2, <1>3, <1>4, <1>5, <1>6, <1>7, <1>8, <1>9 DEF Next, Run, Work, Ended

\* A worker task has a job exactly while it handles it.
LEMMA HandsStep == IndInv /\ [Next]_vars => HandsInv'
  <1> SUFFICES ASSUME IndInv, [Next]_vars PROVE HandsInv'
    OBVIOUS
  <1>0. TypeInv /\ HandsInv /\ JobsInv /\ StageInv
    BY DEF IndInv
  <1>1. ASSUME NEW w \in Workers, Get(w) PROVE HandsInv'
    <2>1. Head(jobs) \in Mentions \cup {Pill}
      BY <1>0, <1>1, HeadAndTail DEF Get
    <2> QED BY <1>0, <1>1, <2>1 DEF Get, HandsInv, TypeInv, crew
  <1>2. ASSUME NEW w \in Workers, Handle(w) \/ Finish(w) PROVE HandsInv'
    BY <1>0, <1>2 DEF Handle, Finish, HandsInv, TypeInv
  <1>3. CASE Start
    BY <1>0, <1>3 DEF Start, GoOn, StageInv, HandsInv
  <1>4. CASE PillsDoNotFit
    BY <1>0, <1>4, NothingUnfinished DEF PillsDoNotFit, HandsInv
  <1>5. CASE UNCHANGED <<worker, job>>
    BY <1>0, <1>5 DEF HandsInv
  <1>6. CASE (\E m \in Mentions : Receive(m)) \/ SignalStop \/ ClientOpens \/ ClientFails \/ UNCHANGED vars
    BY <1>5, <1>6 DEF Receive, SignalStop, ClientOpens, ClientFails, vars, crew
  <1>7. CASE Discard \/ PutPills \/ Gather \/ CloseClient
    BY <1>5, <1>7 DEF Discard, PutPills, Gather, CloseClient, crew
  <1> QED BY <1>1, <1>2, <1>3, <1>4, <1>6, <1>7 DEF Next, Run, Work, Ended

\* The task count goes up with the queue, and down with what is done.
LEMMA JobsStep == IndInv /\ [Next]_vars => JobsInv'
  <1> SUFFICES ASSUME IndInv, [Next]_vars PROVE JobsInv'
    OBVIOUS
  <1>0. TypeInv /\ HandsInv /\ JobsInv /\ StageInv /\ Len(jobs) \in Nat /\ Cardinality(Busy) \in Nat
    BY LenProperties, BusyCount DEF IndInv, TypeInv
  <1>1. CASE UNCHANGED <<queueSize, job>> /\ Len(jobs') <= queueSize
             /\ unfinished' - unfinished = Len(jobs') - Len(jobs) /\ unfinished' \in Nat /\ Len(jobs') \in Nat
    <2>1. Busy' = Busy
      BY <1>1 DEF Busy
    <2> QED BY <1>0, <1>1, <2>1, SMTT(20) DEF JobsInv, TypeInv
  <1>2. CASE UNCHANGED <<queueSize, job, jobs, unfinished>>
    BY <1>0, <1>2 DEF JobsInv, Busy
  <1>3. ASSUME NEW m \in Mentions, Receive(m) PROVE JobsInv'
    <2>1. CASE jobs' = Append(jobs, m) /\ unfinished' = unfinished + 1 /\ Len(jobs) < queueSize
      <3>1. Len(jobs') = Len(jobs) + 1 /\ UNCHANGED <<queueSize, job>>
        BY <1>0, <1>3, <2>1, AfterPut DEF Receive, crew
      <3> QED BY <1>0, <1>1, <2>1, <3>1 DEF TypeInv
    <2>2. CASE UNCHANGED <<jobs, unfinished>>
      BY <1>2, <1>3, <2>2 DEF Receive, crew
    <2> QED BY <1>3, <2>1, <2>2 DEF Receive
  <1>4. ASSUME NEW w \in Workers, Get(w) PROVE JobsInv'
    <2>1. /\ Len(jobs') = Len(jobs) - 1 /\ Len(jobs) # 0 /\ Head(jobs) \in Mentions \cup {Pill}
          /\ queueSize' = queueSize
      BY <1>0, <1>4, HeadAndTail DEF Get
    <2>2. CASE job' = [job EXCEPT ![w] = Head(jobs)] /\ Head(jobs) # Pill /\ unfinished' = unfinished
      <3>1. Busy' = Busy \cup {w} /\ w \notin Busy
        BY <1>0, <1>4, <2>1, <2>2 DEF Busy, TypeInv, HandsInv, Get
      <3>2. Cardinality(Busy') = Cardinality(Busy) + 1
        BY <3>1, BusyCount, FS_AddElement
      <3> QED BY <1>0, <2>1, <2>2, <3>2 DEF JobsInv, TypeInv
    <2>3. CASE job' = job /\ unfinished' = unfinished - 1
      BY <1>0, <1>1, <2>1, <2>3 DEF JobsInv, TypeInv
    <2> QED BY <1>4, <2>2, <2>3 DEF Get, crew
  <1>5. ASSUME NEW w \in Workers, Handle(w) PROVE JobsInv'
    BY <1>2, <1>5 DEF Handle
  <1>6. ASSUME NEW w \in Workers, Finish(w) PROVE JobsInv'
    <2>1. Busy' = Busy \ {w} /\ w \in Busy
      BY <1>0, <1>6 DEF Busy, TypeInv, HandsInv, Finish
    <2>2. Cardinality(Busy') = Cardinality(Busy) - 1
      BY <2>1, BusyCount, FS_RemoveElement
    <2> QED BY <1>0, <1>6, <2>2 DEF Finish, JobsInv, TypeInv
  <1>7. CASE Discard
    <2>1. Len(jobs') = 0 /\ unfinished' = unfinished - Len(jobs) /\ UNCHANGED <<queueSize, job>>
      BY <1>7 DEF Discard, crew
    <2> QED BY <1>0, <1>1, <2>1 DEF JobsInv, TypeInv
  <1>8. CASE PutPills
    <2>1. /\ jobs = <<>> /\ Len(jobs') = Cardinality(Started) /\ unfinished = 0
          /\ Len(jobs) = 0 /\ unfinished' = Cardinality(Started) /\ UNCHANGED <<queueSize, job>>
          /\ Len(jobs) + Cardinality(Started) <= queueSize
      BY <1>0, <1>8, PutPillsQueue, NothingUnfinished DEF PutPills, crew
    <2> QED BY <1>0, <1>1, <2>1, StartedCount
  <1>9. CASE Start \/ PillsDoNotFit \/ Gather \/ CloseClient
    BY <1>2, <1>9 DEF Start, PillsDoNotFit, Gather, CloseClient, crew
  <1>10. CASE SignalStop \/ ClientOpens \/ ClientFails \/ UNCHANGED vars
    BY <1>2, <1>10 DEF SignalStop, ClientOpens, ClientFails, vars, crew
  <1> QED
    BY <1>3, <1>4, <1>5, <1>6, <1>7, <1>8, <1>9, <1>10 DEF Next, Run, Work, Ended

\* A step after which the same mentions are in the same hands.
LEMMA MovePlaces ==
  ASSUME PlacesInv, UNCHANGED <<jobs, job, pending>>
  PROVE  PlacesInv'
  BY DEF PlacesInv, QueuedApart, HeldApart, QueuedHeldApart, PendingInv, Queued, Held

\* A mention is taken only if its channel is free.
LEMMA ReceivePlaces ==
  ASSUME NEW m \in Mentions, TypeInv, PlacesInv, Receive(m)
  PROVE  PlacesInv'
  <1> DEFINE c == ChannelOf[m]
  <1>1. CASE UNCHANGED <<jobs, pending>>
    BY <1>1, MovePlaces DEF Receive, crew
  <1>2. CASE c \notin pending /\ pending' = pending \cup {c} /\ jobs' = Append(jobs, m)
    <2>1. /\ job' = job /\ c \in Channels /\ m # Pill
          /\ Len(jobs) \in Nat /\ Len(jobs') = Len(jobs) + 1 /\ jobs'[Len(jobs) + 1] = m
          /\ jobs \in Seq(Mentions \cup {Pill})
          /\ \A i \in 1 .. Len(jobs) : jobs'[i] = jobs[i]
          /\ \A n \in Mentions : Queued(n)' <=> Queued(n) \/ n = m
      BY <1>2, AfterPut DEF Receive, crew, TypeInv
    <2>2. /\ \A i \in 1 .. Len(jobs) : jobs[i] # Pill => ChannelOf[jobs[i]] # c
          /\ \A w \in Workers : job[w] # None => ChannelOf[job[w]] # c
      <3>1. \A n \in Mentions : Queued(n) \/ Held(n) => ChannelOf[n] # c
        BY <1>2 DEF PlacesInv, PendingInv
      <3> QED BY <3>1 DEF Queued, Held, TypeInv
    <2>3. QueuedApart'
      BY <2>1, <2>2 DEF PlacesInv, QueuedApart
    <2>4. QueuedHeldApart' /\ HeldApart'
      BY <2>1, <2>2 DEF PlacesInv, QueuedHeldApart, HeldApart
    <2>5. PendingInv'
      BY <1>2, <2>1 DEF PlacesInv, PendingInv, Held
    <2> QED BY <2>3, <2>4, <2>5 DEF PlacesInv
  <1> QED BY <1>1, <1>2 DEF Receive

\* A worker takes the head of the queue, or drops it with its place.
LEMMA GetPlaces ==
  ASSUME NEW w \in Workers, TypeInv, HandsInv, PlacesInv, Get(w)
  PROVE  PlacesInv'
  <1> DEFINE d == Head(jobs)
  <1>1. /\ Len(jobs) \in Nat \ {0} /\ Len(jobs') = Len(jobs) - 1 /\ 1 \in 1 .. Len(jobs)
        /\ d \in Mentions \cup {Pill} /\ d = jobs[1]
        /\ \A i \in 1 .. Len(jobs') : jobs'[i] = jobs[i + 1] /\ i + 1 \in 1 .. Len(jobs)
        /\ \A m \in Mentions : Queued(m) <=> Queued(m)' \/ m = Head(jobs)
    BY HeadAndTail DEF Get
  <1>2. job[w] = None
    BY DEF Get, HandsInv
  <1>3. QueuedApart'
    BY <1>1 DEF PlacesInv, QueuedApart
  <1>4. CASE d # Pill /\ job' = [job EXCEPT ![w] = d] /\ pending' = pending
    <2>1. QueuedHeldApart'
      BY <1>1, <1>4 DEF PlacesInv, QueuedApart, QueuedHeldApart, TypeInv
    <2>2. HeldApart'
      BY <1>1, <1>4 DEF PlacesInv, QueuedHeldApart, HeldApart, TypeInv
    <2>3. \A m \in Mentions : Held(m)' <=> Held(m) \/ m = d
      BY <1>1, <1>2, <1>4 DEF Held, TypeInv
    <2>4. PendingInv'
      BY <1>1, <1>4, <2>3 DEF PlacesInv, PendingInv
    <2> QED BY <1>3, <2>1, <2>2, <2>4 DEF PlacesInv
  <1>5. CASE d # Pill /\ job' = job /\ pending' = pending \ {ChannelOf[d]}
    <2>1. QueuedHeldApart' /\ HeldApart'
      BY <1>1, <1>5 DEF PlacesInv, QueuedHeldApart, HeldApart
    <2>2. \A m \in Mentions : Held(m)' <=> Held(m)
      BY <1>5 DEF Held
    <2>3. \A m \in Mentions : Queued(m)' \/ Held(m)' => ChannelOf[m] # ChannelOf[d]
      <3>1. \A m \in Mentions : Queued(m)' => ChannelOf[m] # ChannelOf[d]
        BY <1>1, <1>5 DEF Queued, PlacesInv, QueuedApart
      <3>2. \A m \in Mentions : Held(m)' => ChannelOf[m] # ChannelOf[d]
        BY <1>1, <1>5 DEF Held, PlacesInv, QueuedHeldApart
      <3> QED BY <3>1, <3>2
    <2>4. PendingInv'
      BY <1>1, <1>5, <2>2, <2>3 DEF PlacesInv, PendingInv
    <2> QED BY <1>3, <2>1, <2>4 DEF PlacesInv
  <1>6. CASE d = Pill /\ UNCHANGED <<job, pending>>
    <2>1. QueuedHeldApart' /\ HeldApart'
      BY <1>1, <1>6 DEF PlacesInv, QueuedHeldApart, HeldApart
    <2>2. \A m \in Mentions : (Queued(m)' <=> Queued(m)) /\ (Held(m)' <=> Held(m))
      BY <1>1, <1>6 DEF Held
    <2>3. PendingInv'
      BY <1>6, <2>2 DEF PlacesInv, PendingInv
    <2> QED BY <1>3, <2>1, <2>3 DEF PlacesInv
  <1> QED BY <1>4, <1>5, <1>6 DEF Get, crew

\* A worker that is done gives its channel back.
LEMMA FinishPlaces ==
  ASSUME NEW w \in Workers, TypeInv, HandsInv, PlacesInv, Finish(w)
  PROVE  PlacesInv'
  <1> DEFINE d == job[w]
  <1>1. /\ d \in Mentions /\ d # None /\ jobs' = jobs /\ job' = [job EXCEPT ![w] = None]
        /\ pending' = pending \ {ChannelOf[d]}
    BY DEF Finish, HandsInv, TypeInv
  <1>2. QueuedApart' /\ HeldApart' /\ QueuedHeldApart'
    BY <1>1 DEF PlacesInv, QueuedApart, HeldApart, QueuedHeldApart, TypeInv
  <1>3. \A m \in Mentions : Queued(m) => ChannelOf[m] # ChannelOf[d]
    BY <1>1 DEF Queued, PlacesInv, QueuedHeldApart
  <1>4. \A v \in Workers : v # w /\ job[v] # None => ChannelOf[job[v]] # ChannelOf[d]
    BY <1>1 DEF PlacesInv, HeldApart
  <1>5. \A m \in Mentions : Held(m)' <=> Held(m) /\ m # d
    BY <1>1, <1>4 DEF Held, TypeInv
  <1>6. \A m \in Mentions : Held(m)' => ChannelOf[m] # ChannelOf[d]
    BY <1>1, <1>4 DEF Held, TypeInv
  <1>7. \A m \in Mentions : Queued(m)' <=> Queued(m)
    BY <1>1 DEF Queued
  <1>8. PendingInv'
    <2> SUFFICES ASSUME NEW c \in Channels
                 PROVE  c \in pending' <=> \E m \in Mentions : (Queued(m)' \/ Held(m)') /\ ChannelOf[m] = c
      BY DEF PendingInv
    <2>1. c \in pending <=> \E m \in Mentions : (Queued(m) \/ Held(m)) /\ ChannelOf[m] = c
      BY DEF PlacesInv, PendingInv
    <2> QED BY <1>1, <1>3, <1>5, <1>6, <1>7, <2>1
  <1> QED BY <1>2, <1>8 DEF PlacesInv

\* The queue is thrown away with the places of its mentions.
LEMMA DiscardPlaces ==
  ASSUME TypeInv, HandsInv, PlacesInv, Discard
  PROVE  PlacesInv'
  <1>1. job' = job /\ jobs' = <<>> /\ Len(jobs') = 0
    BY DEF Discard, crew
  <1>2. QueuedApart' /\ HeldApart' /\ QueuedHeldApart'
    BY <1>1 DEF PlacesInv, QueuedApart, HeldApart, QueuedHeldApart
  <1>3. \A m \in Mentions : m \in QueuedMentions <=> Queued(m)
    <2>1. DOMAIN jobs = 1 .. Len(jobs)
      BY LenProperties DEF TypeInv
    <2> QED BY <2>1 DEF QueuedMentions, Queued
  <1>4. QueuedMentions \subseteq Mentions
    <2>1. \A i \in DOMAIN jobs : jobs[i] \in Mentions \cup {Pill}
      BY LenProperties DEF TypeInv
    <2> QED BY <2>1 DEF QueuedMentions
  <1>5. \A m, n \in Mentions : Queued(m) /\ Held(n) => ChannelOf[m] # ChannelOf[n]
    BY DEF Queued, Held, PlacesInv, QueuedHeldApart
  <1>6. \A m \in Mentions : ~Queued(m)' /\ (Held(m)' <=> Held(m))
    BY <1>1 DEF Queued, Held
  <1>7. pending' = pending \ {ChannelOf[m] : m \in QueuedMentions}
    BY DEF Discard
  <1>8. PendingInv'
    BY <1>3, <1>4, <1>5, <1>6, <1>7 DEF PlacesInv, PendingInv
  <1> QED BY <1>2, <1>8 DEF PlacesInv

\* Pills are nobody's mentions.
LEMMA PutPillsPlaces ==
  ASSUME TypeInv, JobsInv, PlacesInv, PutPills
  PROVE  PlacesInv'
  <1>1. /\ jobs = <<>> /\ \A i \in 1 .. Len(jobs') : jobs'[i] = Pill
        /\ UNCHANGED <<job, pending>> /\ Len(<<>>) = 0
    BY PutPillsQueue DEF PutPills, crew
  <1>2. \A m \in Mentions : ~Queued(m) /\ ~Queued(m)' /\ (Held(m)' <=> Held(m))
    BY <1>1 DEF Queued, Held
  <1>3. PendingInv'
    BY <1>1, <1>2 DEF PlacesInv, PendingInv
  <1> QED BY <1>1, <1>3 DEF PlacesInv, QueuedApart, HeldApart, QueuedHeldApart

\* No step puts a second mention of a channel in hand, or loses track of one.
LEMMA PlacesStep == IndInv /\ [Next]_vars => PlacesInv'
  <1> SUFFICES ASSUME IndInv, [Next]_vars PROVE PlacesInv'
    OBVIOUS
  <1>0. TypeInv /\ HandsInv /\ JobsInv /\ PlacesInv
    BY DEF IndInv
  <1>1. ASSUME NEW m \in Mentions, Receive(m) PROVE PlacesInv'
    BY <1>0, <1>1, ReceivePlaces
  <1>2. ASSUME NEW w \in Workers, Get(w) PROVE PlacesInv'
    BY <1>0, <1>2, GetPlaces
  <1>3. ASSUME NEW w \in Workers, Handle(w) PROVE PlacesInv'
    BY <1>0, <1>3, MovePlaces DEF Handle
  <1>4. ASSUME NEW w \in Workers, Finish(w) PROVE PlacesInv'
    BY <1>0, <1>4, FinishPlaces
  <1>5. CASE Discard
    BY <1>0, <1>5, DiscardPlaces
  <1>6. CASE PutPills
    BY <1>0, <1>6, PutPillsPlaces
  <1>7. CASE Start \/ PillsDoNotFit \/ Gather \/ CloseClient
    BY <1>0, <1>7, MovePlaces DEF Start, PillsDoNotFit, Gather, CloseClient, crew
  <1>8. CASE SignalStop \/ ClientOpens \/ ClientFails \/ UNCHANGED vars
    BY <1>0, <1>8, MovePlaces DEF SignalStop, ClientOpens, ClientFails, vars, crew
  <1> QED BY <1>1, <1>2, <1>3, <1>4, <1>5, <1>6, <1>7, <1>8 DEF Next, Run, Work, Ended

\* The stage of _shutdown bounds what is left.
LEMMA StageStep == IndInv /\ [Next]_vars => StageInv'
  <1> SUFFICES ASSUME IndInv, [Next]_vars PROVE StageInv'
    OBVIOUS
  <1>0. TypeInv /\ HandsInv /\ JobsInv /\ StageInv
    BY DEF IndInv
  <1> USE DEF crew
  <1>1. ASSUME NEW m \in Mentions, Up, Receive(m) PROVE StageInv'
    <2>1. main # "begin" /\ UNCHANGED <<accepting, main, client, worker, job>>
      BY <1>0, <1>1 DEF Receive, StageInv
    <2>2. CASE jobs' = jobs
      BY <1>0, <2>1, <2>2 DEF StageInv
    <2>3. CASE jobs' = Append(jobs, m) /\ accepting
      <3>1. /\ m # Pill /\ Len(jobs) \in Nat /\ Len(jobs') = Len(jobs) + 1 /\ jobs'[Len(jobs) + 1] = m
            /\ \A i \in 1 .. Len(jobs) : jobs'[i] = jobs[i]
        BY <1>0, <2>3, AfterPut
      <3>2. main \notin Stopped /\ main \notin Joined /\ main \notin Over
        BY <1>0, <2>3 DEF StageInv, Stopped, Joined, Over
      <3>3. \A i \in 1 .. Len(jobs') : jobs'[i] # Pill
        BY <1>0, <3>1, <3>2 DEF StageInv
      <3> QED BY <1>0, <2>1, <3>2, <3>3 DEF StageInv
    <2> QED BY <1>1, <2>2, <2>3 DEF Receive
  <1>2. ASSUME NEW w \in Workers, Work(w), Up PROVE StageInv'
    <2>0. main # "begin" /\ main \notin Over
      BY <1>0, <1>2 DEF StageInv, Work, Get, Handle, Finish, Up, Over
    <2>1. CASE Get(w)
      <3>1. /\ Len(jobs) \in Nat \ {0} /\ Len(jobs') = Len(jobs) - 1 /\ 1 \in 1 .. Len(jobs)
            /\ Head(jobs) = jobs[1]
            /\ \A i \in 1 .. Len(jobs') : jobs'[i] = jobs[i + 1] /\ i + 1 \in 1 .. Len(jobs)
        BY <1>0, <2>1, HeadAndTail DEF Get
      <3>2. /\ main \notin Joined => \A i \in 1 .. Len(jobs') : jobs'[i] # Pill
            /\ main \in Stopped => \A i \in 1 .. Len(jobs') : jobs'[i] = Pill
        BY <1>0, <3>1 DEF StageInv
      <3>3. main \in Joined => job' = job
        <4>1. main \in Joined => Head(jobs) = Pill
          BY <1>0, <3>1 DEF StageInv, Joined, Stopped
        <4> QED BY <2>1, <4>1 DEF Get
      <3>4. UNCHANGED <<accepting, main, client>>
        BY <2>1 DEF Get
      <3> QED BY <1>0, <2>0, <3>2, <3>3, <3>4 DEF StageInv
    <2>2. CASE Handle(w)
      BY <1>0, <2>0, <2>2 DEF Handle, StageInv
    <2>3. CASE Finish(w)
      BY <1>0, <2>0, <2>3 DEF Finish, StageInv, TypeInv
    <2> QED BY <1>2, <2>1, <2>2, <2>3 DEF Work
  <1>3. CASE Start
    BY <1>0, <1>3 DEF Start, GoOn, StageInv, Stopped, Joined, Over
  <1>4. CASE Discard
    <2>1. Len(jobs') = 0 /\ main' = "join" /\ ~accepting' /\ UNCHANGED <<worker, job, client>>
      BY <1>4 DEF Discard
    <2>2. client # "closed"
      BY <1>0, <1>4 DEF StageInv, Discard, StopNow
    <2> QED BY <2>1, <2>2 DEF StageInv, Stopped, Joined, Over
  <1>5. CASE PutPills
    <2>1. /\ main = "join" /\ main' = "gather" /\ UNCHANGED <<accepting, worker, job, client>>
          /\ \A w \in Workers : job[w] = None
          /\ \A i \in 1 .. Len(jobs') : jobs'[i] = Pill
      BY <1>0, <1>5, PutPillsQueue DEF PutPills, GoOn
    <2> QED BY <1>0, <2>1 DEF StageInv, Stopped, Joined, Over
  <1>6. CASE PillsDoNotFit
    <2>1. jobs = <<>> /\ Len(jobs) = 0 /\ \A w \in Workers : job[w] = None
      BY <1>0, <1>6, NothingUnfinished DEF PillsDoNotFit
    <2> QED BY <1>0, <1>6, <2>1 DEF PillsDoNotFit, GoOn, StageInv, Stopped, Joined, Over
  <1>7. CASE Gather
    <2>1. \A w \in Workers : worker[w] \in {"unstarted", "gone"}
      BY <1>7 DEF Gather, Started
    <2> QED BY <1>0, <1>7, <2>1 DEF Gather, GoOn, StageInv, Stopped, Joined, Over
  <1>8. CASE CloseClient
    BY <1>0, <1>8 DEF CloseClient, GoOn, StageInv, Stopped, Joined, Over
  <1>9. CASE (Up /\ (SignalStop \/ ClientOpens \/ ClientFails)) \/ UNCHANGED vars
    BY <1>0, <1>9 DEF SignalStop, ClientOpens, ClientFails, vars, StageInv
  <1> QED
    BY <1>1, <1>2, <1>3, <1>4, <1>5, <1>6, <1>7, <1>8, <1>9 DEF Next, Run, Ended

\* An accepted mention does not get lost between the queue and the service.
LEMMA AcceptedStep == IndInv /\ [Next]_vars => AcceptedInv'
  <1> SUFFICES ASSUME IndInv, [Next]_vars PROVE AcceptedInv'
    OBVIOUS
  <1>0. TypeInv /\ HandsInv /\ JobsInv /\ StageInv /\ AcceptedInv
    BY DEF IndInv
  <1> DEFINE InService(m) == \E w \in Workers : worker[w] = "handle" /\ job[w] = m
  <1> USE DEF crew
  <1>1. CASE UNCHANGED <<jobs, worker, job, outcome>>
    BY <1>0, <1>1 DEF AcceptedInv, Queued
  <1>2. ASSUME NEW m \in Mentions, Receive(m) PROVE AcceptedInv'
    <2>1. UNCHANGED <<worker, job>>
      BY <1>2 DEF Receive
    <2>2. CASE jobs' = Append(jobs, m) /\ outcome' = [outcome EXCEPT ![m] = "accepted"]
      <3>1. \A n \in Mentions : Queued(n)' <=> Queued(n) \/ n = m
        BY <1>0, <2>2, AfterPut
      <3> QED BY <1>0, <2>1, <2>2, <3>1 DEF AcceptedInv, TypeInv
    <2>3. CASE jobs' = jobs /\ \E end \in {"refused", "ignored"} : outcome' = [outcome EXCEPT ![m] = end]
      BY <1>0, <2>1, <2>3 DEF AcceptedInv, Queued, TypeInv
    <2> QED BY <1>2, <2>2, <2>3 DEF Receive
  <1>3. ASSUME NEW w \in Workers, Get(w) PROVE AcceptedInv'
    <2>1. /\ Head(jobs) \in Mentions \cup {Pill}
          /\ \A m \in Mentions : Queued(m) <=> Queued(m)' \/ m = Head(jobs)
      BY <1>0, <1>3, HeadAndTail DEF Get
    <2>2. \A m \in Mentions : InService(m) => InService(m)'
      BY <1>0, <1>3 DEF Get, TypeInv
    <2>3. CASE /\ Head(jobs) # Pill /\ job' = [job EXCEPT ![w] = Head(jobs)]
               /\ worker' = [worker EXCEPT ![w] = "handle"] /\ outcome' = outcome
      <3>1. \A m \in Mentions : m = Head(jobs) => InService(m)'
        BY <1>0, <2>3 DEF TypeInv
      <3> QED BY <1>0, <2>1, <2>2, <2>3, <3>1 DEF AcceptedInv
    <2>4. CASE Head(jobs) # Pill /\ outcome' = [outcome EXCEPT ![Head(jobs)] = "dropped"]
      BY <1>0, <2>1, <2>2, <2>4 DEF AcceptedInv, TypeInv
    <2>5. CASE Head(jobs) = Pill /\ outcome' = outcome
      BY <1>0, <2>1, <2>2, <2>5 DEF AcceptedInv
    <2> QED BY <1>3, <2>3, <2>4, <2>5 DEF Get
  <1>4. ASSUME NEW w \in Workers, Handle(w) PROVE AcceptedInv'
    <2>1. /\ worker' = [worker EXCEPT ![w] = "finish"] /\ UNCHANGED <<jobs, job>>
          /\ \E end \in {"served", "failed"} : outcome' = [outcome EXCEPT ![job[w]] = end]
      BY <1>4 DEF Handle
    <2> QED BY <1>0, <2>1 DEF AcceptedInv, Queued, TypeInv
  <1>5. ASSUME NEW w \in Workers, Finish(w) PROVE AcceptedInv'
    <2>1. \A m \in Mentions : InService(m) => InService(m)'
      BY <1>0, <1>5 DEF Finish, TypeInv
    <2>2. UNCHANGED <<jobs, outcome>>
      BY <1>5 DEF Finish
    <2> QED BY <1>0, <2>1, <2>2 DEF AcceptedInv, Queued
  <1>6. CASE Start
    BY <1>0, <1>6 DEF Start, GoOn, StageInv, AcceptedInv, Queued
  <1>7. CASE Discard
    <2>1. \A m \in Mentions : m \in QueuedMentions <=> Queued(m)
      <3>1. DOMAIN jobs = 1 .. Len(jobs)
        BY <1>0, LenProperties DEF TypeInv
      <3> QED BY <3>1 DEF QueuedMentions, Queued
    <2>2. \A m \in Mentions : outcome'[m] = "accepted" => outcome[m] = "accepted" /\ ~Queued(m)
      BY <1>7, <2>1 DEF Discard
    <2> QED BY <1>0, <1>7, <2>2 DEF Discard, AcceptedInv
  <1>8. CASE PutPills
    <2>1. \A m \in Mentions : ~Queued(m)
      <3>1. jobs = <<>> /\ Len(jobs) = 0
        BY <1>0, <1>8, NothingUnfinished DEF PutPills
      <3> QED BY <3>1 DEF Queued
    <2> QED BY <1>0, <1>8, <2>1 DEF PutPills, AcceptedInv
  <1>9. CASE PillsDoNotFit
    <2>1. \A m \in Mentions : outcome[m] # "accepted"
      <3>1. jobs = <<>> /\ Len(jobs) = 0 /\ \A w \in Workers : job[w] = None
        BY <1>0, <1>9, NothingUnfinished DEF PillsDoNotFit
      <3> QED BY <1>0, <3>1 DEF AcceptedInv, Queued
    <2> QED BY <1>9, <2>1 DEF PillsDoNotFit, AcceptedInv
  <1>10. CASE Gather \/ CloseClient
    BY <1>1, <1>10 DEF Gather, CloseClient
  <1>11. CASE SignalStop \/ ClientOpens \/ ClientFails \/ UNCHANGED vars
    BY <1>1, <1>11 DEF SignalStop, ClientOpens, ClientFails, vars
  <1> QED
    BY <1>2, <1>3, <1>4, <1>5, <1>6, <1>7, <1>8, <1>9, <1>10, <1>11 DEF Next, Run, Work, Ended

\* Nothing has arrived yet.
LEMMA InitIndInv == Init => IndInv
  <1> SUFFICES ASSUME Init PROVE IndInv
    OBVIOUS
  <1> USE DEF Init
  <1>1. TypeInv
    BY EmptySeq DEF TypeInv
  <1>2. HandsInv
    BY DEF HandsInv
  <1>3. PlacesInv
    <2>1. \A m \in Mentions : ~Queued(m) /\ ~Held(m)
      BY DEF Queued, Held
    <2> QED BY <2>1 DEF PlacesInv, QueuedApart, HeldApart, QueuedHeldApart, PendingInv
  <1>4. JobsInv
    <2>1. Busy = {}
      BY DEF Busy
    <2> QED BY <2>1, FS_EmptySet DEF JobsInv
  <1>5. StageInv
    BY DEF StageInv, Stopped, Joined, Over
  <1>6. AcceptedInv
    BY DEF AcceptedInv
  <1> QED BY <1>1, <1>2, <1>3, <1>4, <1>5, <1>6 DEF IndInv

\* The invariant holds in every state that the adapter reaches.
LEMMA SpecIndInv == Spec => []IndInv
  <1>1. IndInv /\ [Next]_vars => IndInv'
    BY TypeStep, HandsStep, PlacesStep, JobsStep, StageStep, AcceptedStep DEF IndInv
  <1> QED BY InitIndInv, <1>1, PTL DEF Spec

-------------------------------------------------------------------------------
\* The mentions in hand, by their places and as sets.
LEMMA InHandPlaces ==
  ASSUME TypeInv
  PROVE  /\ InHand \subseteq Mentions /\ IsFiniteSet(InHand)
         /\ \A m \in Mentions : m \in InHand <=> Queued(m) \/ Held(m)
  <1>1. DOMAIN jobs = 1 .. Len(jobs) /\ Len(jobs) \in Nat /\ \A i \in 1 .. Len(jobs) : jobs[i] \in Mentions \cup {Pill}
    BY LenProperties DEF TypeInv
  <1>2. InHand \subseteq Mentions
    BY <1>1 DEF InHand, QueuedMentions, Busy, TypeInv
  <1>3. \A m \in Mentions : m \in InHand <=> Queued(m) \/ Held(m)
    BY <1>1 DEF InHand, QueuedMentions, Busy, Queued, Held
  <1>4. IsFiniteSet(QueuedMentions)
    <2> DEFINE R == {jobs[i] : i \in 1 .. Len(jobs)}
               f == [i \in 1 .. Len(jobs) |-> jobs[i]]
    <2>1. f \in Surjection(1 .. Len(jobs), R)
      BY DEF Surjection
    <2>2. IsFiniteSet(1 .. Len(jobs))
      BY <1>1, FS_Interval
    <2>3. IsFiniteSet(R)
      BY <2>1, <2>2, FS_Surjection
    <2> QED BY <1>1, <2>3, FS_Subset DEF QueuedMentions
  <1>5. IsFiniteSet({job[w] : w \in Busy})
    <2> DEFINE R == {job[w] : w \in Busy}
               f == [w \in Busy |-> job[w]]
    <2>1. f \in Surjection(Busy, R)
      BY DEF Surjection
    <2> QED BY <2>1, BusyCount, FS_Surjection
  <1>6. IsFiniteSet(InHand)
    BY <1>4, <1>5, FS_Union DEF InHand
  <1> QED BY <1>2, <1>3, <1>6

\* A channel is in _pending_turns exactly while one mention of it is queued or
\* being handled, none has two in hand, and join() waits for exactly the items
\* that are in the queue, which keeps its size, or being worked on.
THEOREM PendingExact == Spec => []PendingIsExact
  <1>1. IndInv => PendingIsExact
    <2> SUFFICES ASSUME IndInv PROVE PendingIsExact
      OBVIOUS
    <2>0. TypeInv /\ PlacesInv /\ JobsInv
      BY DEF IndInv
    <2>1. /\ InHand \subseteq Mentions /\ IsFiniteSet(InHand)
          /\ \A m \in Mentions : m \in InHand <=> Queued(m) \/ Held(m)
      BY <2>0, InHandPlaces
    <2>2. pending = {ChannelOf[m] : m \in InHand}
      BY <2>0, <2>1 DEF PlacesInv, PendingInv, TypeInv
    <2>3. \A m, n \in InHand : ChannelOf[m] = ChannelOf[n] => m = n
      <3>1. \A m, n \in Mentions : Queued(m) /\ Queued(n) /\ m # n => ChannelOf[m] # ChannelOf[n]
        BY <2>0 DEF PlacesInv, QueuedApart, Queued
      <3>2. \A m, n \in Mentions : Held(m) /\ Held(n) /\ m # n => ChannelOf[m] # ChannelOf[n]
        BY <2>0 DEF PlacesInv, HeldApart, Held
      <3>3. \A m, n \in Mentions : Queued(m) /\ Held(n) => ChannelOf[m] # ChannelOf[n]
        BY <2>0 DEF PlacesInv, QueuedHeldApart, Queued, Held
      <3> QED BY <2>1, <3>1, <3>2, <3>3
    <2>4. Cardinality(pending) = Cardinality(InHand)
      <3> DEFINE f == [m \in InHand |-> ChannelOf[m]]
      <3>1. f \in Surjection(InHand, pending)
        BY <2>2 DEF Surjection
      <3>2. f \in Injection(InHand, pending)
        BY <2>2, <2>3 DEF Injection, IsInjective
      <3> QED BY <2>1, <3>1, <3>2, FS_Surjection
    <2> QED BY <2>0, <2>2, <2>4 DEF JobsInv, PendingIsExact
  <1> QED BY SpecIndInv, <1>1, PTL

\* The Gateway client is not closed while a job may want to post.
THEOREM ClientOutlives == Spec => []ClientOutlivesJobs
  <1>1. IndInv => ClientOutlivesJobs
    <2> SUFFICES ASSUME IndInv, client = "closed" PROVE InHand = {}
      BY DEF ClientOutlivesJobs
    <2>1. TypeInv /\ main = "ended" /\ StageInv
      BY DEF IndInv, StageInv
    <2>2. \A m \in Mentions : ~Queued(m) /\ ~Held(m)
      BY <2>1 DEF StageInv, Stopped, Joined, Queued, Held
    <2> QED BY <2>1, <2>2, InHandPlaces
  <1> QED BY SpecIndInv, <1>1, PTL

\* When the program has ended, no task runs and no accepted mention is left.
THEOREM QuietAtEnd == Spec => []EndedIsQuiet
  <1>1. IndInv => EndedIsQuiet
    <2> SUFFICES ASSUME IndInv, ~Up
                 PROVE  /\ \A w \in Workers : worker[w] \in {"unstarted", "gone"}
                        /\ \A m \in Mentions : outcome[m] # "accepted"
      BY DEF EndedIsQuiet
    <2>1. main \in Over /\ main \in Stopped /\ StageInv /\ AcceptedInv
      BY DEF Up, Over, Stopped, IndInv
    <2>2. \A w \in Workers : worker[w] \in {"unstarted", "gone"}
      BY <2>1 DEF StageInv
    <2>3. \A m \in Mentions : outcome[m] # "accepted"
      BY <2>1, <2>2 DEF StageInv, AcceptedInv, Queued
    <2> QED BY <2>2, <2>3
  <1> QED BY SpecIndInv, <1>1, PTL

\* Whether the client is closed at the end hangs on the room for the pills alone.
RoomInv ==
    /\ main = "ended" => client = "closed"
    /\ main = "failed" => queueSize < Cardinality(Workers)

\* When the queue has room for a pill per worker, the program ends with its client
\* closed: put_nowait never raises, because the queue is empty when it is called.
THEOREM ClosedIfRoom == Spec => [](~Up /\ Cardinality(Workers) <= queueSize => client = "closed")
  <1>1. Init => RoomInv
    BY DEF Init, RoomInv
  <1>2. IndInv /\ RoomInv /\ [Next]_vars => RoomInv'
    <2> SUFFICES ASSUME IndInv, RoomInv, [Next]_vars PROVE RoomInv'
      OBVIOUS
    <2>1. CASE PillsDoNotFit
      <3>1. Len(jobs) = 0
        BY <2>1, NothingUnfinished DEF PillsDoNotFit, IndInv
      <3>2. /\ queueSize \in Nat /\ Cardinality(Started) \in Nat /\ Cardinality(Workers) \in Nat
            /\ Cardinality(Started) <= Cardinality(Workers)
        <4>1. Started \subseteq Workers
          BY DEF Started
        <4> QED BY <4>1, StartedCount, FS_Subset, FS_CardinalityType, DiscordAssumption
                DEF IndInv, TypeInv
      <3>3. queueSize < Cardinality(Workers)
        BY <2>1, <3>1, <3>2 DEF PillsDoNotFit
      <3> QED BY <2>1, <3>3 DEF PillsDoNotFit, GoOn, RoomInv
    <2>2. CASE CloseClient
      BY <2>2 DEF CloseClient, GoOn, RoomInv
    <2>3. CASE Start \/ Discard \/ PutPills \/ Gather
      BY <2>3 DEF Start, Discard, PutPills, Gather, GoOn, RoomInv
    <2>4. CASE Up /\ UNCHANGED <<main, queueSize>>
      BY <2>4 DEF Up, RoomInv
    <2>5. CASE UNCHANGED vars
      BY <2>5 DEF vars, RoomInv
    <2>6. Next => \/ PillsDoNotFit \/ CloseClient
                  \/ Start \/ Discard \/ PutPills \/ Gather
                  \/ Up /\ UNCHANGED <<main, queueSize>>
                  \/ UNCHANGED vars
      BY DEF Next, Run, Work, Receive, Get, Handle, Finish, ClientOpens, ClientFails,
             SignalStop, Ended
    <2> QED BY <2>1, <2>2, <2>3, <2>4, <2>5, <2>6
  <1>3. IndInv /\ RoomInv => (~Up /\ Cardinality(Workers) <= queueSize => client = "closed")
    <2> SUFFICES ASSUME IndInv, RoomInv, ~Up, Cardinality(Workers) <= queueSize
                 PROVE  client = "closed"
      OBVIOUS
    <2>1. queueSize \in Nat /\ Cardinality(Workers) \in Nat
      BY FS_CardinalityType, DiscordAssumption DEF IndInv, TypeInv
    <2> QED BY <2>1 DEF Up, RoomInv
  <1> QED BY <1>1, <1>2, <1>3, SpecIndInv, PTL DEF Spec
===============================================================================
