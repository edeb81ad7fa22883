---------------------------- MODULE DiscordAdapter ----------------------------
(***************************************************************************)
(* DiscordAdapter: one event loop runs the Gateway client's callbacks, the *)
(* worker tasks and the main task, which start and stop everything.        *)
(*                                                                         *)
(* A task runs alone from one await to the next, and so does an action.    *)
(* BotService.handle runs in a thread of its own, for as long as the       *)
(* worker awaits it, and comes back to the loop for every post.            *)
(***************************************************************************)
EXTENDS Integers, SequencesExt

CONSTANTS
    Mentions,       \* calls of receive_message that get past its checks
    Channels,       \* values of turn_key
    ChannelOf,      \* ChannelOf[m]: where mention m was made
    Workers,        \* config.max_concurrent_generations tasks
    QueueSizes,     \* values of config.queue_size
    Pill, None

ASSUME DiscordAssumption ==
    /\ ChannelOf \in [Mentions -> Channels]
    /\ QueueSizes \subseteq Nat \ {0}
    /\ IsFiniteSet(Workers) /\ Workers # {}
    /\ Pill \notin Mentions /\ None \notin Mentions \cup {Pill}

VARIABLES
    queueSize,                  \* config.queue_size, which never changes
    accepting, signalled,       \* _accepting, _signal_stop_requested
    jobs, unfinished,           \* the asyncio.Queue and its task count
    pending,                    \* _pending_turns
    worker, job,                \* where each worker task is, and its job
    client,                     \* the Gateway client, with the task that runs it
    main,                       \* where _run_async and _shutdown are
    outcome                     \* outcome[m]: what has become of the mention

crew == <<worker, job>>
vars == <<queueSize, accepting, signalled, jobs, unfinished, pending, crew, client, main, outcome>>

Init ==
    /\ queueSize \in QueueSizes
    /\ accepting = TRUE /\ signalled = FALSE
    /\ jobs = <<>> /\ unfinished = 0 /\ pending = {}
    /\ worker = [w \in Workers |-> "unstarted"] /\ job = [w \in Workers |-> None]
    /\ client = "new" /\ main = "begin"
    /\ outcome = [m \in Mentions |-> "new"]

-------------------------------------------------------------------------------
\* receive_message, from the check of _accepting on: there is no await before
\* the mention is in the queue or refused.  The notice that tells the author of
\* a refusal is awaited after that, and its failure ignored.  A message that has
\* been dispatched may be received when the client is down again.
Receive(m) ==
    /\ client \in {"open", "failed", "closed"} /\ outcome[m] = "new"
    /\ LET free == accepting /\ ChannelOf[m] \notin pending
       IN  \/ /\ free /\ Len(jobs) < queueSize
              /\ pending' = pending \cup {ChannelOf[m]}
              /\ jobs' = Append(jobs, m) /\ unfinished' = unfinished + 1
              /\ outcome' = [outcome EXCEPT ![m] = "accepted"]
           \/ /\ ~free \/ Len(jobs) >= queueSize
              /\ outcome' = [outcome EXCEPT ![m] =
                                IF accepting THEN "refused" ELSE "ignored"]
              /\ UNCHANGED <<pending, jobs, unfinished>>
    /\ UNCHANGED <<queueSize, accepting, signalled, crew, client, main>>

\* Slip: the channel of a mention that is dropped stays taken.
GetKeepsPending(w) ==
    /\ worker[w] = "get" /\ jobs # <<>>
    /\ jobs' = Tail(jobs)
    /\ \/ /\ Head(jobs) # Pill /\ ~signalled
          /\ job' = [job EXCEPT ![w] = Head(jobs)]
          /\ worker' = [worker EXCEPT ![w] = "handle"]
          /\ UNCHANGED <<unfinished, outcome>>
       \/ /\ Head(jobs) # Pill /\ signalled
          /\ unfinished' = unfinished - 1
          /\ outcome' = [outcome EXCEPT ![Head(jobs)] = "dropped"]
          /\ UNCHANGED crew
       \/ /\ Head(jobs) = Pill
          /\ unfinished' = unfinished - 1
          /\ worker' = [worker EXCEPT ![w] = "gone"]
          /\ UNCHANGED <<job, outcome>>
    /\ UNCHANGED <<queueSize, accepting, signalled, pending, client, main>>

\* _worker, from the end of `await self._jobs.get()` to its next await: it hands
\* the job to a service thread, or drops it because of the signal, or returns.
Get(w) ==
    /\ worker[w] = "get" /\ jobs # <<>>
    /\ jobs' = Tail(jobs)
    /\ \/ /\ Head(jobs) # Pill /\ ~signalled
          /\ job' = [job EXCEPT ![w] = Head(jobs)]
          /\ worker' = [worker EXCEPT ![w] = "handle"]
          /\ UNCHANGED <<unfinished, pending, outcome>>
       \/ /\ Head(jobs) # Pill /\ signalled
          /\ pending' = pending \ {ChannelOf[Head(jobs)]}
          /\ unfinished' = unfinished - 1
          /\ outcome' = [outcome EXCEPT ![Head(jobs)] = "dropped"]
          /\ UNCHANGED crew
       \/ /\ Head(jobs) = Pill
          /\ unfinished' = unfinished - 1
          /\ worker' = [worker EXCEPT ![w] = "gone"]
          /\ UNCHANGED <<job, pending, outcome>>
    /\ UNCHANGED <<queueSize, accepting, signalled, client, main>>

\* _handle_job has awaited the service thread: it returned, or it raised and the
\* error has been reported as far as possible; the typing indicator has been
\* stopped or given up.
Handle(w) ==
    /\ worker[w] = "handle"
    /\ \E end \in {"served", "failed"} : outcome' = [outcome EXCEPT ![job[w]] = end]
    /\ worker' = [worker EXCEPT ![w] = "finish"]
    /\ UNCHANGED <<queueSize, accepting, signalled, jobs, unfinished, pending,
                   job, client, main>>

\* Slip: the task is accounted for when the queue is empty only.
FinishUncounted(w) ==
    /\ worker[w] = "finish"
    /\ pending' = pending \ {ChannelOf[job[w]]}
    /\ unfinished' = IF jobs = <<>> THEN unfinished - 1 ELSE unfinished
    /\ worker' = [worker EXCEPT ![w] = "get"] /\ job' = [job EXCEPT ![w] = None]
    /\ UNCHANGED <<queueSize, accepting, signalled, jobs, client, main, outcome>>

\* The `finally` of _worker.
Finish(w) ==
    /\ worker[w] = "finish"
    /\ pending' = pending \ {ChannelOf[job[w]]}
    /\ unfinished' = unfinished - 1
    /\ worker' = [worker EXCEPT ![w] = "get"] /\ job' = [job EXCEPT ![w] = None]
    /\ UNCHANGED <<queueSize, accepting, signalled, jobs, client, main, outcome>>

-------------------------------------------------------------------------------
\* SIGTERM or SIGINT, at any time: two flags.
SignalStop ==
    /\ ~signalled
    /\ signalled' = TRUE /\ accepting' = FALSE
    /\ UNCHANGED <<queueSize, jobs, unfinished, pending, crew, client, main, outcome>>

\* client.start() connects; it ends when the client is closed, or by an error.
ClientOpens ==
    /\ client = "starting" /\ client' = "open"
    /\ UNCHANGED <<queueSize, accepting, signalled, jobs, unfinished, pending,
                   crew, main, outcome>>

ClientFails ==
    /\ client \in {"starting", "open"} /\ client' = "failed"
    /\ UNCHANGED <<queueSize, accepting, signalled, jobs, unfinished, pending,
                   crew, main, outcome>>

GoOn(from, to) == main = from /\ main' = to

\* _run_async, unless the signal has come already.
Start ==
    /\ ~signalled /\ GoOn("begin", "poll")
    /\ worker' = [w \in Workers |-> "get"] /\ client' = "starting"
    /\ UNCHANGED <<queueSize, accepting, signalled, jobs, unfinished, pending,
                   job, outcome>>

QueuedMentions == {jobs[i] : i \in DOMAIN jobs} \ {Pill}

\* A signal before the start, or seen by the loop that polls; or the end of the
\* client's own task.
StopNow ==
    \/ main = "begin" /\ signalled
    \/ main = "poll" /\ (signalled \/ client = "failed")

\* Slip: the client is closed first of all, to stop the intake.
DiscardAndClose ==
    /\ StopNow /\ main' = "join"
    /\ accepting' = FALSE /\ client' = "closed"
    /\ jobs' = <<>> /\ unfinished' = unfinished - Len(jobs)
    /\ pending' = pending \ {ChannelOf[m] : m \in QueuedMentions}
    /\ outcome' = [m \in Mentions |->
                      IF m \in QueuedMentions THEN "dropped" ELSE outcome[m]]
    /\ UNCHANGED <<queueSize, signalled, crew>>

\* _shutdown up to `await self._jobs.join()`.
Discard ==
    /\ StopNow /\ main' = "join"
    /\ accepting' = FALSE
    /\ jobs' = <<>> /\ unfinished' = unfinished - Len(jobs)
    /\ pending' = pending \ {ChannelOf[m] : m \in QueuedMentions}
    /\ outcome' = [m \in Mentions |->
                      IF m \in QueuedMentions THEN "dropped" ELSE outcome[m]]
    /\ UNCHANGED <<queueSize, signalled, crew, client>>

Started == {w \in Workers : worker[w] # "unstarted"}

\* put_nowait(None) for each worker, without an await in between.
PutPills ==
    /\ unfinished = 0 /\ Len(jobs) + Cardinality(Started) <= queueSize
    /\ GoOn("join", "gather")
    /\ jobs' = jobs \o [i \in 1 .. Cardinality(Started) |-> Pill]
    /\ unfinished' = Cardinality(Started)
    /\ UNCHANGED <<queueSize, accepting, signalled, pending, crew, client, outcome>>

\* put_nowait raises QueueFull.  The `finally` of _run_async calls _shutdown
\* again, before any other task has run, and it ends in the same way; the loop
\* then cancels every task, and the client is never closed.
PillsDoNotFit ==
    /\ unfinished = 0 /\ Len(jobs) + Cardinality(Started) > queueSize
    /\ GoOn("join", "failed")
    /\ worker' = [w \in Workers |-> "gone"]
    /\ UNCHANGED <<queueSize, accepting, signalled, jobs, unfinished, pending,
                   job, client, outcome>>

\* Slip: the tasks are not awaited before the client is closed.
GatherNobody ==
    /\ GoOn("gather", "close")
    /\ UNCHANGED <<queueSize, accepting, signalled, jobs, unfinished, pending,
                   crew, client, outcome>>

\* await asyncio.gather(*self._workers)
Gather ==
    /\ \A w \in Started : worker[w] = "gone"
    /\ GoOn("gather", "close")
    /\ UNCHANGED <<queueSize, accepting, signalled, jobs, unfinished, pending,
                   crew, client, outcome>>

\* client.close(), whose exceptions are logged.
CloseClient ==
    /\ GoOn("close", "ended")
    /\ client' = "closed"
    /\ UNCHANGED <<queueSize, accepting, signalled, jobs, unfinished, pending,
                   crew, outcome>>

Ended == main \in {"ended", "failed"} /\ UNCHANGED vars

-------------------------------------------------------------------------------
Work(w) == Get(w) \/ Handle(w) \/ Finish(w)

Run == Start \/ Discard \/ PutPills \/ PillsDoNotFit \/ Gather \/ CloseClient

Up == main \notin {"ended", "failed"}

Next ==
    \/ Up /\ \E m \in Mentions : Receive(m)
    \/ Up /\ \E w \in Workers : Work(w)
    \/ Up /\ (ClientOpens \/ ClientFails \/ SignalStop)
    \/ Run \/ Ended

Spec == Init /\ [][Next]_vars

\* The loop runs every task that is ready; the service thread returns because
\* the provider and the posts have timeouts.
FairSpec == Spec /\ WF_vars(Run) /\ \A w \in Workers : WF_vars(Up /\ Work(w))

-------------------------------------------------------------------------------
Busy == {w \in Workers : job[w] # None}
InHand == QueuedMentions \cup {job[w] : w \in Busy}

\* A channel is refused service exactly while one mention of it is queued or
\* being handled: no channel is locked out by a mention that is gone, and none
\* has two mentions in hand; and join() waits for exactly the items that are in
\* the queue, which keeps its size, or being worked on.
PendingIsExact ==
    /\ pending = {ChannelOf[m] : m \in InHand}
    /\ Cardinality(pending) = Cardinality(InHand)
    /\ Len(jobs) <= queueSize
    /\ unfinished = Len(jobs) + Cardinality(Busy)

\* The client is open as long as a job may want to post: what is accepted can
\* be answered, unless the client itself has failed.
ClientOutlivesJobs == InHand # {} => client # "closed"

\* When the program has ended, no mention that was accepted is left undone and
\* nothing is left that could use the store.
EndedIsQuiet ==
    ~Up => /\ \A w \in Workers : worker[w] \in {"unstarted", "gone"}
           /\ \A m \in Mentions : outcome[m] # "accepted"

\* "SIGTERM stops intake, discards queued work, lets an active answer finish
\* within the configured shutdown budget, and closes the Gateway client."
StopClosesClient == signalled ~> client = "closed"

\* What does hold: a signal ends the program, and closes the client if the queue
\* has room for a pill per worker.
Stops ==
    signalled ~> /\ ~Up
                 /\ Cardinality(Workers) <= queueSize => client = "closed"
===============================================================================
