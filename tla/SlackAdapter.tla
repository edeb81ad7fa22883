----------------------------- MODULE SlackAdapter -----------------------------
(***************************************************************************)
(* SlackAdapter: mentions arrive on threads of the Slack SDK, wait in a    *)
(* bounded queue and are handled by worker threads, one at a time per      *)
(* Slack thread; a notice worker tells users when there is no room; the    *)
(* main thread connects, waits for a signal, and closes everything.        *)
(*                                                                         *)
(* Steps are what a thread does between two operations on shared objects:  *)
(* the intake lock, _turn_condition, the queues, the flags.  The mentions  *)
(* in Deliveries are those the route, identity and automation checks let   *)
(* pass; Slack may deliver an event more than once.                        *)
(***************************************************************************)
EXTENDS Integers, SequencesExt

CONSTANTS
    Deliveries,     \* calls of receive_mention
    EventOf,        \* EventOf[d]: the Slack event that is delivered
    Threads,        \* Slack threads: values of turn_key
    ThreadOf,       \* ThreadOf[d]: the thread of the mention
    Workers,        \* config.max_concurrent_generations threads
    QueueSizes,     \* values of config.queue_size
    Pill,           \* the None that makes a worker return
    None

ASSUME SlackAssumption ==
    /\ ThreadOf \in [Deliveries -> Threads]
    /\ DOMAIN EventOf = Deliveries
    /\ QueueSizes \subseteq Nat \ {0}
    /\ IsFiniteSet(Workers) /\ Workers # {}
    /\ Pill \notin Deliveries /\ None \notin Deliveries \cup Threads \cup {Pill}

VARIABLES
    queueSize,     \* config.queue_size, which never changes
    accepting, stopping, signalled,   \* _accepting, _stop_event, _signal_stop_requested
    connected,     \* handler.connect() has returned: mentions can arrive
    receiver,      \* what the holder of _intake_lock is about to do
    jobs,          \* the queue _jobs ...
    unfinished,    \* ... and its count of unfinished tasks
    waiters, active,                  \* _turn_waiters, _active_turns
    worker, job,   \* where each worker is, and the item it holds
    notices, unposted,                \* the queue _notices and its count
    herald, notice,                   \* where the notice worker is, and its item
    main, pills,   \* where run() and close() are, and the pills put so far
    outcome,       \* outcome[d]: what has become of the mention
    told           \* the mentions whose author has seen an overload notice

intake == <<accepting, receiver>>
queues == <<queueSize, jobs, unfinished, notices, unposted>>
turns == <<waiters, active>>
crew == <<worker, job, herald, notice>>
run == <<stopping, signalled, connected, main, pills>>
seen == <<outcome, told>>
vars == <<intake, queues, turns, crew, run, seen>>

Free == [at |-> "free", of |-> None]

Init ==
    /\ queueSize \in QueueSizes
    /\ accepting = TRUE /\ stopping = FALSE /\ signalled = FALSE /\ connected = FALSE
    /\ receiver = Free
    /\ jobs = <<>> /\ unfinished = 0 /\ notices = <<>> /\ unposted = 0
    /\ waiters = [k \in Threads |-> <<>>] /\ active = {}
    /\ worker = [w \in Workers |-> "unstarted"] /\ job = [w \in Workers |-> None]
    /\ herald = "unstarted" /\ notice = None
    /\ main = "begin" /\ pills = 0
    /\ outcome = [d \in Deliveries |-> "new"] /\ told = {}

-------------------------------------------------------------------------------
(* receive_mention, on a thread of the SDK; _intake_lock is held throughout. *)

\* Slip: only the mentions that wait are looked at.
BusyIfWaiting(k) == waiters[k] # <<>>

\* _register_turn: the thread has a mention waiting or being handled.
Busy(k) == k \in active \/ waiters[k] # <<>>

Receive(d) ==
    /\ connected /\ outcome[d] = "new" /\ receiver = Free
    /\ \/ /\ ~accepting
          /\ outcome' = [outcome EXCEPT ![d] = "ignored"]
          /\ UNCHANGED <<receiver, waiters>>
       \/ /\ accepting /\ Busy(ThreadOf[d])
          /\ receiver' = [at |-> "notice", of |-> d]
          /\ outcome' = [outcome EXCEPT ![d] = "refused"]
          /\ UNCHANGED waiters
       \/ /\ accepting /\ ~Busy(ThreadOf[d])
          /\ waiters' = [waiters EXCEPT ![ThreadOf[d]] = Append(@, d)]
          /\ receiver' = [at |-> "put", of |-> d]
          /\ UNCHANGED outcome
    /\ UNCHANGED <<accepting, queues, active, crew, run, told>>

\* self._jobs.put_nowait(job)
PutJob ==
    /\ receiver.at = "put"
    /\ \/ /\ Len(jobs) < queueSize
          /\ jobs' = Append(jobs, receiver.of)
          /\ unfinished' = unfinished + 1
          /\ outcome' = [outcome EXCEPT ![receiver.of] = "accepted"]
          /\ receiver' = Free
       \/ /\ Len(jobs) >= queueSize
          /\ receiver' = [receiver EXCEPT !.at = "cancel"]
          /\ UNCHANGED <<jobs, unfinished, outcome>>
    /\ UNCHANGED <<queueSize, accepting, notices, unposted, turns, crew, run, told>>

\* _remove_waiter_locked
RemoveWaiter(d) == waiters' = [waiters EXCEPT ![ThreadOf[d]] = RemoveFirst(@, d)]

\* Slip: the mention for which the queue has no room goes on waiting.
CancelForgotten ==
    /\ receiver.at = "cancel"
    /\ receiver' = [receiver EXCEPT !.at = "notice"]
    /\ outcome' = [outcome EXCEPT ![receiver.of] = "refused"]
    /\ UNCHANGED <<accepting, queues, turns, crew, run, told>>

\* queue.Full: _cancel_turn
CancelFull ==
    /\ receiver.at = "cancel"
    /\ RemoveWaiter(receiver.of)
    /\ receiver' = [receiver EXCEPT !.at = "notice"]
    /\ outcome' = [outcome EXCEPT ![receiver.of] = "refused"]
    /\ UNCHANGED <<accepting, queues, active, crew, run, told>>

\* _enqueue_overload_notice: when a notice waits already, this one is dropped.
PutNotice ==
    /\ receiver.at = "notice"
    /\ IF notices = <<>>
         THEN notices' = <<receiver.of>> /\ unposted' = unposted + 1
         ELSE UNCHANGED <<notices, unposted>>
    /\ receiver' = Free
    /\ UNCHANGED <<queueSize, accepting, jobs, unfinished, turns, crew, run, seen>>

-------------------------------------------------------------------------------
(* _worker *)

Get(w) ==
    /\ worker[w] = "get" /\ jobs # <<>>
    /\ job' = [job EXCEPT ![w] = Head(jobs)]
    /\ jobs' = Tail(jobs)
    /\ worker' = [worker EXCEPT ![w] = IF Head(jobs) = Pill THEN "account" ELSE "check"]
    /\ UNCHANGED <<queueSize, intake, unfinished, notices, unposted, turns,
                   herald, notice, run, seen>>

\* The job is given up because the adapter is stopping.
Drop(w) ==
    /\ RemoveWaiter(job[w])
    /\ outcome' = [outcome EXCEPT ![job[w]] = "dropped"]
    /\ worker' = [worker EXCEPT ![w] = "account"]
    /\ UNCHANGED active

\* Slip: a worker that sees the stop event leaves with its job.
CheckLeaves(w) ==
    /\ worker[w] = "check"
    /\ worker' = [worker EXCEPT ![w] = IF stopping THEN "account" ELSE "begin"]
    /\ UNCHANGED <<intake, queues, turns, job, herald, notice, run, seen>>

\* if self._stop_event.is_set()
Check(w) ==
    /\ worker[w] = "check"
    /\ \/ stopping /\ Drop(w)
       \/ /\ ~stopping
          /\ worker' = [worker EXCEPT ![w] = "begin"]
          /\ UNCHANGED <<turns, outcome>>
    /\ UNCHANGED <<intake, queues, job, herald, notice, run, told>>

MyTurn(w) ==
    LET k == ThreadOf[job[w]]
    IN  waiters[k] # <<>> /\ Head(waiters[k]) = job[w] /\ k \notin active

\* Slip: the turn is taken from the waiters but not marked as active.
BeginTurnUnmarked(w) ==
    /\ worker[w] = "begin"
    /\ \/ stopping /\ Drop(w)
       \/ /\ ~stopping /\ MyTurn(w)
          /\ waiters' = [waiters EXCEPT ![ThreadOf[job[w]]] = Tail(@)]
          /\ worker' = [worker EXCEPT ![w] = "handle"]
          /\ UNCHANGED <<active, outcome>>
    /\ UNCHANGED <<intake, queues, job, herald, notice, run, told>>

\* _begin_turn; the step is not enabled while the worker waits.
BeginTurn(w) ==
    /\ worker[w] = "begin"
    /\ \/ stopping /\ Drop(w)
       \/ /\ ~stopping /\ MyTurn(w)
          /\ waiters' = [waiters EXCEPT ![ThreadOf[job[w]]] = Tail(@)]
          /\ active' = active \cup {ThreadOf[job[w]]}
          /\ worker' = [worker EXCEPT ![w] = "handle"]
          /\ UNCHANGED outcome
    /\ UNCHANGED <<intake, queues, job, herald, notice, run, told>>

\* service.handle returns, or raises and the error is reported in the thread as
\* far as that succeeds.
Handle(w) ==
    /\ worker[w] = "handle"
    /\ \E end \in {"served", "failed"} : outcome' = [outcome EXCEPT ![job[w]] = end]
    /\ worker' = [worker EXCEPT ![w] = "finish"]
    /\ UNCHANGED <<intake, queues, turns, job, herald, notice, run, told>>

\* _finish_turn
FinishTurn(w) ==
    /\ worker[w] = "finish"
    /\ active' = active \ {ThreadOf[job[w]]}
    /\ worker' = [worker EXCEPT ![w] = "account"]
    /\ UNCHANGED <<intake, queues, waiters, job, herald, notice, run, seen>>

\* self._jobs.task_done(), then the next round, or the return for a pill.
Account(w) ==
    /\ worker[w] = "account"
    /\ unfinished' = unfinished - 1
    /\ worker' = [worker EXCEPT ![w] = IF job[w] = Pill THEN "gone" ELSE "get"]
    /\ job' = [job EXCEPT ![w] = None]
    /\ UNCHANGED <<queueSize, intake, jobs, notices, unposted, turns, herald,
                   notice, run, seen>>

-------------------------------------------------------------------------------
(* _notice_worker *)

GetNotice ==
    /\ herald = "get" /\ notices # <<>>
    /\ notice' = Head(notices) /\ notices' = Tail(notices)
    /\ herald' = IF Head(notices) = Pill THEN "account" ELSE "post"
    /\ UNCHANGED <<queueSize, intake, jobs, unfinished, unposted, turns, worker,
                   job, run, seen>>

\* The post may fail, and is not made when the adapter is stopping.
PostNotice ==
    /\ herald = "post"
    /\ \/ ~stopping /\ told' = told \cup {notice}
       \/ UNCHANGED told
    /\ herald' = "account"
    /\ UNCHANGED <<intake, queues, turns, worker, job, notice, run, outcome>>

AccountNotice ==
    /\ herald = "account"
    /\ unposted' = unposted - 1
    /\ herald' = IF notice = Pill THEN "gone" ELSE "get"
    /\ notice' = None
    /\ UNCHANGED <<queueSize, intake, jobs, unfinished, notices, turns, worker,
                   job, run, seen>>

-------------------------------------------------------------------------------
(* run and close, on the main thread.  Nobody else stops the adapter. *)

GoOn(from, to) == main = from /\ main' = to

\* SIGTERM or SIGINT: a flag, nothing more.
SignalStop ==
    /\ ~signalled /\ signalled' = TRUE
    /\ UNCHANGED <<intake, queues, turns, crew, stopping, connected, main, pills, seen>>

\* A signal that came before there was anything to stop: run returns.
ReturnEarly ==
    /\ signalled /\ GoOn("begin", "ended")
    /\ accepting' = FALSE /\ stopping' = TRUE
    /\ UNCHANGED <<receiver, queues, turns, crew, signalled, connected, pills, seen>>

StartWorkers ==
    /\ ~signalled /\ GoOn("begin", "connect")
    /\ worker' = [w \in Workers |-> "get"] /\ herald' = "get"
    /\ UNCHANGED <<intake, queues, turns, job, notice, stopping, signalled, connected,
                   pills, seen>>

\* handler.connect(), unless a signal came first; when it raises, run goes
\* straight to close.
Connect ==
    /\ \/ ~signalled /\ GoOn("connect", "wait") /\ connected' = TRUE
       \/ GoOn("connect", "refuse") /\ UNCHANGED connected
    /\ UNCHANGED <<intake, queues, turns, crew, stopping, signalled, pills, seen>>

\* The wait ends when the flag is seen.
Wake ==
    /\ signalled /\ GoOn("wait", "refuse")
    /\ UNCHANGED <<intake, queues, turns, crew, stopping, signalled, connected,
                   pills, seen>>

\* request_stop: with self._intake_lock
StopAccepting ==
    /\ receiver = Free /\ GoOn("refuse", "stop")
    /\ accepting' = FALSE
    /\ UNCHANGED <<receiver, queues, turns, crew, stopping, signalled,
                   connected, pills, seen>>

\* request_stop: self._stop_event.set() and the close of the handler, which
\* does not wait for calls of receive_mention in progress.
StopWorkers ==
    /\ GoOn("stop", "discard_jobs")
    /\ stopping' = TRUE
    /\ UNCHANGED <<intake, queues, turns, crew, signalled, connected, pills, seen>>

\* Slip: a discarded job stays unfinished.
DiscardJobUncounted ==
    /\ main = "discard_jobs"
    /\ \/ /\ jobs # <<>>
          /\ jobs' = Tail(jobs)
          /\ RemoveWaiter(Head(jobs))
          /\ outcome' = [outcome EXCEPT ![Head(jobs)] = "dropped"]
          /\ UNCHANGED <<unfinished, main>>
       \/ /\ jobs = <<>> /\ main' = "discard_notices"
          /\ UNCHANGED <<jobs, unfinished, waiters, outcome>>
    /\ UNCHANGED <<queueSize, intake, notices, unposted, active, crew, stopping,
                   signalled, connected, pills, told>>

\* _discard_pending(self._jobs)
DiscardJob ==
    /\ main = "discard_jobs"
    /\ \/ /\ jobs # <<>>
          /\ jobs' = Tail(jobs) /\ unfinished' = unfinished - 1
          /\ RemoveWaiter(Head(jobs))
          /\ outcome' = [outcome EXCEPT ![Head(jobs)] = "dropped"]
          /\ UNCHANGED main
       \/ /\ jobs = <<>> /\ main' = "discard_notices"
          /\ UNCHANGED <<jobs, unfinished, waiters, outcome>>
    /\ UNCHANGED <<queueSize, intake, notices, unposted, active, crew, stopping,
                   signalled, connected, pills, told>>

\* _discard_pending(self._notices)
DiscardNotice ==
    /\ main = "discard_notices"
    /\ \/ /\ notices # <<>>
          /\ notices' = Tail(notices) /\ unposted' = unposted - 1
          /\ UNCHANGED main
       \/ /\ notices = <<>> /\ main' = "join_jobs"
          /\ UNCHANGED <<notices, unposted>>
    /\ UNCHANGED <<queueSize, intake, jobs, unfinished, turns, crew, stopping,
                   signalled, connected, pills, seen>>

\* self._jobs.join() and self._notices.join()
JoinQueues ==
    /\ \/ unfinished = 0 /\ GoOn("join_jobs", "join_notices")
       \/ unposted = 0 /\ GoOn("join_notices", "pills")
    /\ UNCHANGED <<intake, queues, turns, crew, stopping, signalled, connected,
                   pills, seen>>

\* Slip: one pill is thought to be enough for all the workers.
PutOnePill ==
    /\ \/ /\ main = "pills" /\ pills < 1 /\ Len(jobs) < queueSize
          /\ jobs' = Append(jobs, Pill) /\ unfinished' = unfinished + 1
          /\ pills' = pills + 1
          /\ UNCHANGED <<main, notices, unposted>>
       \/ /\ pills = 1 /\ notices = <<>> /\ GoOn("pills", "join_workers")
          /\ notices' = <<Pill>> /\ unposted' = unposted + 1
          /\ UNCHANGED <<jobs, unfinished, pills>>
    /\ UNCHANGED <<queueSize, intake, turns, crew, stopping, signalled,
                   connected, seen>>

\* A pill for each worker and one for the notice worker; put blocks while the
\* queue is full.
PutPill ==
    /\ \/ /\ main = "pills" /\ pills < Cardinality(Workers) /\ Len(jobs) < queueSize
          /\ jobs' = Append(jobs, Pill) /\ unfinished' = unfinished + 1
          /\ pills' = pills + 1
          /\ UNCHANGED <<main, notices, unposted>>
       \/ /\ pills = Cardinality(Workers) /\ notices = <<>>
          /\ GoOn("pills", "join_workers")
          /\ notices' = <<Pill>> /\ unposted' = unposted + 1
          /\ UNCHANGED <<jobs, unfinished, pills>>
    /\ UNCHANGED <<queueSize, intake, turns, crew, stopping, signalled,
                   connected, seen>>

\* Slip: the workers, being daemons, are not joined.
JoinNobody ==
    /\ GoOn("join_workers", "ended")
    /\ UNCHANGED <<intake, queues, turns, crew, stopping, signalled, connected,
                   pills, seen>>

\* The joins of the threads; run returns, and the store is closed next.
JoinWorkers ==
    /\ \A w \in Workers : worker[w] = "gone"
    /\ herald = "gone"
    /\ GoOn("join_workers", "ended")
    /\ UNCHANGED <<intake, queues, turns, crew, stopping, signalled, connected,
                   pills, seen>>

Ended == main = "ended" /\ UNCHANGED vars

-------------------------------------------------------------------------------
Intake == PutJob \/ CancelFull \/ PutNotice

Work(w) ==
    \/ Get(w) \/ Check(w) \/ BeginTurn(w) \/ Handle(w) \/ FinishTurn(w) \/ Account(w)

Notify == GetNotice \/ PostNotice \/ AccountNotice

Run ==
    \/ ReturnEarly \/ StartWorkers \/ Connect \/ Wake
    \/ StopAccepting \/ StopWorkers \/ DiscardJob \/ DiscardNotice
    \/ JoinQueues \/ PutPill \/ JoinWorkers

Next ==
    \/ \E d \in Deliveries : Receive(d)
    \/ Intake \/ Notify \/ Run \/ SignalStop \/ Ended
    \/ \E w \in Workers : Work(w)

Spec == Init /\ [][Next]_vars

\* Every thread that can go on does, in the end: service.handle and the posts
\* return within their timeouts.  Mentions and signals need never come.
FairSpec ==
    /\ Spec
    /\ WF_vars(Intake) /\ WF_vars(Notify) /\ WF_vars(Run)
    /\ \A w \in Workers : WF_vars(Work(w))

-------------------------------------------------------------------------------
Held(d) == \E w \in Workers : job[w] = d /\ worker[w] \in {"check", "begin"}
Queued(d) == \E i \in DOMAIN jobs : jobs[i] = d

\* No thread is refused service by a mention that nobody will ever handle: who
\* is waited for is in the queue, with a worker, or on its way to the queue;
\* and a thread is active only while a worker works on it.
NoThreadStranded ==
    \A k \in Threads :
        /\ \A i \in DOMAIN waiters[k] :
              LET d == waiters[k][i]
              IN  Queued(d) \/ Held(d)
                  \/ (receiver.of = d /\ receiver.at \in {"put", "cancel"})
        /\ k \in active => \E w \in Workers :
              /\ worker[w] \in {"handle", "finish"}
              /\ ThreadOf[job[w]] = k

\* A worker with a job never has to wait for the turn of its thread, so that
\* one busy thread cannot tie up the workers that others need.
BeginNeverWaits ==
    \A w \in Workers : worker[w] = "begin" => MyTurn(w)

\* join() waits for exactly the items that are in the queues, which keep their
\* sizes, or being worked on; and no job stands behind a pill, so that no worker
\* leaves while there is work.
QueuesAccounted ==
    /\ Len(jobs) <= queueSize /\ Len(notices) <= 1
    /\ \A i, k \in DOMAIN jobs : i < k /\ jobs[i] = Pill => jobs[k] = Pill
    /\ unfinished = Len(jobs) + Cardinality({w \in Workers : job[w] # None})
    /\ unposted = Len(notices) + IF notice = None THEN 0 ELSE 1

\* When run has returned, nothing is left that could use the store: no worker
\* runs, no job is queued, no mention is still on its way to the queue, and
\* every mention that was accepted has been handled or dropped.
EndedIsQuiet ==
    main = "ended" =>
        /\ jobs = <<>> /\ unfinished = 0 /\ active = {}
        /\ \A w \in Workers : worker[w] \in {"unstarted", "gone"}
        /\ \A d \in Deliveries : outcome[d] # "accepted"
        /\ receiver.at # "put"

Turn == INSTANCE KeyedMutex WITH
    Threads <- Workers, Keys <- Threads,
    inside <- [w \in Workers |->
        IF worker[w] \in {"handle", "finish"} THEN ThreadOf[job[w]] ELSE None]

\* The turns are a mutual exclusion of their own, outside the one of BotService:
\* a worker handles one mention at a time, and no two the same thread's.
RefinesMutex == Turn!Spec

\* A signal ends the program, whatever is queued, being handled or arriving.
Stops == signalled ~> main = "ended"

\* Every mention that has been accepted is handled, or dropped at the end.
AcceptedIsResolved ==
    \A d \in Deliveries : outcome[d] = "accepted" ~> outcome[d] # "accepted"

\* "Disallowed routes, automated events, and duplicate events are silent": the
\* second delivery of an event that has been accepted is not answered.
DuplicatesAreSilent ==
    \A d \in told : \A c \in Deliveries \ {d} :
        EventOf[c] = EventOf[d] => outcome[c] \in {"new", "ignored", "refused"}
===============================================================================
