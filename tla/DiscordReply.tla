----------------------------- MODULE DiscordReply -----------------------------
(***************************************************************************)
(* DiscordReply: one reply of the Discord adapter.  The service runs on a  *)
(* thread; it has its posts made by a task on the Gateway loop and waits   *)
(* for them with a timeout of its own; the worker task waits for the       *)
(* service, reports an error and ends the typing indicator.  The thread    *)
(* speaks to the loop through a queue of callbacks.                        *)
(*                                                                         *)
(* Time passes in units of Tick, as in SlackReply.  Replies share nothing, *)
(* so one is enough.                                                       *)
(***************************************************************************)
EXTENDS StopBudget, Sequences

CONSTANT
    StoreDelay   \* how long the store may keep the reply waiting at a time

VARIABLES
    caller,      \* where the service thread is ...
    inStage,     \* ... and for how long
    requests,    \* requests to the provider
    parts,       \* of the text that is posted
    loop,        \* callbacks the event loop has yet to run
    sender,      \* the task of _post: where it is, the part it sends, how long
    future,      \* what the service thread sees of it
    handler,     \* _handle_job: where it is and for how long
    posted,      \* message_posted
    typing,      \* the typing task exists
    begun,       \* the posts that have begun
    elapsed,     \* time since the worker took the job
    delayed      \* the part of it spent waiting for the store

threadVars == <<caller, inStage, requests, parts>>
loopVars == <<loop, sender, handler, typing, begun>>
clocks == <<elapsed, delayed>>
discordVars == <<settings, threadVars, loopVars, future, posted, clocks>>

ErrorText == 0    \* parts of an answer are numbered from 1

DiscordInit ==
    /\ caller = "idle" /\ inStage = 0 /\ requests = 0 /\ parts = 0
    /\ loop = <<>> /\ sender = [at |-> "none", part |-> 0, spent |-> 0]
    /\ future = "none" /\ handler = [at |-> "await", spent |-> 0]
    /\ posted = FALSE /\ typing = FALSE /\ begun = <<>>
    /\ elapsed = 0 /\ delayed = 0

Schedule(callbacks) == loop' = loop \o callbacks

Proceed(stage) == caller' = stage /\ inStage' = 0

-------------------------------------------------------------------------------
(* The service thread *)

Start ==
    /\ caller = "idle" /\ Proceed("store")
    /\ UNCHANGED <<settings, requests, parts, loopVars, future, posted, clocks>>

\* deliver hands its coroutine, which posts n parts, to the loop and waits.
DeliverParts(n) ==
    /\ Proceed("blocked") /\ Schedule(<<"post">>) /\ future' = "pending" /\ parts' = n

\* The store has been read and generation_started called; or a command or a refusal
\* is answered, or a duplicate is not, without the provider; or handle raises.
Prepare ==
    /\ caller = "store"
    /\ \/ /\ Proceed("ask") /\ requests' = 1 /\ UNCHANGED <<future, parts>>
          /\ \/ Schedule(<<"typing">>) /\ settings.status
             \/ UNCHANGED loop
       \/ \E n \in 1 .. TextParts : DeliverParts(n) /\ UNCHANGED requests
       \/ /\ Proceed("over") /\ UNCHANGED <<requests, future, parts>>
          /\ Schedule(<<"succeed">>) \/ Schedule(<<"fail">>)
    /\ UNCHANGED <<settings, sender, handler, typing, begun, posted, clocks>>

\* Slip: one continuation too many.
GenerateOnceMore ==
    /\ caller = "ask"
    /\ \/ /\ requests <= ProviderCalls(settings) /\ Proceed("ask")
          /\ requests' = requests + 1 /\ UNCHANGED <<loop, future, parts>>
       \/ \E n \in {settings.parts, 1} : DeliverParts(n) /\ UNCHANGED requests
    /\ UNCHANGED <<settings, sender, handler, typing, begun, posted, clocks>>

\* The provider pauses and is asked again; or its answer is delivered, or the
\* service's text when it has failed.
GenerateAndPost ==
    /\ caller = "ask"
    /\ \/ /\ requests < ProviderCalls(settings) /\ Proceed("ask")
          /\ requests' = requests + 1 /\ UNCHANGED <<loop, future, parts>>
       \/ \E n \in {settings.parts, 1} : DeliverParts(n) /\ UNCHANGED requests
    /\ UNCHANGED <<settings, sender, handler, typing, begun, posted, clocks>>

\* future.result returns, or raises what the coroutine has raised.
Delivered ==
    /\ caller = "blocked"
    /\ \/ /\ future = "ok" /\ Proceed("commit") /\ posted' = TRUE /\ UNCHANGED loop
       \/ /\ future = "failed" /\ Proceed("over") /\ Schedule(<<"fail">>)
          /\ UNCHANGED posted
    /\ UNCHANGED <<settings, requests, parts, sender, handler, typing, begun, future, clocks>>

\* What cancelling the future asks of the loop, once the task exists.
Cancellation == IF sender.at = "none" THEN <<>> ELSE <<"cancel">>

GivesUp(after) ==
    /\ caller = "blocked" /\ inStage >= after
    /\ future' = "abandoned"
    /\ Proceed("over") /\ Schedule(Cancellation \o <<"fail">>)
    /\ UNCHANGED <<settings, requests, parts, sender, handler, typing, begun, posted, clocks>>

\* Slip: the task is left alone.
GiveUpQuietly ==
    /\ caller = "blocked" /\ inStage >= settings.postTimeout + 1
    /\ future' = "abandoned"
    /\ Proceed("over") /\ Schedule(<<"fail">>)
    /\ UNCHANGED <<settings, requests, parts, sender, handler, typing, begun, posted, clocks>>

\* Slip: both timeouts are the same.
GiveUpEarly == GivesUp(settings.postTimeout)

\* future.result has waited a second longer than the timeout of one post.
GiveUp == GivesUp(settings.postTimeout + 1)

\* append_exchange, which the service's own texts do without.
Store ==
    /\ caller = "commit" /\ Proceed("over") /\ Schedule(<<"succeed">>)
    /\ UNCHANGED <<settings, requests, parts, sender, handler, typing, begun, future,
                   posted, clocks>>

-------------------------------------------------------------------------------
(* The event loop *)

Sends(part) ==
    /\ sender' = [at |-> "sending", part |-> part, spent |-> 0]
    /\ begun' = Append(begun, part)

Handles(stage) == handler' = [at |-> stage, spent |-> 0]

\* _handle_job goes on after `await completed`.
Resume(failed) ==
    IF failed /\ ~posted
      THEN Handles("report") /\ begun' = Append(begun, ErrorText)
      ELSE Handles("finally") /\ UNCHANGED begun

\* Callbacks run in the order in which they were scheduled.  The coroutine of
\* _post starts one round after its task has been made; when the thread has given
\* up before, the cancellation follows the start.
RunCallback ==
    /\ loop # <<>>
    /\ \/ /\ Head(loop) = "typing" /\ typing' = TRUE /\ loop' = Tail(loop)
          /\ UNCHANGED <<sender, handler, begun>>
       \/ /\ Head(loop) = "post"
          /\ loop' = Tail(loop) \o <<"step">> \o
                     IF future = "abandoned" THEN <<"cancel">> ELSE <<>>
          /\ sender' = [sender EXCEPT !.at = "ready"]
          /\ UNCHANGED <<handler, typing, begun>>
       \/ /\ Head(loop) = "step" /\ Sends(1) /\ loop' = Tail(loop)
          /\ UNCHANGED <<handler, typing>>
       \/ /\ Head(loop) = "cancel"
          /\ sender' = [sender EXCEPT !.at = "ended"] /\ loop' = Tail(loop)
          /\ UNCHANGED <<handler, typing, begun>>
       \/ /\ Head(loop) \in {"fail", "succeed"}
          /\ loop' = Tail(loop) \o <<IF Head(loop) = "fail" THEN "failed" ELSE "served">>
          /\ UNCHANGED <<sender, handler, typing, begun>>
       \/ /\ Head(loop) \in {"failed", "served"}
          /\ Resume(Head(loop) = "failed") /\ loop' = Tail(loop)
          /\ UNCHANGED <<sender, typing>>
    /\ UNCHANGED <<settings, threadVars, future, posted, clocks>>

\* channel.send returns, or raises, or runs into its timeout.
SendReturns ==
    /\ sender.at = "sending"
    /\ \/ /\ sender.part < parts
          /\ Sends(sender.part + 1) /\ UNCHANGED future
       \/ \E end \in {"ok", "failed"} :
            /\ end = "ok" => sender.part = parts
            /\ sender' = [sender EXCEPT !.at = "ended"]
            /\ future' = IF future = "pending" THEN end ELSE future
            /\ UNCHANGED begun
    /\ UNCHANGED <<settings, threadVars, loop, handler, typing, posted, clocks>>

Reported ==
    /\ handler.at = "report" /\ Handles("finally")
    /\ UNCHANGED <<settings, threadVars, loop, sender, typing, begun, future, posted, clocks>>

\* The finally block of _handle_job: callbacks already scheduled run first.
Finally ==
    /\ handler.at = "finally" /\ loop = <<>>
    /\ Handles(IF typing THEN "typing" ELSE "ended")
    /\ UNCHANGED <<settings, threadVars, loop, sender, typing, begun, future, posted, clocks>>

\* The typing context ends, or is given up after its timeout.
TypingEnds ==
    /\ handler.at = "typing" /\ Handles("ended")
    /\ UNCHANGED <<settings, threadVars, loop, sender, typing, begun, future, posted, clocks>>

-------------------------------------------------------------------------------
UnderWay == caller # "idle" /\ handler.at # "ended"

\* How long the thread may stay where it is; it is told of a result at once.
Patience ==
    IF caller = "ask" THEN settings.timeout
    ELSE IF caller \in {"store", "commit"} THEN StoreDelay
    ELSE IF caller = "blocked" /\ future = "pending" THEN settings.postTimeout + 1
    ELSE 0

DiscordTick ==
    /\ UnderWay /\ loop = <<>> /\ handler.at # "finally"
    /\ caller # "over" => inStage < Patience
    /\ sender.at = "sending" => sender.spent < settings.postTimeout
    /\ handler.at \in {"report", "typing"} => handler.spent < settings.postTimeout
    /\ elapsed' = elapsed + 1
    /\ delayed' = IF caller \in {"store", "commit"} THEN delayed + 1 ELSE delayed
    /\ inStage' = IF caller = "over" THEN 0 ELSE inStage + 1
    /\ sender' = IF sender.at = "sending" THEN [sender EXCEPT !.spent = @ + 1] ELSE sender
    /\ handler' = IF handler.at = "await" THEN handler ELSE [handler EXCEPT !.spent = @ + 1]
    /\ UNCHANGED <<settings, caller, requests, parts, loop, typing, begun, future, posted>>

DiscordNext ==
    \/ Start \/ Prepare \/ GenerateAndPost \/ Delivered \/ GiveUp \/ Store
    \/ RunCallback \/ SendReturns \/ Reported \/ Finally \/ TypingEnds
    \/ DiscordTick

DiscordSpec ==
    /\ settings \in Settings /\ Accepted(settings) /\ DiscordInit
    /\ [][DiscordNext]_discordVars

-------------------------------------------------------------------------------
\* When the channel is told of an error no part of the answer follows, although
\* the thread that gives up and the task that posts do not wait for each other.
ErrorIsLast == \A i \in 1 .. Len(begun) - 1 : begun[i] # ErrorText

\* Of the two timeouts around a post of one part the outer one never strikes, so
\* that the error is the post's own and the task has ended when it is reported.
OnePartNotCutOff == parts = 1 => future # "abandoned"

\* Outside local use a reply ends within the time that load_config has checked the
\* settings against, the wait for the store, and the timeout of one more call: the
\* error text, or the typing indicator's last wait, which the check leaves out.
\* One such timeout may be more than Margin.
DiscordEndsInTime ==
    ~Local(settings) => elapsed <= Budget + settings.postTimeout + delayed
===============================================================================
