------------------------------ MODULE SlackReply ------------------------------
(***************************************************************************)
(* SlackReply: the time a worker of the Slack adapter takes for a reply,   *)
(* from the moment it takes the job: the store, the generation status, the *)
(* provider with its continuations, the posts, which are paced per channel *)
(* under one lock for all channels, and what follows when one of these     *)
(* fails.  The notice worker shares the pacing.                            *)
(*                                                                         *)
(* Time passes in units of Tick.  A call of the provider or of Slack ends  *)
(* within its timeout, and what takes no call takes no time.               *)
(***************************************************************************)
EXTENDS StopBudget

CONSTANTS
    Jobs,        \* replies, each by a worker of its own
    Notice,      \* the notice worker with an overload notice
    Channels, ChannelOf,
    Gap,         \* the 1.05 s between two posts to a channel
    StoreWait,   \* how long the store may keep a reply waiting at a time
    None

ASSUME ReplyAssumption ==
    /\ ChannelOf \in [Jobs \cup {Notice} -> Channels]
    /\ Gap \in Nat /\ StoreWait \in Nat
    /\ Notice \notin Jobs /\ None \notin Jobs \cup {Notice}

VARIABLES
    reply,      \* reply[j]: how far it is, see FreshReply
    postLock,   \* the holder of _post_lock
    since       \* since[c]: time since the last post to c, as far as Gap

replyVars == <<settings, reply, postLock, since>>

Posters == Jobs \cup {Notice}

\* age: time since the worker took the job; spent: in the present stage;
\* waited: for the store and the pacing; due: how long to sleep; asked: requests
\* to the provider; left: posts to make; error: they are the worker's error text;
\* started, posted: as in the code; seen: a post has been made; shown: the thread
\* displays the status; unsure: a call that sets or clears the status has failed.
FreshReply ==
    [stage |-> "queued", age |-> 0, spent |-> 0, waited |-> 0, due |-> 0,
     asked |-> 0, left |-> 0, error |-> FALSE, started |-> FALSE,
     posted |-> FALSE, seen |-> FALSE, shown |-> FALSE, unsure |-> FALSE]

ReplyInit ==
    /\ reply = [j \in Posters |-> FreshReply]
    /\ postLock = None
    /\ since = [c \in Channels |-> Gap]

\* Reply j enters a stage.
Enters(j, stage) == [reply[j] EXCEPT !.stage = stage, !.spent = 0]

Becomes(j, r) == reply' = [reply EXCEPT ![j] = r] /\ UNCHANGED settings

Calm == UNCHANGED <<postLock, since>>

\* A post of n parts is about to be made.
Posting(j, n) == [Enters(j, "lock") EXCEPT !.left = n]

-------------------------------------------------------------------------------
Take(j) ==
    /\ reply[j].stage = "queued"
    /\ Becomes(j, IF j = Notice THEN Posting(j, 1) ELSE Enters(j, "read"))
    /\ Calm

\* claim_event, allow_request and load_turns have returned, or one has raised.  A
\* command or a refusal is answered, and a duplicate is not, without the provider.
\* generation_started sets no status when the adapter has been told to stop.
Read(j) ==
    /\ reply[j].stage = "read"
    /\ \/ settings.status /\ Becomes(j, Enters(j, "status"))
       \/ Becomes(j, [Enters(j, "ask") EXCEPT !.asked = 1])
       \/ \E n \in 1 .. TextParts : Becomes(j, Posting(j, n))
       \/ Becomes(j, Enters(j, "clean"))
       \/ Becomes(j, Enters(j, "fail"))
    /\ Calm

\* The call may have had its effect although it has failed.
StatusReturns(j) ==
    /\ reply[j].stage = "status"
    /\ \E ok, shown \in BOOLEAN :
        /\ ok => shown
        /\ Becomes(j, [Enters(j, "ask") EXCEPT !.asked = 1, !.started = ok,
                           !.shown = shown, !.unsure = ~ok])
    /\ Calm

\* A response that pauses is submitted again while that is allowed; an answer is
\* posted; so is the service's text when the provider has failed.
ProviderReturns(j) ==
    /\ reply[j].stage = "ask"
    /\ \/ /\ reply[j].asked < ProviderCalls(settings)
          /\ Becomes(j, [Enters(j, "ask") EXCEPT !.asked = @ + 1])
       \/ Becomes(j, Posting(j, settings.parts))
       \/ Becomes(j, Posting(j, 1))
    /\ Calm

Stamp(j) == since' = [since EXCEPT ![ChannelOf[j]] = 0]

\* Slip: the sleep does not keep the lock.
PaceUnlocked(j) ==
    /\ reply[j].stage = "lock" /\ postLock = None
    /\ LET delay == Gap - since[ChannelOf[j]]
       IN  \/ delay <= 0 /\ Becomes(j, Enters(j, "post")) /\ Stamp(j)
           \/ /\ delay > 0
              /\ Becomes(j, [Enters(j, "sleep") EXCEPT !.due = delay])
              /\ UNCHANGED since
    /\ UNCHANGED postLock

\* _pace_channel: the delay is computed once and slept under the lock.
Pace(j) ==
    /\ reply[j].stage = "lock" /\ postLock = None
    /\ LET delay == Gap - since[ChannelOf[j]]
       IN  \/ /\ delay <= 0
              /\ Becomes(j, Enters(j, "post")) /\ Stamp(j) /\ UNCHANGED postLock
           \/ /\ delay > 0
              /\ Becomes(j, [Enters(j, "sleep") EXCEPT !.due = delay])
              /\ postLock' = j /\ UNCHANGED since

Slept(j) ==
    /\ reply[j].stage = "sleep" /\ reply[j].spent >= reply[j].due
    /\ Becomes(j, Enters(j, "post")) /\ Stamp(j)
    /\ postLock' = None

\* What comes after the last part: an answer is stored, the service's own texts
\* are not, and after the worker's error text there is only cleaning up.
AfterPosts(j) ==
    IF j = Notice THEN {"done"}
    ELSE {"clean"} \cup {s \in {"commit"} : ~reply[j].error}

Posted(j, r) == Becomes(j, [r EXCEPT !.posted = TRUE, !.seen = TRUE])

PostFailed(j) == IF j = Notice THEN "done" ELSE IF reply[j].error THEN "clean" ELSE "fail"

\* Slip: posted is noted before the call.
PostMarksFirst(j) ==
    /\ reply[j].stage = "post"
    /\ \/ reply[j].left > 1 /\ Posted(j, Posting(j, reply[j].left - 1))
       \/ reply[j].left = 1 /\ \E s \in AfterPosts(j) : Posted(j, Enters(j, s))
       \/ Becomes(j, [Enters(j, PostFailed(j)) EXCEPT !.posted = TRUE])
    /\ Calm

\* chat_postMessage returns and on_posted is called, or it raises.
PostReturns(j) ==
    /\ reply[j].stage = "post"
    /\ \/ reply[j].left > 1 /\ Posted(j, Posting(j, reply[j].left - 1))
       \/ reply[j].left = 1 /\ \E s \in AfterPosts(j) : Posted(j, Enters(j, s))
       \/ Becomes(j, Enters(j, PostFailed(j)))
    /\ Calm

\* append_exchange; when it raises, handle returns all the same.
Commits(j) == reply[j].stage = "commit" /\ Becomes(j, Enters(j, "clean")) /\ Calm

\* Another call to Slack still fits in before the worker's deadline.
HasTime(j) == reply[j].age + settings.postTimeout <= Budget

\* Slip: the error is always reported.
FailAlwaysPosts(j) ==
    /\ reply[j].stage = "fail"
    /\ Becomes(j, [Posting(j, 1) EXCEPT !.error = TRUE])
    /\ Calm

\* The exception handler of _worker.
Fail(j) ==
    /\ reply[j].stage = "fail"
    /\ Becomes(j, IF HasTime(j) THEN [Posting(j, 1) EXCEPT !.error = TRUE]
                                ELSE Enters(j, "clean"))
    /\ Calm

\* The finally block of _worker.
Clean(j) ==
    /\ reply[j].stage = "clean"
    /\ LET clear == reply[j].started /\ ~reply[j].posted /\ HasTime(j)
       IN  Becomes(j, Enters(j, IF clear THEN "clear" ELSE "done"))
    /\ Calm

ClearReturns(j) ==
    /\ reply[j].stage = "clear"
    /\ \E ok \in BOOLEAN :
        Becomes(j, [Enters(j, "done") EXCEPT !.shown = ~ok, !.unsure = @ \/ ~ok])
    /\ Calm

-------------------------------------------------------------------------------
Waits == {"read", "commit", "lock", "sleep"}
Idle(j) == reply[j].stage \in {"queued", "done"}

\* The longest a reply stays in its stage; a reply that waits for the lock stays
\* as long as somebody sleeps with it.
StageLimit(j) ==
    IF reply[j].stage = "ask" THEN settings.timeout
    ELSE IF reply[j].stage \in {"status", "post", "clear"} THEN settings.postTimeout
    ELSE IF reply[j].stage \in {"read", "commit"} THEN StoreWait
    ELSE IF reply[j].stage = "sleep" THEN reply[j].due
    ELSE 0

MayGoOn(j) ==
    \/ Idle(j)
    \/ reply[j].stage = "lock" /\ postLock # None
    \/ reply[j].spent < StageLimit(j)

Older(j) ==
    IF Idle(j) THEN reply[j]
    ELSE [reply[j] EXCEPT
            !.age = @ + 1,
            !.spent = IF reply[j].stage = "lock" THEN @ ELSE @ + 1,
            !.waited = IF reply[j].stage \in Waits THEN @ + 1 ELSE @]

ReplyTick ==
    /\ \A j \in Posters : MayGoOn(j)
    /\ \/ \E j \in Posters : ~Idle(j)
       \/ \E c \in Channels : since[c] < Gap
    /\ reply' = [j \in Posters |-> Older(j)]
    /\ since' = [c \in Channels |-> IF since[c] < Gap THEN since[c] + 1 ELSE Gap]
    /\ UNCHANGED <<settings, postLock>>

ReplyStep(j) ==
    \/ Take(j) \/ Read(j) \/ StatusReturns(j) \/ ProviderReturns(j) \/ Pace(j)
    \/ Slept(j) \/ PostReturns(j) \/ Commits(j) \/ Fail(j) \/ Clean(j) \/ ClearReturns(j)

ReplyNext == ReplyTick \/ \E j \in Posters : ReplyStep(j)

\* The adapter runs only with settings that load_config has accepted.
ReplySpec ==
    /\ settings \in Settings /\ Accepted(settings) /\ ReplyInit
    /\ [][ReplyNext]_replyVars

-------------------------------------------------------------------------------
\* However the calls of a reply end and whatever is tried after a failure, outside
\* local use a worker that has asked the provider is done within the time that
\* load_config has checked the settings against, but for the waits for the store and
\* for the pacing of posts, which that check does not know of.  Nor does it know of
\* the texts of the commands, whose posts alone may take longer; but then nothing is
\* added to them: no error is reported and no status cleared once the time is over.
SlackEndsInTime ==
    ~Local(settings) => \A j \in Jobs :
        LET taken == reply[j].age - reply[j].waited
        IN  \/ taken <= Budget
            \/ reply[j].asked = 0 /\ taken <= TextParts * settings.postTimeout

\* Two posts to a channel begin at least Gap apart, whoever makes them.
PostsPaced ==
    [][\A j \in Posters :
        reply[j].stage # "post" /\ reply'[j].stage = "post"
        => since[ChannelOf[j]] = Gap]_replyVars

\* A thread goes on showing that an answer is being generated only when a call to
\* Slack has failed or there was no time for one; a post removes the status.
StatusCleared ==
    \A j \in Jobs :
        /\ reply[j].stage = "done" /\ reply[j].shown /\ ~reply[j].seen
        => reply[j].unsure \/ ~HasTime(j)
===============================================================================
