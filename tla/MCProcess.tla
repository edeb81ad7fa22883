------------------------------- MODULE MCProcess -------------------------------
(* Process with time in units in which a request takes two or three and a post one or two. *)
EXTENDS Process

MCChannelOf == [j \in Jobs \cup {Notice} |-> "c"]

\* The replies of a deployment take, by config.py's reckoning, exactly as long as
\* they may; with a third request they are refused.  A command's text may take longer,
\* if posts are slow.
\* An answer of several parts is possible only in local use.  Discord has one worker
\* for its one place in the queue, or two.
Slack == [stage |-> "production", adapter |-> "slack", provider |-> "anthropic",
          web |-> TRUE, pauses |-> 1, timeout |-> 3, postTimeout |-> 1,
          status |-> TRUE, parts |-> 1, retries |-> 0, queue |-> 1, workers |-> 2]
SlowPosts == [Slack EXCEPT !.timeout = 2, !.postTimeout = 2]
Discord == [SlowPosts EXCEPT !.adapter = "discord", !.workers = 1]

MCSettings == {
    Slack, SlowPosts, [Slack EXCEPT !.pauses = 2],
    [Slack EXCEPT !.stage = "local", !.parts = 2, !.web = FALSE],
    Discord,
    [Discord EXCEPT !.status = FALSE, !.pauses = 2, !.provider = "openai-compatible",
                    !.workers = 2],
    [Discord EXCEPT !.stage = "local", !.parts = 3, !.queue = 2, !.workers = 2] }
===============================================================================
