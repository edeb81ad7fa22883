-------------------------------- MODULE Process --------------------------------
(***************************************************************************)
(* Process: the service from start to exit, with the replies its adapter   *)
(* makes while it serves.  The settings that load_config accepts are the   *)
(* ones the replies run with.                                              *)
(*                                                                         *)
(* Replies are looked at in the first life of the process, with a pinned   *)
(* pack that nobody has touched: the pack is not read again while the bot  *)
(* serves, a crash in the middle of a reply is a matter of BotService, and *)
(* a restart finds the memory of the adapters empty.                       *)
(***************************************************************************)
EXTENDS StartUp, SlackReply, DiscordReply

slackVars == <<reply, postLock, since>>
callVars == <<threadVars, loopVars, future, posted, clocks>>
processVars == <<startVars, slackVars, callVars>>

ProcessInit == StartInit /\ ReplyInit /\ DiscordInit

Untouched == pinned /\ writes = 0 /\ crashes = 0 /\ fault = "none"

NoReplyYet == caller = "idle" /\ \A j \in Posters : reply[j].stage = "queued"

RepliesAtRest ==
    /\ \A j \in Posters : Idle(j)
    /\ caller = "idle" \/ handler.at = "ended"

Reply ==
    /\ at = "serving" /\ Untouched
    /\ \/ settings.adapter = "slack" /\ ReplyNext /\ UNCHANGED callVars
       \/ settings.adapter = "discord" /\ DiscordNext /\ UNCHANGED slackVars
    /\ UNCHANGED <<fileVars, loaderVars, bootVars>>

\* adapter.run ends, by whatever it is made to, when the workers have finished their
\* replies.
Leave == RepliesAtRest /\ (ClientEnds \/ StopServing)

ProcessNext ==
    \/ Reply
    \/ /\ \/ Main \/ Leave \/ Down
          \/ NoReplyYet /\ Crash
          \/ NoReplyYet /\ Outside /\ UNCHANGED <<settings, bootVars>>
       /\ UNCHANGED <<slackVars, callVars>>

ProcessSpec == ProcessInit /\ [][ProcessNext]_processVars /\ StartFairness
===============================================================================
