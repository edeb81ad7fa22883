---------------------------- MODULE EventContract ----------------------------
(***************************************************************************)
(* What BotService.handle promises about the events of a platform that may *)
(* deliver an event more than once, to a process that may be killed at any *)
(* time: an event is claimed once; the model is asked for it at most once, *)
(* after the claim; at most one text is posted for it; and only an answer  *)
(* that the channel has seen enters the history of its conversation.       *)
(***************************************************************************)
CONSTANTS Events

VARIABLES stage,   \* stage[e]: how far event e has got
          history  \* the events whose exchange the store holds

Stages == {"new", "claimed", "asked", "answered", "told"}

Init ==
    /\ stage = [e \in Events |-> "new"]
    /\ history = {}

Move(e, from, to) ==
    /\ stage[e] \in from
    /\ stage' = [stage EXCEPT ![e] = to]
    /\ UNCHANGED history

Claim(e) == Move(e, {"new"}, "claimed")

\* The request that may cost money.
Ask(e) == Move(e, {"claimed"}, "asked")

\* The whole answer of the model is in the channel.
Answer(e) == Move(e, {"asked"}, "answered")

\* A notice, the reply to a command, or a part of an answer is in the channel.
Tell(e) == Move(e, {"claimed", "asked"}, "told")

Keep(e) ==
    /\ stage[e] = "answered"
    /\ history' = history \cup {e}
    /\ UNCHANGED stage

\* A reset, or the retention period.
Forget ==
    /\ history' \in SUBSET history
    /\ UNCHANGED stage

Next ==
    \/ \E e \in Events : Claim(e) \/ Ask(e) \/ Answer(e) \/ Tell(e) \/ Keep(e)
    \/ Forget

Spec == Init /\ [][Next]_<<stage, history>>
===============================================================================
