----------------------------- MODULE MCBotService -----------------------------
(***************************************************************************)
(* Small deployments for BotService.  Events are questions, resets, calls  *)
(* of the context command and of help, all by one user in one              *)
(* conversation, where they get into each other's way most.                *)
(***************************************************************************)
EXTENDS BotService, TLC

CONSTANTS Questions, Resets, Counts, Helps

MCEvents == Questions \cup Resets \cup Counts \cup Helps

MCKeyOf == [e \in Events |-> "k"]

MCActorOf == [e \in Events |-> "a"]

MCKindOf ==
    [e \in Events |->
        IF e \in Resets THEN "reset"
        ELSE IF e \in Counts THEN "context"
        ELSE IF e \in Helps THEN "info"
        ELSE "question"]

\* handle does not know which worker calls it, nor one question from another.
ServiceSymmetry == Permutations(Threads) \cup Permutations(Questions)
===============================================================================
