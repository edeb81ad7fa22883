-------------------------- MODULE MCConversationLock --------------------------
(***************************************************************************)
(* Three threads over two conversations: two threads can meet in one       *)
(* conversation while a third starts or ends another, or arrives late.     *)
(* There are as many lock identities as threads, so a fresh one is always  *)
(* available and an old one is soon used again.                            *)
(***************************************************************************)
EXTENDS ConversationLockProofs
===============================================================================
