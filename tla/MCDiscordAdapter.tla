--------------------------- MODULE MCDiscordAdapter ---------------------------
(***************************************************************************)
(* DiscordAdapter for TLC: two mentions in one channel, two in others.     *)
(***************************************************************************)
EXTENDS DiscordAdapter, TLC

CONSTANTS m1, m2, m3, m4, x, y, z

MCChannelOf == [m \in Mentions |-> CASE m \in {m1, m2} -> x [] m = m3 -> y [] m = m4 -> z]
===============================================================================
