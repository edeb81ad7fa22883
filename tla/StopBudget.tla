------------------------------ MODULE StopBudget ------------------------------
(***************************************************************************)
(* The settings that decide how long a reply may take, and the check with  *)
(* which config.py makes the answers of a deployment end within the time   *)
(* systemd grants a service that is told to stop.                          *)
(*                                                                         *)
(* Settings are records: stage, adapter, provider (provider.kind), web     *)
(* (web.enabled), pauses (max_pause_continuations), timeout (of one        *)
(* provider call), postTimeout, status (show_generation_status), parts     *)
(* (posts of the longest answer), retries, queue and workers               *)
(* (max_concurrent_generations).                                           *)
(***************************************************************************)
EXTENDS Integers

CONSTANTS
    Settings,        \* the configurations looked at
    Stop,            \* SERVICE_TIMEOUT_STOP_SECONDS, TimeoutStopSec of the unit
    Margin,          \* SERVICE_SHUTDOWN_MARGIN_SECONDS
    ProviderLimit,   \* the longest provider timeout outside local use
    PostLimit,       \* the longest post timeout outside local use
    TextParts        \* posts of the service's longest text that is no answer

\* TextParts is as large as one likes: nothing in the code bounds the texts of the
\* commands by one message, as it does answers, and that of `pack` quotes fields of
\* the pack's header of which the loader does not limit the length.
ASSUME BudgetAssumption ==
    /\ Stop \in Nat /\ Margin \in 0 .. Stop /\ TextParts \in Nat \ {0}
    /\ \A s \in Settings :
        /\ s.timeout \in Nat \ {0} /\ s.postTimeout \in Nat \ {0}
        /\ s.pauses \in Nat /\ s.parts \in Nat \ {0}
        /\ s.web \in BOOLEAN /\ s.status \in BOOLEAN

VARIABLE settings    \* what load_config has read; it never changes

Budget == Stop - Margin

Local(s) == s.stage = "local"

\* The requests one generation may make.
ProviderCalls(s) == 1 + IF s.web /\ s.provider = "anthropic" THEN s.pauses ELSE 0

PlatformCalls(s) == IF s.status THEN 2 ELSE 1

WorstCase(s) == ProviderCalls(s) * s.timeout + PlatformCalls(s) * s.postTimeout

\* load_config accepts the settings.
Accepted(s) ==
    Local(s) \/ /\ s.timeout <= ProviderLimit /\ s.postTimeout <= PostLimit
                /\ s.retries = 0 /\ s.queue = 1 /\ s.parts = 1
                /\ WorstCase(s) <= Budget
===============================================================================
