-------------------------------- MODULE StartUp --------------------------------
(***************************************************************************)
(* StartUp: the life of the service process from load_config to its exit   *)
(* code, under the unit that starts it again on failure but leaves it down *)
(* after status 2.                                                         *)
(*                                                                         *)
(* fault is what is permanently wrong, apart from settings that            *)
(* load_config refuses:                                                    *)
(*   "preflight"  a check of run_checks fails (permissions, packages, ...) *)
(*   "secret"     a token or API key is missing, which is one check too    *)
(*   "directory"  the state directory may not be searched                  *)
(*   "platform"   the platform refuses the token                           *)
(* Other processes may make the database busy at any time, but not always, *)
(* and the platform may be out of reach at any time.                       *)
(***************************************************************************)
EXTENDS StopBudget, PackLoader

CONSTANTS
    Faults,      \* the faults looked at, and "none"
    MaxCrashes   \* bound: kills of the process

VARIABLES
    fault,
    at,          \* where main is
    error,       \* the exception on its way out: "none", "refusal" for the two
                 \* classes that end with status 2, or "failure"
    crashes,
    told,        \* the operator has stopped the service
    sdkFailed    \* in this life of the process the platform's SDK has raised

bootVars == <<fault, at, error, crashes, told, sdkFailed>>
startVars == <<settings, fileVars, loaderVars, bootVars>>

StartInit ==
    /\ settings \in Settings /\ PackInit
    /\ fault \in Faults /\ at = "config" /\ error = "none"
    /\ crashes = 0 /\ told = FALSE /\ sdkFailed = FALSE

-------------------------------------------------------------------------------
\* main goes on, or an exception goes out by way of a place.
GoesOn(from, to) == at = from /\ at' = to /\ UNCHANGED error
Raises(from, class, to) == at = from /\ at' = to /\ error' = class

Held == UNCHANGED <<settings, fault, crashes, fileVars>>
Kept == Held /\ UNCHANGED <<told, sdkFailed>>

LoadConfig ==
    /\ IF ~Accepted(settings) THEN Raises("config", "refusal", "exit")
       ELSE GoesOn("config", IF Local(settings) THEN "pack" ELSE "preflight")
    /\ Kept /\ UNCHANGED loaderVars

\* verified_pack, in the preflight and again in _run; it is read anew.
ReadPack == at \in {"preflight", "pack"} /\ Load /\ UNCHANGED <<settings, bootVars>>

\* run_checks.  That the state directory may not be searched makes
\* config.store.path.exists() raise PermissionError, which nobody catches.
Preflight ==
    /\ reader \in {"accepted", "rejected"} /\ reader' = "idle"
    /\ \/ fault = "directory" /\ Raises("preflight", "failure", "exit")
       \/ /\ fault \in {"preflight", "secret"} \/ reader = "rejected"
          /\ fault # "directory" /\ Raises("preflight", "refusal", "exit")
       \/ /\ fault \notin {"preflight", "secret", "directory"} /\ reader = "accepted"
          /\ GoesOn("preflight", "pack")
    /\ Kept /\ UNCHANGED <<handle, before, opened, raw>>

PackVerdict ==
    /\ \/ reader = "rejected" /\ Raises("pack", "refusal", "exit")
       \/ reader = "accepted" /\ GoesOn("pack", "store")
    /\ Kept /\ UNCHANGED loaderVars

\* create_store: the database may be busy, or its directory out of reach.
CreateStore ==
    /\ \/ Raises("store", "failure", "exit")
       \/ fault # "directory" /\ GoesOn("store", "purge")
    /\ Kept /\ UNCHANGED loaderVars

PurgeAtStart ==
    /\ GoesOn("purge", "provider") \/ Raises("purge", "failure", "close")
    /\ Kept /\ UNCHANGED loaderVars

\* A missing key or package is a ConfigurationError of create_provider, a missing
\* token a ValueError of the adapter; outside local use the preflight has seen them.
Construct ==
    /\ \/ fault \in {"preflight", "secret"} /\ Raises("provider", "refusal", "close")
       \/ fault = "secret" /\ Raises("provider", "failure", "close")
       \/ fault # "secret" /\ GoesOn("provider", "connect")
    /\ Kept /\ UNCHANGED loaderVars

\* Once the workers have been started, _shutdown of the Discord adapter puts a pill
\* for each of them into the queue without waiting.  When there are more of them than
\* places, the QueueFull it raises takes the place of what was on its way out of
\* adapter.run, and nobody catches it.
PillsFit == settings.adapter = "discord" => settings.workers <= settings.queue
ShutDown(class) == IF PillsFit THEN class ELSE "failure"

\* adapter.run.  Whatever the SDK raises while its objects are made, before there are
\* workers, or while it connects becomes a ConfigurationError, be it that the token
\* is refused or that the network is down for a moment.
Connecting ==
    /\ \/ /\ fault # "platform" /\ GoesOn("connect", "serving")
          /\ UNCHANGED sdkFailed
       \/ /\ \E class \in {"refusal", ShutDown("refusal")} :
                Raises("connect", class, "close")
          /\ sdkFailed' = TRUE
    /\ Held /\ UNCHANGED <<told, loaderVars>>

\* The client of Discord ends with an error while it is served; that of Slack is
\* not waited for, and goes on connecting.
ClientEnds ==
    /\ settings.adapter = "discord" /\ Raises("serving", ShutDown("refusal"), "close")
    /\ sdkFailed' = TRUE
    /\ Held /\ UNCHANGED <<told, loaderVars>>

\* The operator stops the service, which may have no workers yet; adapter.run returns.
StopServing ==
    /\ \/ Raises("connect", "none", "close")
       \/ Raises("connect", ShutDown("none"), "close")
       \/ Raises("serving", ShutDown("none"), "close")
    /\ told' = TRUE
    /\ Held /\ UNCHANGED <<sdkFailed, loaderVars>>

CloseDone == GoesOn("close", "exit") /\ Kept /\ UNCHANGED loaderVars

\* store.close cannot truncate the WAL; its StoreError takes the place of the
\* exception on its way out.  The connection is closed all the same.
CloseBusy == Raises("close", "failure", "exit") /\ Kept /\ UNCHANGED loaderVars

Crash ==
    /\ at \notin {"exit", "down"} /\ crashes < MaxCrashes
    /\ crashes' = crashes + 1 /\ at' = "exit" /\ error' = "failure"
    /\ UNCHANGED <<settings, fault, told, sdkFailed, fileVars, loaderVars>>

\* Slip: every error of the program ends with status 1.
StaysDownWhenFine == error = "none"

\* Slip: every error of the program ends with status 2.
StaysDownAlways == error # "unknown"

\* Restart=on-failure, RestartPreventExitStatus=2: main returns 0, 2 or 1.
StaysDown == error \in {"none", "refusal"}

Exit ==
    /\ at = "exit"
    /\ at' = IF told \/ StaysDown THEN "down" ELSE "config"
    /\ sdkFailed' = (sdkFailed /\ at' = "down")
    /\ error' = "none" /\ reader' = "idle"
    /\ Held /\ UNCHANGED <<told, handle, before, opened, raw>>

-------------------------------------------------------------------------------
Main ==
    \/ LoadConfig \/ ReadPack \/ Preflight \/ PackVerdict \/ CreateStore
    \/ PurgeAtStart \/ Construct \/ Connecting \/ CloseDone \/ CloseBusy \/ Exit

Down == at = "down" /\ UNCHANGED startVars

StartNext ==
    \/ Main \/ ClientEnds \/ StopServing \/ Crash \/ Down
    \/ Outside /\ UNCHANGED <<settings, bootVars>>

\* The program and systemd go on; the database is not busy every time the store is
\* opened, nor every time it is purged, nor every time it is closed because of a
\* refusal.
StartFairness ==
    /\ WF_startVars(Main)
    /\ SF_startVars(CreateStore /\ at' = "purge")
    /\ SF_startVars(PurgeAtStart /\ at' = "provider")
    /\ SF_startVars(CloseDone /\ error = "refusal")

-------------------------------------------------------------------------------
\* What is wrong with the deployment and will be again.
Misconfigured ==
    \/ ~Accepted(settings)
    \/ fault = "platform"
    \/ ~Local(settings) /\ fault \in {"preflight", "secret"}

\* The reason never reaches systemd: the token is refused, and the adapter's own
\* shutdown raises something else.
Hidden == Accepted(settings) /\ fault = "platform" /\ ~PillsFit

\* A service that cannot work comes to rest and is not started again and again,
\* although a busy database can hide the reason once; unless it is always hidden.
MisconfiguredStops == (Misconfigured /\ ~Hidden) ~> at = "down"

\* What main finds wrong in local use, where there is no preflight.
LocallyWrong == Local(settings) /\ fault \in {"preflight", "secret"}

\* A crash or a busy database never leaves the service down, nor does a platform that
\* was out of reach in an earlier life.  A platform out of reach in the last one does,
\* since the code does not tell it from a refused token, and who writes the pack while
\* it is read has to start the service again.
TransientsAreRetried ==
    at = "down" =>
        told \/ (Misconfigured /\ ~Hidden) \/ LocallyWrong \/ writes > 0 \/ sdkFailed

\* "The service exits with status 2: configuration or deployment preflight failed":
\* what the preflight is there to find makes the service come to rest.
PreflightFailureStops ==
    (~Local(settings) /\ fault \in {"preflight", "secret", "directory"}) ~> at = "down"
===============================================================================
