------------------------------ MODULE MCUpstream ------------------------------
(* Instances of UpstreamManager for TLC. *)
EXTENDS UpstreamManager, TLC

CONSTANTS Gets, Restarts, CloseProfiles, Crashes, Requests

MCBudget == ("get" :> Gets) @@ ("restart" :> Restarts)
            @@ ("closeProfile" :> CloseProfiles)
            @@ ("crash" :> Crashes) @@ ("request" :> Requests)
===============================================================================
