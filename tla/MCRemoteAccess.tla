---------------------------- MODULE MCRemoteAccess ----------------------------
(* A finite instance of RemoteAccess for TLC: a configuration of each mode, two *)
(* host names so that a node has to be replaced, and two calls, which with the   *)
(* start make three generations: one at work, one cancelled, one waiting.        *)
EXTENDS RemoteAccess

CONSTANTS h1, h2

ThreeConfigs ==
    {[mode |-> "disabled", host |-> h1], [mode |-> "private", host |-> h1],
     [mode |-> "funnel", host |-> h2]}
=============================================================================
