--------------------------- MODULE MCClusterHealth --------------------------
(* A master and an agent with a unit in common, pulled twice.                  *)
EXTENDS ClusterHealth, TLC

CONSTANTS n1, n2, setup, u1, u2

MCReqs == Nodes \X (1..MaxPulls)
MCAt == [r \in MCReqs |-> r[1]]
MCWants == n1 :> <<setup, u1, u2>> @@ n2 :> <<u1>>

\* A unit that runs, one that restarts over and over, and one that systemd does not
\* know yet.
Runs == [load |-> "loaded", active |-> "active", sub |-> "running", exec |-> 0, up |-> 2, down |-> 1]
Restarts == [Runs EXCEPT !.active = "activating", !.sub = "auto-restart", !.down = 3]
Unloaded == [Runs EXCEPT !.load = "", !.active = "", !.sub = ""]
MCProperties == {Runs, Restarts, Unloaded}

All(p) == [u \in Names |-> p]
MCScenarios ==
  {n1 :> [All(Runs) EXCEPT ![u1] = Restarts, ![u2] = Unloaded] @@ n2 :> All(Runs)}
=============================================================================
