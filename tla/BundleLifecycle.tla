-------------------------- MODULE BundleLifecycle ---------------------------
(* What the REST API promises of a bundle, whatever requests, goroutines,      *)
(* faults and crashes go on: the status its state file shows, and whether the  *)
(* goroutine that collects its data is still at work. LocalBundle and          *)
(* ClusterBundle implement it.                                                 *)
CONSTANT Bundles \* a bundle is an id on one machine

VARIABLES
  status, \* status[b]: "absent", a status of api/rest/status.go, "broken" if it
          \* cannot be read, "contested" once two Creates have made the same bundle
  active  \* active[b]: somebody is at work on b and will say how it ended

lifecycle == <<status, active>>

Statuses == {"absent", "Started", "Done", "Failed", "Deleted", "broken", "contested"}

Init ==
  /\ status = [b \in Bundles |-> "absent"]
  /\ active = [b \in Bundles |-> FALSE]

\* b is from now on in state st, and a tells whether somebody is at work on it.
Becomes(b, st, a) == status'[b] = st /\ active'[b] = a

\* A Create is accepted.
Start(b) == status[b] = "absent" /\ Becomes(b, "Started", TRUE)

\* The work ends well, or badly, and the state says so: also the state of a bundle
\* that was deleted meanwhile, which so comes back.
Finish(b) == active[b] /\ Becomes(b, "Done", FALSE)
Fail(b) == active[b] /\ Becomes(b, "Failed", FALSE)

\* The work ends and nobody says so: the state file still shows what it did.
GiveUp(b) == active[b] /\ Becomes(b, status[b], FALSE)

\* A bundle is deleted at any time; that does not stop the work.
Delete(b) == status[b] \notin {"absent", "contested"} /\ Becomes(b, "Deleted", active[b])

\* The state file is cut short.
Break(b) ==
  /\ status[b] \notin {"absent", "contested"}
  /\ Becomes(b, "broken", active[b]) \/ Becomes(b, "broken", FALSE)

\* Two Creates find no such bundle and both go on. Nothing is promised then.
Contest(b) == Becomes(b, "contested", FALSE)

Step(b) == \/ Start(b) \/ Finish(b) \/ Fail(b) \/ GiveUp(b)
           \/ Delete(b) \/ Break(b) \/ Contest(b)

\* Bundles have nothing to do with each other; a crash hits all of them.
Next ==
  /\ status' \in [Bundles -> Statuses]
  /\ active' \in [Bundles -> BOOLEAN]
  /\ \A b \in Bundles : Step(b) \/ Becomes(b, status[b], active[b])

Spec == Init /\ [][Next]_lifecycle

\* The work on a bundle ends in the end.
WorkEnds == \A b \in Bundles : active[b] ~> ~active[b]

FairSpec == Spec /\ WorkEnds

=============================================================================
