----------------------------- MODULE Coordinator -----------------------------
(* ParallelCoordinator of api/rest/coordinator.go: one cluster bundle. A pool  *)
(* of workers takes jobs from a buffered channel, creates a local bundle on    *)
(* every node, polls it until it is finished and reports on a second buffered  *)
(* channel; CollectBundle receives the reports, downloads the local bundles,   *)
(* merges them and has them deleted.                                           *)
(*                                                                             *)
(* A call of the client (client.go) to a node is one step that may fail, with  *)
(* or without its effect on the node, so a lost request, a lost answer and a   *)
(* request that is served after the client gave up are all behaviours.         *)
EXTENDS Integers, Sequences, FiniteSets

CONSTANTS
  Nodes,    \* the nodes of the cluster bundle
  Workers,  \* the numberOfWorkers goroutines
  Meddled,  \* the nodes on which an operator deletes local bundles: a bound
  NoNode    \* no node: an idle worker, nothing to download

ASSUME NodesAssumption == IsFiniteSet(Nodes) /\ NoNode \notin Nodes

ASSUME MeddledAssumption == Meddled \subseteq Nodes

VARIABLES
  toEnqueue,  \* nodes CreateBundle has not enqueued a job for yet
  jobs,       \* the channel jobs
  statuses,   \* the channel statuses
  timers,     \* timers[n]: pending time.AfterFunc calls that re-enqueue n
  wpc,        \* wpc[w]: next step of worker w
  wnode,      \* wnode[w]: the node of the job w runs
  wstatus,    \* wstatus[w]: the BundleStatus w is about to send
  wflush,     \* wflush[w]: w has seen ctx.Done and is in the flush loop
  ctxDone,    \* the context of the cluster bundle has expired
  cpc,        \* next step of CollectBundle
  cnode,      \* the node it downloads from
  finished,   \* finishedBundles
  report,     \* report[n]: the entry of n in bundleReport, "none" if there is none
  paths,      \* nodes whose downloaded archive is in bundlePaths
  toDelete,   \* bundlesToDelete, filled so far
  cleaned,    \* how many of them the cleanup goroutine has dealt with
  remote,     \* remote[n]: the state file of the local bundle on node n
  running,    \* nodes that still collect their local bundle
  gone,       \* nodes whose local bundle has lost its data file to a Delete
  inflight,   \* nodes that may still serve a creation request the client gave up on
  undeleted   \* history: nodes whose Delete call failed

work == <<toEnqueue, jobs, statuses, timers>>
worker == <<wpc, wnode, wstatus, wflush>>
collector == <<cpc, cnode, finished, report, paths, toDelete>>
env == <<remote, running, gone, inflight>>
vars == <<work, worker, ctxDone, collector, cleaned, env, undeleted>>

N == Cardinality(Nodes)

Job == [kind : {"create", "wait"}, node : Nodes]
BundleStatus == [node : Nodes, done : BOOLEAN, err : BOOLEAN]

CreateJob(n) == [kind |-> "create", node |-> n]
WaitJob(n) == [kind |-> "wait", node |-> n]
NoStatus == [node |-> NoNode, done |-> FALSE, err |-> FALSE]

\* Mutant of Undone: the status does not say whose it is.
UndoneOfNobody(n, err) == [node |-> NoNode, done |-> FALSE, err |-> err]

Undone(n, err) == [node |-> n, done |-> FALSE, err |-> err]
Finished(n, err) == [node |-> n, done |-> TRUE, err |-> err]

Init ==
  /\ toEnqueue = Nodes
  /\ jobs = <<>>
  /\ statuses = <<>>
  /\ timers = [n \in Nodes |-> 0]
  /\ wpc = [w \in Workers |-> "select"]
  /\ wnode = [w \in Workers |-> NoNode]
  /\ wstatus = [w \in Workers |-> NoStatus]
  /\ wflush = [w \in Workers |-> FALSE]
  /\ ctxDone = FALSE
  /\ cpc = "starting"
  /\ cnode = NoNode
  /\ finished = 0
  /\ report = [n \in Nodes |-> "none"]
  /\ paths = {}
  /\ toDelete = <<>>
  /\ cleaned = 0
  /\ remote = [n \in Nodes |-> "none"]
  /\ running = {}
  /\ gone = {}
  /\ inflight = {}
  /\ undeleted = {}

-----------------------------------------------------------------------------
(* The channel of jobs: both channels have room for len(nodes) elements, and a *)
(* send waits while there is none.                                             *)

\* Mutant of Capacity: one slot too few.
ShortCapacity == N - 1

\* make(chan job, len(nodes))
Capacity == N

HasRoom(ch) == Len(ch) < Capacity

Enqueue(j) == HasRoom(jobs) /\ jobs' = Append(jobs, j)

\* CreateBundle enqueues a creation job for every node and returns; then
\* CollectBundle starts to receive. The order of the nodes does not matter.
EnqueueCreate(n) ==
  /\ n \in toEnqueue
  /\ Enqueue(CreateJob(n))
  /\ toEnqueue' = toEnqueue \ {n}
  /\ UNCHANGED <<statuses, timers, worker, ctxDone, collector, cleaned, env, undeleted>>

-----------------------------------------------------------------------------
(* worker *)

\* The worker receives a job, in the select or in the flush loop.
TakeJob(w) ==
  /\ wpc[w] = "select"
  /\ jobs # <<>>
  /\ jobs' = Tail(jobs)
  /\ wnode' = [wnode EXCEPT ![w] = Head(jobs).node]
  /\ wpc' = [wpc EXCEPT ![w] = IF Head(jobs).kind = "create" THEN "create" ELSE "ctx"]
  /\ UNCHANGED <<toEnqueue, statuses, timers, wstatus, wflush, ctxDone, collector,
                 cleaned, env, undeleted>>

\* The select chooses ctx.Done(): from now on the worker ranges over jobs, which
\* nobody closes.
StartFlush(w) ==
  /\ wpc[w] = "select"
  /\ ctxDone
  /\ ~wflush[w]
  /\ wflush' = [wflush EXCEPT ![w] = TRUE]
  /\ UNCHANGED <<work, wpc, wnode, wstatus, ctxDone, collector, cleaned, env, undeleted>>

\* The job returns status s, which the worker then sends.
Return(w, s) ==
  /\ wstatus' = [wstatus EXCEPT ![w] = s]
  /\ wpc' = [wpc EXCEPT ![w] = "send"]

\* statuses <- j(ctx)
SendStatus(w) ==
  /\ wpc[w] = "send"
  /\ HasRoom(statuses)
  /\ statuses' = Append(statuses, wstatus[w])
  /\ wpc' = [wpc EXCEPT ![w] = "select"]
  /\ wnode' = [wnode EXCEPT ![w] = NoNode]
  /\ wstatus' = [wstatus EXCEPT ![w] = NoStatus]
  /\ UNCHANGED <<toEnqueue, jobs, timers, wflush, ctxDone, collector, cleaned, env, undeleted>>

-----------------------------------------------------------------------------
(* createBundle *)

\* The node's BundleHandler (module LocalBundle) serves the creation. One that it
\* starts and then fails is a bundle that never finishes.
NodeCreates(n) ==
  /\ remote[n] = "none"
  /\ remote' = [remote EXCEPT ![n] = "Started"]
  /\ running' = running \cup {n}
  /\ UNCHANGED gone

\* client.CreateBundle succeeds: the node has a bundle and the job goes on to
\* schedule the first status check.
CreateOk(w) ==
  /\ wpc[w] = "create"
  /\ NodeCreates(wnode[w])
  /\ wpc' = [wpc EXCEPT ![w] = "enqueue"]
  /\ UNCHANGED <<work, wnode, wstatus, wflush, ctxDone, collector, cleaned, inflight, undeleted>>

\* client.CreateBundle fails: the request did not reach the node, its answer was
\* lost, or the node serves it only after the client's timeout.
CreateFails(w) ==
  /\ wpc[w] = "create"
  /\ Return(w, Finished(wnode[w], TRUE))
  /\ \/ UNCHANGED env
     \/ NodeCreates(wnode[w]) /\ UNCHANGED inflight
     \/ /\ inflight' = inflight \cup {wnode[w]}
        /\ UNCHANGED <<remote, running, gone>>
  /\ UNCHANGED <<work, wnode, wflush, ctxDone, collector, cleaned, undeleted>>

\* jobs <- waitForDone, then the undone status is returned.
ScheduleCheck(w) ==
  /\ wpc[w] = "enqueue"
  /\ Enqueue(WaitJob(wnode[w]))
  /\ Return(w, Undone(wnode[w], FALSE))
  /\ UNCHANGED <<toEnqueue, statuses, timers, wnode, wflush, ctxDone, collector,
                 cleaned, env, undeleted>>

-----------------------------------------------------------------------------
(* waitForDone *)

\* The select on ctx.Done() at the beginning.
CheckContext(w) ==
  /\ wpc[w] = "ctx"
  /\ IF ctxDone
       THEN Return(w, Finished(wnode[w], TRUE))
       ELSE wpc' = [wpc EXCEPT ![w] = "poll"] /\ UNCHANGED wstatus
  /\ UNCHANGED <<work, wnode, wflush, ctxDone, collector, cleaned, env, undeleted>>

\* Mutant of PollAgain: the next check is scheduled twice.
PollAgainTwice(n) == timers' = [timers EXCEPT ![n] = @ + 2]

\* Mutant of PollAgain: the next check is forgotten.
PollNeverAgain(n) == UNCHANGED timers

\* time.AfterFunc(c.statusCheckInterval, statusCheck)
PollAgain(n) == timers' = [timers EXCEPT ![n] = @ + 1]

\* The bundle of node n has the data file its state calls for; getBundleState
\* fails without it.
HasData(n) == remote[n] \in {"Started", "Done"} /\ n \notin gone

\* client.Status fails, or says the bundle is not finished: check again later. It
\* always fails for a bundle that was deleted while Started and then finished.
PollUndone(w, err) ==
  /\ wpc[w] = "poll"
  /\ err \/ (remote[wnode[w]] = "Started" /\ HasData(wnode[w]))
  /\ PollAgain(wnode[w])
  /\ Return(w, Undone(wnode[w], err))
  /\ UNCHANGED <<toEnqueue, jobs, statuses, wnode, wflush, ctxDone, collector,
                 cleaned, env, undeleted>>

\* bundle.IsFinished()
Terminal(n) == remote[n] = "Deleted" \/ (remote[n] = "Done" /\ HasData(n))

\* client.Status says the bundle is finished.
PollDone(w) ==
  /\ wpc[w] = "poll"
  /\ Terminal(wnode[w])
  /\ Return(w, Finished(wnode[w], FALSE))
  /\ UNCHANGED <<work, wnode, wflush, ctxDone, collector, cleaned, env, undeleted>>

\* A timer fires and its goroutine enqueues the check.
TimerFires(n) ==
  /\ timers[n] > 0
  /\ Enqueue(WaitJob(n))
  /\ timers' = [timers EXCEPT ![n] = @ - 1]
  /\ UNCHANGED <<toEnqueue, statuses, worker, ctxDone, collector, cleaned, env, undeleted>>

-----------------------------------------------------------------------------
(* CollectBundle *)

StartCollect ==
  /\ cpc = "starting"
  /\ toEnqueue = {}
  /\ cpc' = "receive"
  /\ UNCHANGED <<work, worker, ctxDone, cnode, finished, report, paths, toDelete,
                 cleaned, env, undeleted>>

\* Mutant of Counts: every status counts as the end of a local bundle.
CountsAlways(s) == TRUE

\* if !s.done { continue }
Counts(s) == s.done

\* One round of the loop up to the download: a status that is not done is only
\* logged, an errored node is reported Failed.
Receive ==
  /\ cpc = "receive"
  /\ finished < N
  /\ statuses # <<>>
  /\ statuses' = Tail(statuses)
  /\ LET s == Head(statuses) IN
       \/ ~Counts(s) /\ UNCHANGED collector
       \/ /\ Counts(s)
          /\ toDelete' = Append(toDelete, s.node)
          /\ finished' = finished + 1
          /\ IF s.err
               THEN /\ report' = [report EXCEPT ![s.node] = "Failed"]
                    /\ UNCHANGED <<cpc, cnode>>
               ELSE /\ cpc' = "download"
                    /\ cnode' = s.node
                    /\ UNCHANGED report
          /\ UNCHANGED paths
  /\ UNCHANGED <<toEnqueue, jobs, timers, worker, ctxDone, cleaned, env, undeleted>>

\* client.GetFile: only a bundle that is Done is served, and the call may fail.
Download(ok) ==
  /\ cpc = "download"
  /\ ok => remote[cnode] = "Done" /\ HasData(cnode)
  /\ report' = [report EXCEPT ![cnode] = IF ok THEN "Done" ELSE "Failed"]
  /\ paths' = IF ok THEN paths \cup {cnode} ELSE paths
  /\ cpc' = "receive"
  /\ cnode' = NoNode
  /\ UNCHANGED <<work, worker, ctxDone, finished, toDelete, cleaned, env, undeleted>>

\* Mutant of AllFinished: the loop ends one node early.
AlmostAllFinished == finished >= N - 1

\* The condition that ends the loop.
AllFinished == finished >= N

\* The loop is over: the cleanup goroutine starts and the archives are merged.
\* ok is what mergeZips returns: it fails when it cannot create its result, write
\* an entry or read one of the archives. The errors of the two deferred Close calls
\* are dropped; what that does to the archive is in ClusterBundle.
Merge(ok) ==
  /\ cpc = "receive"
  /\ AllFinished
  /\ cpc' = IF ok THEN "merged" ELSE "failed"
  /\ UNCHANGED <<work, worker, ctxDone, cnode, finished, report, paths, toDelete,
                 cleaned, env, undeleted>>

\* Delete on node n: the data file is removed, then the state file is written,
\* unless that write fails.
NodeDeletes(n, written) ==
  /\ HasData(n)
  /\ gone' = gone \cup {n}
  /\ remote' = IF written THEN [remote EXCEPT ![n] = "Deleted"] ELSE remote
  /\ UNCHANGED running

\* The cleanup goroutine deletes the next local bundle; it tries once. A bundle
\* that is Deleted already is deleted again without effect; one that does not
\* exist, or has no data file, cannot be.
Cleanup(ok) ==
  /\ cpc \in {"merged", "failed"}
  /\ cleaned < Len(toDelete)
  /\ LET n == toDelete[cleaned + 1] IN
       \/ /\ ok
          /\ \/ NodeDeletes(n, TRUE)
             \/ remote[n] = "Deleted" /\ UNCHANGED <<remote, running, gone>>
          /\ UNCHANGED undeleted
       \/ /\ ~ok
          /\ undeleted' = undeleted \cup {n}
          /\ \/ \E written \in BOOLEAN : NodeDeletes(n, written)
             \/ UNCHANGED <<remote, running, gone>>
  /\ cleaned' = cleaned + 1
  /\ UNCHANGED <<work, worker, ctxDone, collector, inflight>>

-----------------------------------------------------------------------------
(* The context, and what nodes do on their own. *)

Expire ==
  /\ ~ctxDone
  /\ ctxDone' = TRUE
  /\ UNCHANGED <<work, worker, collector, cleaned, env, undeleted>>

\* The collection of a node's local bundle ends and its watcher writes Done, over
\* whatever the state file says, a Deleted too. A bundle that runs out of time, or
\* whose state file cannot be written, is one whose collection never ends.
NodeFinishes(n) ==
  /\ n \in running
  /\ running' = running \ {n}
  /\ remote' = [remote EXCEPT ![n] = "Done"]
  /\ UNCHANGED <<work, worker, ctxDone, collector, cleaned, gone, inflight, undeleted>>

\* An operator deletes the local bundle on its node, or the node serves a Delete of
\* the cleanup late.
DeletedThere(n, written) ==
  /\ NodeDeletes(n, written)
  /\ UNCHANGED <<work, worker, ctxDone, collector, cleaned, inflight, undeleted>>

\* A node serves a creation request late.
LateCreate(n) ==
  /\ n \in inflight
  /\ inflight' = inflight \ {n}
  /\ \/ NodeCreates(n)
     \/ remote[n] # "none" /\ UNCHANGED <<remote, running, gone>>
  /\ UNCHANGED <<work, worker, ctxDone, collector, cleaned, undeleted>>

RunJob(w) ==
  \/ CreateOk(w) \/ CreateFails(w) \/ ScheduleCheck(w)
  \/ CheckContext(w) \/ PollDone(w) \/ \E err \in BOOLEAN : PollUndone(w, err)

Collect ==
  \/ StartCollect \/ Receive
  \/ \E ok \in BOOLEAN : Download(ok) \/ Merge(ok)

Next ==
  \/ \E n \in Nodes : EnqueueCreate(n) \/ TimerFires(n) \/ LateCreate(n)
  \/ \E n \in Nodes : NodeFinishes(n)
  \/ \E n \in Meddled : \E written \in BOOLEAN : DeletedThere(n, written)
  \/ \E w \in Workers : TakeJob(w) \/ StartFlush(w) \/ RunJob(w) \/ SendStatus(w)
  \/ Collect
  \/ \E ok \in BOOLEAN : Cleanup(ok)
  \/ Expire

Spec == Init /\ [][Next]_vars

\* Goroutines are scheduled, calls return (the HTTP client has a timeout), timers
\* fire, and senders waiting for a channel are served in order. Nodes need not
\* ever finish their bundles.
Fairness ==
  /\ WF_vars(Expire) /\ WF_vars(Collect)
  /\ WF_vars(\E ok \in BOOLEAN : Cleanup(ok))
  /\ \A n \in Nodes : WF_vars(EnqueueCreate(n)) /\ WF_vars(TimerFires(n))
  /\ \A w \in Workers : /\ WF_vars(TakeJob(w)) /\ WF_vars(RunJob(w))
                        /\ SF_vars(SendStatus(w))

FairSpec == Spec /\ Fairness

-----------------------------------------------------------------------------
(* Properties. *)

\* Types: channels hold jobs and statuses of nodes, and every report entry is a status of the API.
TypeOK ==
  /\ toEnqueue \subseteq Nodes
  /\ jobs \in Seq(Job)
  /\ statuses \in Seq(BundleStatus)
  /\ timers \in [Nodes -> Nat]
  /\ wpc \in [Workers -> {"select", "create", "enqueue", "ctx", "poll", "send"}]
  /\ wnode \in [Workers -> Nodes \cup {NoNode}]
  /\ wstatus \in [Workers -> BundleStatus \cup {NoStatus}]
  /\ wflush \in [Workers -> BOOLEAN]
  /\ ctxDone \in BOOLEAN
  /\ cpc \in {"starting", "receive", "download", "merged", "failed"}
  /\ cnode \in Nodes \cup {NoNode}
  /\ finished \in Nat
  /\ report \in [Nodes -> {"none", "Done", "Failed"}]
  /\ paths \subseteq Nodes
  /\ toDelete \in Seq(Nodes)
  /\ cleaned \in Nat
  /\ remote \in [Nodes -> {"none", "Started", "Done", "Deleted"}]
  /\ running \subseteq Nodes /\ gone \subseteq Nodes
  /\ inflight \subseteq Nodes
  /\ undeleted \subseteq Nodes

\* Worker w is between taking a job and handing the node on.
Holds(w) == wpc[w] \in {"create", "enqueue", "ctx", "poll"}

\* Where the one thread of control of node n can be: not yet enqueued, in a job,
\* with a worker, in a timer, in a done status on its way, or received.
Places(n) ==
  {<<"new">> : x \in toEnqueue \cap {n}}
  \cup {<<"job", i>> : i \in {i \in DOMAIN jobs : jobs[i].node = n}}
  \cup {<<"worker", w>> : w \in {w \in Workers : Holds(w) /\ wnode[w] = n}}
  \cup {<<"timer", i>> : i \in 1..timers[n]}
  \cup {<<"sending", w>> : w \in {w \in Workers : /\ wpc[w] = "send" /\ wnode[w] = n
                                                  /\ wstatus[w].done}}
  \cup {<<"status", i>> : i \in {i \in DOMAIN statuses : /\ statuses[i].node = n
                                                          /\ statuses[i].done}}
  \cup {<<"received", i>> : i \in {i \in DOMAIN toDelete : toDelete[i] = n}}

\* Every node is in exactly one place, whatever statuses overtake each other: it
\* is neither forgotten nor counted twice.
OnePlacePerNode == \A n \in Nodes : Cardinality(Places(n)) = 1

\* Nobody who wants to enqueue a job ever waits for room in the channel: neither
\* CreateBundle, nor a worker (the workers are the only ones to make room), nor a
\* timer.
EnqueueNeverBlocks ==
  /\ \A n \in Nodes : n \in toEnqueue \/ timers[n] > 0 => HasRoom(jobs)
  /\ \A w \in Workers : wpc[w] = "enqueue" => HasRoom(jobs)

\* When the bundles are merged the report has an entry for every node and the
\* archive holds exactly the nodes reported Done, whose local bundle was finished.
ReportIsComplete ==
  cpc \in {"merged", "failed"} =>
    /\ \A n \in Nodes : report[n] # "none"
    /\ paths = {n \in Nodes : report[n] = "Done"}
    /\ \A n \in paths : remote[n] \in {"Done", "Deleted"}

\* The cleanup leaves the archive of no local bundle behind, not even of one whose
\* creation was reported as failed or that was still being collected, except where
\* the Delete call itself failed or the node served the creation after it. The
\* state file then says Deleted, or Done where the watcher wrote over it.
CleanupCoversAll ==
  cpc \in {"merged", "failed"} /\ cleaned = Len(toDelete) =>
    \A n \in Nodes : n \in undeleted \/ (n \in gone /\ remote[n] \in {"Done", "Deleted"})

\* CollectBundle ends, however nodes, workers and timers behave, and the cleanup
\* deals with every node.
CollectTerminates == <>(cpc \in {"merged", "failed"} /\ cleaned = N)

=============================================================================
